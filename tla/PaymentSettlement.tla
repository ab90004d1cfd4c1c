-------------------------- MODULE PaymentSettlement --------------------------
(***************************************************************************)
(* How money reaches an invoice (backend/finance, backend/payment_gateways)*)
(*                                                                         *)
(* Every HTTP request is one PostgreSQL transaction at READ COMMITTED: a   *)
(* statement sees what others have committed when it starts plus what the  *)
(* request itself wrote, and nobody else sees those writes before COMMIT.  *)
(* A request is therefore a record of what it has read so far, and one     *)
(* action per statement whose result later code depends on.  Its writes    *)
(* appear in the ledger in one step, its commit; trailing writes are       *)
(* merged with it, since no read of the request separates them.            *)
(*                                                                         *)
(* rowLock holds the SELECT ... FOR UPDATE owners of invoice rows.  The    *)
(* same lock delays an UPDATE of the row by somebody else, and also the    *)
(* commit of a new payment: its foreign key check needs KEY SHARE on the   *)
(* invoice, which FOR UPDATE excludes.  It delays no plain read, no        *)
(* soft delete and no edit of a payment that stays on its invoice.  A soft *)
(* delete locks the payment's own row until its request commits.           *)
(***************************************************************************)
EXTENDS Integers, FiniteSets

CONSTANTS
  Invoices,        \* finance.invoices rows
  Payments,        \* ids of finance.payments rows; bounds how many are written
  PaymeTxns,       \* GatewayTransaction rows with provider "payme"
  ClickTxns,       \* GatewayTransaction rows with provider "click"
  ProviderIds,     \* transaction ids Payme and Click assign on their side
  Requests,        \* requests that can be in flight at the same time
  Totals,          \* values an invoice's total_amount may take, in minor units
  MaxAmount,       \* largest amount (DecimalField max_digits=12), minor units
  AdminOps,        \* the staff endpoints in use, a subset of AllAdminOps
  SerialProvider,  \* TRUE: a provider waits for our answer before it calls
                   \* again about the same transaction
  None             \* SQL NULL

Txns == PaymeTxns \cup ClickTxns
Amounts == 1..MaxAmount

AllAdminOps == {"create", "destroy", "update", "pay", "invoice_update", "invoice_destroy"}

ASSUME DataAssumption ==
  /\ IsFiniteSet(Payments)
  /\ PaymeTxns \cap ClickTxns = {}
  /\ MaxAmount \in Nat
  /\ Totals \subseteq 0..MaxAmount

ASSUME NoneAssumption ==
  None \notin Invoices \cup Payments \cup Txns \cup ProviderIds \cup Requests

ASSUME UseAssumption ==
  /\ AdminOps \subseteq AllAdminOps
  /\ SerialProvider \in BOOLEAN

VARIABLES
  inv,      \* committed invoice rows
  pay,      \* committed payment rows
  txn,      \* committed gateway transaction rows
  rowLock,  \* who holds FOR UPDATE on each invoice row
  req       \* what each request in flight has read and means to write

vars == <<inv, pay, txn, rowLock, req>>

-----------------------------------------------------------------------------
(* Rows and requests *)

InvoiceStatuses == {"pending", "partially_paid", "paid"}
TxnStatuses == {"absent", "initiated", "pending", "success", "failed", "cancelled"}

InvoiceRow == [alive: BOOLEAN, total: 0..MaxAmount, status: InvoiceStatuses]

\* txn is the gateway transaction whose webhook wrote the payment (the row
\* itself keeps only payment_method), None for a payment staff recorded.
PaymentRow == [state: {"absent", "live", "deleted"}, inv: Invoices \cup {None},
               amount: 0..MaxAmount, txn: Txns \cup {None}]

\* overwritten: history: a call has saved the row over an outcome, success or
\* cancelled, that it had not read.
TxnRow == [status: TxnStatuses, inv: Invoices \cup {None}, amount: 0..MaxAmount,
           provider_id: ProviderIds \cup {None}, state: {0, 1, 2, -1, -2},
           payment: Payments \cup {None}, overwritten: BOOLEAN]

Crediting == {"perform", "complete", "pay", "create"}
Reversing == {"cancel", "destroy"}
Locking == {"perform", "complete", "pay"}

Call == [op: Crediting \cup Reversing
             \cup {"none", "create_txn", "prepare", "fail", "update", "invoice_update"},
         pc: {"idle", "lock", "delete", "recompute", "commit"},
         txn: Txns \cup {None}, inv: Invoices \cup {None}, pay: Payments \cup {None},
         id: ProviderIds \cup {None},
         amount: 0..MaxAmount,                        \* to credit, or to save
         total: 0..MaxAmount,                         \* invoice.total_amount as read
         status: InvoiceStatuses \cup {"none"},       \* invoice.status as read
         write: InvoiceStatuses \cup {"none"},        \* the status to save, if any
         was: TxnStatuses]                            \* txn.status as read

NoCall == [op |-> "none", pc |-> "idle", txn |-> None, inv |-> None, pay |-> None,
           id |-> None, amount |-> 0, total |-> 0, status |-> "none",
           write |-> "none", was |-> "absent"]

NoPayment == [state |-> "absent", inv |-> None, amount |-> 0, txn |-> None]
NoTxn == [status |-> "absent", inv |-> None, amount |-> 0, provider_id |-> None,
          state |-> 0, payment |-> None, overwritten |-> FALSE]

TypeOK ==
  /\ inv \in [Invoices -> InvoiceRow]
  /\ pay \in [Payments -> PaymentRow]
  /\ txn \in [Txns -> TxnRow]
  /\ rowLock \in [Invoices -> Requests \cup {None}]
  /\ req \in [Requests -> Call]

-----------------------------------------------------------------------------
(* What the code computes from the ledger *)

(***************************************************************************)
(* SUM(amount) over the live payments of an invoice, as the number of      *)
(* minor units they consist of.                                            *)
(***************************************************************************)
PaidUnits(i) ==
  {u \in Payments \X Amounts :
     /\ pay[u[1]].state = "live"
     /\ pay[u[1]].inv = i
     /\ u[2] <= pay[u[1]].amount}

invoice_paid_amount(i) == Cardinality(PaidUnits(i))

\* Fault: what was already paid is not deducted.
BalanceIgnoringPayments(i) == inv[i].total
invoice_balance(i) == inv[i].total - invoice_paid_amount(i)

StatusFor(paid, total) ==
  IF paid >= total THEN "paid" ELSE IF paid > 0 THEN "partially_paid" ELSE "pending"

\* Fault: the sum is taken before the request's own write.
OwnViewTooEarly(q) == invoice_paid_amount(q.inv)
\* The sum a request sees in the middle of its own transaction.
OwnView(q) ==
  IF q.op \in Crediting
  THEN invoice_paid_amount(q.inv) + q.amount
  ELSE Cardinality({u \in PaidUnits(q.inv) : u[1] # q.pay})

Idle(r) == req[r].pc = "idle"
Starts(r, q) == Idle(r) /\ req' = [req EXCEPT ![r] = q]
Ends(r) == req' = [req EXCEPT ![r] = NoCall]

\* A payment id no row and no request has taken: the uuid of a new row.
FreshPayment(p) == pay[p].state = "absent" /\ \A r \in Requests : req[r].pay # p

MayCall(t) == SerialProvider => \A r \in Requests : req[r].txn # t

\* Fault: Invoice.objects.get() instead of select_for_update().
UnlockedAlways(i) == rowLock[i] \in Requests \cup {None}
Unlocked(i) == rowLock[i] = None

\* Fault: the row is marked cancelled, its payment forgotten.
ReversesNothing(was, p) == FALSE
Reverses(was, p) == was = "success" /\ p # None

\* The request has updated this payment row, deleted_at, and not yet committed.
HoldsPayment(r, p) ==
  /\ req[r].pay = p
  /\ \/ req[r].op \in Reversing /\ req[r].pc = "recompute"
     \/ req[r].op = "destroy" /\ req[r].pc = "commit"
     \/ req[r].op = "cancel" /\ req[r].pc = "commit" /\ Reverses(req[r].was, p)

PaymentUnlocked(p) == \A r \in Requests : ~HoldsPayment(r, p)

\* The row as a provider's call saves it: no handler reads it again, or locks it.
Saved(row, q) ==
  [row EXCEPT !.overwritten = @ \/ (row.status \in {"success", "cancelled"} /\ row.status # q.was)]

ProviderIdTaken(t, id) ==
  LET same == IF t \in PaymeTxns THEN PaymeTxns ELSE ClickTxns
  IN  \E u \in same \ {t} : txn[u].provider_id = id

-----------------------------------------------------------------------------
Init ==
  /\ inv \in [Invoices -> {[alive |-> TRUE, total |-> n, status |-> "pending"] : n \in Totals}]
  /\ pay = [p \in Payments |-> NoPayment]
  /\ txn = [t \in Txns |-> NoTxn]
  /\ rowLock = [i \in Invoices |-> None]
  /\ req = [r \in Requests |-> NoCall]

(***************************************************************************)
(* build_checkout_url: a link for what the invoice still owes.  Read and   *)
(* insert are one step: nobody can name the transaction before the reply.  *)
(***************************************************************************)
Checkout(t, i) ==
  /\ txn[t].status = "absent"
  /\ inv[i].alive
  /\ invoice_balance(i) > 0
  /\ txn' = [txn EXCEPT ![t] = [NoTxn EXCEPT !.status = "initiated", !.inv = i,
                                             !.amount = invoice_balance(i)]]
  /\ UNCHANGED <<inv, pay, rowLock, req>>

-----------------------------------------------------------------------------
(* Payme.  The calls that find nothing to do (replays, refusals) change no  *)
(* row and are left out.                                                    *)

CreateTransactionRead(r, t, id) ==
  /\ t \in PaymeTxns /\ MayCall(t)
  /\ \A u \in PaymeTxns : txn[u].provider_id # id
  /\ txn[t].status = "initiated"
  /\ Starts(r, [NoCall EXCEPT !.op = "create_txn", !.pc = "commit", !.txn = t, !.id = id,
                              !.was = txn[t].status])
  /\ UNCHANGED <<inv, pay, txn, rowLock>>

\* uq_gateway_transactions_provider_txn_id refuses an id another row took meanwhile.
CreateTransactionSave(r) ==
  LET t == req[r].txn IN
  /\ req[r].op = "create_txn"
  /\ IF ProviderIdTaken(t, req[r].id)
     THEN UNCHANGED txn
     ELSE txn' = [txn EXCEPT ![t] = [Saved(@, req[r]) EXCEPT !.provider_id = req[r].id,
                                                             !.status = "pending", !.state = 1]]
  /\ Ends(r)
  /\ UNCHANGED <<inv, pay, rowLock>>

\* Fault: only a cancelled transaction is refused, a success is not a replay.
PerformableTwice(t) == txn[t].status \in {"pending", "success"}
Performable(t) == txn[t].status = "pending"

PerformTransactionRead(r, t) ==
  /\ t \in PaymeTxns /\ MayCall(t)
  /\ txn[t].provider_id # None
  /\ Performable(t)
  /\ \E p \in Payments :
       /\ FreshPayment(p)
       /\ Starts(r, [NoCall EXCEPT !.op = "perform", !.pc = "lock", !.txn = t, !.pay = p,
                                   !.inv = txn[t].inv, !.amount = txn[t].amount,
                                   !.was = txn[t].status])
  /\ UNCHANGED <<inv, pay, txn, rowLock>>

CancelTransactionRead(r, t) ==
  /\ t \in PaymeTxns /\ MayCall(t)
  /\ txn[t].provider_id # None
  /\ txn[t].status # "cancelled"
  /\ Starts(r, [NoCall EXCEPT !.op = "cancel", !.txn = t, !.inv = txn[t].inv,
                              !.pc = IF Reverses(txn[t].status, txn[t].payment)
                                     THEN "delete" ELSE "commit",
                              !.pay = txn[t].payment, !.was = txn[t].status])
  /\ UNCHANGED <<inv, pay, txn, rowLock>>

\* txn.payment.delete(), then txn.invoice is fetched for the recomputation, unlocked.
CancelTransactionDelete(r) ==
  LET i == req[r].inv IN
  /\ req[r].op = "cancel" /\ req[r].pc = "delete"
  /\ PaymentUnlocked(req[r].pay)
  /\ req' = [req EXCEPT ![r].pc = "recompute", ![r].total = inv[i].total,
                        ![r].status = inv[i].status]
  /\ UNCHANGED <<inv, pay, txn, rowLock>>

-----------------------------------------------------------------------------
(* Click *)

\* Fault: a late Prepare of a paid order is let through.
PreparableWhenPaid(t) == txn[t].status \notin {"absent", "cancelled"}
Preparable(t) == txn[t].status \notin {"absent", "success", "cancelled"}

PrepareRead(r, t, id) ==
  /\ t \in ClickTxns /\ MayCall(t)
  /\ Preparable(t)
  /\ Starts(r, [NoCall EXCEPT !.op = "prepare", !.pc = "commit", !.txn = t, !.id = id,
                              !.was = txn[t].status])
  /\ UNCHANGED <<inv, pay, txn, rowLock>>

PrepareSave(r) ==
  LET t == req[r].txn IN
  /\ req[r].op = "prepare"
  /\ IF ProviderIdTaken(t, req[r].id)
     THEN UNCHANGED txn
     ELSE txn' = [txn EXCEPT ![t] = [Saved(@, req[r]) EXCEPT !.provider_id = req[r].id,
                                                             !.status = "pending"]]
  /\ Ends(r)
  /\ UNCHANGED <<inv, pay, rowLock>>

\* Click knows merchant_prepare_id, our txn.id, only from an answer to Prepare.
CompleteRead(r, t) ==
  /\ t \in ClickTxns /\ MayCall(t)
  /\ txn[t].provider_id # None
  /\ txn[t].status \notin {"absent", "success", "cancelled"}
  /\ \E p \in Payments :
       /\ FreshPayment(p)
       /\ Starts(r, [NoCall EXCEPT !.op = "complete", !.pc = "lock", !.txn = t, !.pay = p,
                                   !.inv = txn[t].inv, !.amount = txn[t].amount,
                                   !.was = txn[t].status])
  /\ UNCHANGED <<inv, pay, txn, rowLock>>

\* Complete with a negative error: the payment failed on Click's side.
CompleteFailedRead(r, t) ==
  /\ t \in ClickTxns /\ MayCall(t)
  /\ txn[t].provider_id # None
  /\ txn[t].status \notin {"absent", "success", "cancelled"}
  /\ Starts(r, [NoCall EXCEPT !.op = "fail", !.pc = "commit", !.txn = t, !.was = txn[t].status])
  /\ UNCHANGED <<inv, pay, txn, rowLock>>

CompleteFailedSave(r) ==
  /\ req[r].op = "fail"
  /\ txn' = [txn EXCEPT ![req[r].txn] = [Saved(@, req[r]) EXCEPT !.status = "failed"]]
  /\ Ends(r)
  /\ UNCHANGED <<inv, pay, rowLock>>

-----------------------------------------------------------------------------
(* Crediting under the invoice lock: PerformTransaction and Complete *)

\* Fault: any balance left is enough.
CoversSome(i, a) == invoice_balance(i) > 0
Covers(i, a) == invoice_balance(i) >= a

\* Invoice.objects.select_for_update().get(pk=...), and the balance check.
SettleLock(r) ==
  LET i == req[r].inv IN
  /\ req[r].pc = "lock"
  /\ Unlocked(i)
  /\ IF inv[i].alive /\ Covers(i, req[r].amount)
     THEN /\ rowLock' = [rowLock EXCEPT ![i] = r]
          /\ req' = [req EXCEPT ![r].pc = "recompute", ![r].total = inv[i].total,
                                ![r].status = inv[i].status]
     ELSE /\ Ends(r)
          /\ UNCHANGED rowLock
  /\ UNCHANGED <<inv, pay, txn>>

\* recompute_invoice_status, on the invoice object the request holds.
Recompute(r) ==
  LET s == StatusFor(OwnView(req[r]), req[r].total) IN
  /\ req[r].pc = "recompute"
  /\ req' = [req EXCEPT ![r].pc = "commit",
                        ![r].write = IF s # req[r].status THEN s ELSE "none"]
  /\ UNCHANGED <<inv, pay, txn, rowLock>>

\* invoice.save(update_fields=["status"]): waits for a lock on the row.
StatusSaved(r) ==
  IF req[r].write = "none"
  THEN UNCHANGED inv
  ELSE /\ rowLock[req[r].inv] \in {None, r}
       /\ inv' = [inv EXCEPT ![req[r].inv].status = req[r].write]

PaymentInserted(r, t) ==
  pay' = [pay EXCEPT ![req[r].pay] = [state |-> "live", inv |-> req[r].inv,
                                      amount |-> req[r].amount, txn |-> t]]

PaymentSoftDeleted(r) == pay' = [pay EXCEPT ![req[r].pay].state = "deleted"]

\* Fault: the lock outlives the request.
ReleasesNothing(r) == UNCHANGED rowLock
Releases(r) == rowLock' = [rowLock EXCEPT ![req[r].inv] = None]

\* Fault: payment is missing from update_fields.
SettledUnlinked(row, p) == [row EXCEPT !.status = "success"]
Settled(row, p) == [row EXCEPT !.status = "success", !.payment = p]

PerformTransactionCommit(r) ==
  LET t == req[r].txn IN
  /\ req[r].op = "perform" /\ req[r].pc = "commit"
  /\ PaymentInserted(r, t)
  /\ StatusSaved(r)
  /\ txn' = [txn EXCEPT ![t] = [Settled(Saved(@, req[r]), req[r].pay) EXCEPT !.state = 2]]
  /\ Releases(r)
  /\ Ends(r)

CompleteCommit(r) ==
  LET t == req[r].txn IN
  /\ req[r].op = "complete" /\ req[r].pc = "commit"
  /\ PaymentInserted(r, t)
  /\ StatusSaved(r)
  /\ txn' = [txn EXCEPT ![t] = Settled(Saved(@, req[r]), req[r].pay)]
  /\ Releases(r)
  /\ Ends(r)

\* Saves the payment field too: NULL after a reversal, else the one that was read.
Cancelled(row, q) ==
  [row EXCEPT !.status = "cancelled", !.state = IF q.was = "success" THEN -2 ELSE -1,
              !.payment = IF Reverses(q.was, q.pay) THEN None ELSE q.pay]

CancelTransactionCommit(r) ==
  /\ req[r].op = "cancel" /\ req[r].pc = "commit"
  /\ IF Reverses(req[r].was, req[r].pay)
     THEN PaymentSoftDeleted(r) /\ StatusSaved(r)
     ELSE UNCHANGED <<pay, inv>>
  /\ txn' = [txn EXCEPT ![req[r].txn] = Cancelled(Saved(@, req[r]), req[r])]
  /\ Ends(r)
  /\ UNCHANGED rowLock

-----------------------------------------------------------------------------
(* Staff: PaymentViewSet, GroupBillingViewSet.pay, InvoiceViewSet *)

\* PaymentSerializer.validate checks the balance, without a lock.
PaymentCreateRead(r, i, a) ==
  /\ "create" \in AdminOps
  /\ inv[i].alive
  /\ Covers(i, a)
  /\ \E p \in Payments :
       /\ FreshPayment(p)
       /\ Starts(r, [NoCall EXCEPT !.op = "create", !.pc = "recompute", !.inv = i, !.pay = p,
                                   !.amount = a, !.total = inv[i].total,
                                   !.status = inv[i].status])
  /\ UNCHANGED <<inv, pay, txn, rowLock>>

\* The foreign key check at commit waits for a FOR UPDATE lock on the invoice.
PaymentCreateCommit(r) ==
  /\ req[r].op = "create" /\ req[r].pc = "commit"
  /\ Unlocked(req[r].inv)
  /\ PaymentInserted(r, None)
  /\ StatusSaved(r)
  /\ Ends(r)
  /\ UNCHANGED <<txn, rowLock>>

PaymentDestroyRead(r, p) ==
  LET i == pay[p].inv IN
  /\ "destroy" \in AdminOps
  /\ pay[p].state = "live"
  /\ Starts(r, [NoCall EXCEPT !.op = "destroy", !.pc = "delete", !.inv = i, !.pay = p,
                              !.total = inv[i].total, !.status = inv[i].status])
  /\ UNCHANGED <<inv, pay, txn, rowLock>>

PaymentDestroyDelete(r) ==
  /\ req[r].op = "destroy" /\ req[r].pc = "delete"
  /\ PaymentUnlocked(req[r].pay)
  /\ req' = [req EXCEPT ![r].pc = "recompute"]
  /\ UNCHANGED <<inv, pay, txn, rowLock>>

PaymentDestroyCommit(r) ==
  /\ req[r].op = "destroy" /\ req[r].pc = "commit"
  /\ PaymentSoftDeleted(r)
  /\ StatusSaved(r)
  /\ Ends(r)
  /\ UNCHANGED <<txn, rowLock>>

\* PATCH payments/{id}/: neither validate nor the view looks at the balance.
PaymentUpdateRead(r, p, i, a) ==
  /\ "update" \in AdminOps
  /\ pay[p].state = "live"
  /\ inv[i].alive \/ i = pay[p].inv
  /\ Starts(r, [NoCall EXCEPT !.op = "update", !.pc = "commit", !.inv = i, !.pay = p,
                              !.amount = a])
  /\ UNCHANGED <<inv, pay, txn, rowLock>>

\* instance.save() writes every column, deleted_at = NULL included.
PaymentUpdateSave(r) ==
  LET p == req[r].pay IN
  /\ req[r].op = "update"
  /\ PaymentUnlocked(p)
  /\ pay[p].inv # req[r].inv => Unlocked(req[r].inv)
  /\ pay' = [pay EXCEPT ![p].state = "live", ![p].inv = req[r].inv, ![p].amount = req[r].amount]
  /\ Ends(r)
  /\ UNCHANGED <<inv, txn, rowLock>>

\* pay() for a month billed by one invoice: lock, then refuse more than it owes.
PayLock(r, i, a) ==
  /\ "pay" \in AdminOps
  /\ Unlocked(i) /\ inv[i].alive
  /\ Covers(i, a)
  /\ \E p \in Payments :
       /\ FreshPayment(p)
       /\ Starts(r, [NoCall EXCEPT !.op = "pay", !.pc = "recompute", !.inv = i, !.pay = p,
                                   !.amount = a, !.total = inv[i].total,
                                   !.status = inv[i].status])
  /\ rowLock' = [rowLock EXCEPT ![i] = r]
  /\ UNCHANGED <<inv, pay, txn>>

PayCommit(r) ==
  /\ req[r].op = "pay" /\ req[r].pc = "commit"
  /\ PaymentInserted(r, None)
  /\ StatusSaved(r)
  /\ Releases(r)
  /\ Ends(r)
  /\ UNCHANGED txn

InvoiceUpdateRead(r, i, n) ==
  /\ "invoice_update" \in AdminOps
  /\ inv[i].alive
  /\ Starts(r, [NoCall EXCEPT !.op = "invoice_update", !.pc = "commit", !.inv = i, !.total = n,
                              !.status = inv[i].status])
  /\ UNCHANGED <<inv, pay, txn, rowLock>>

\* instance.save() again: the status it read goes back with the new total.
InvoiceUpdateSave(r) ==
  LET i == req[r].inv IN
  /\ req[r].op = "invoice_update"
  /\ Unlocked(i)
  /\ inv' = [inv EXCEPT ![i] = [alive |-> TRUE, total |-> req[r].total, status |-> req[r].status]]
  /\ Ends(r)
  /\ UNCHANGED <<pay, txn, rowLock>>

InvoiceDestroy(i) ==
  /\ "invoice_destroy" \in AdminOps
  /\ inv[i].alive /\ Unlocked(i)
  /\ inv' = [inv EXCEPT ![i].alive = FALSE]
  /\ UNCHANGED <<pay, txn, rowLock, req>>

-----------------------------------------------------------------------------
\* The worker or its connection dies before COMMIT: PostgreSQL rolls back.
Abort(r) ==
  /\ ~Idle(r)
  /\ rowLock' = [i \in Invoices |-> IF rowLock[i] = r THEN None ELSE rowLock[i]]
  /\ Ends(r)
  /\ UNCHANGED <<inv, pay, txn>>

\* The steps of a request that has started.
Proceeds(r) ==
  \/ CreateTransactionSave(r)
  \/ CancelTransactionDelete(r) \/ CancelTransactionCommit(r)
  \/ PrepareSave(r) \/ CompleteFailedSave(r)
  \/ SettleLock(r) \/ Recompute(r)
  \/ PerformTransactionCommit(r) \/ CompleteCommit(r)
  \/ PaymentCreateCommit(r) \/ PaymentUpdateSave(r)
  \/ PaymentDestroyDelete(r) \/ PaymentDestroyCommit(r)
  \/ PayCommit(r) \/ InvoiceUpdateSave(r)

ProviderCalls(r, t) ==
  \/ \E id \in ProviderIds : CreateTransactionRead(r, t, id) \/ PrepareRead(r, t, id)
  \/ PerformTransactionRead(r, t)
  \/ CancelTransactionRead(r, t)
  \/ CompleteRead(r, t)
  \/ CompleteFailedRead(r, t)

StaffCalls(r, i) ==
  \/ \E a \in Amounts :
       \/ PaymentCreateRead(r, i, a)
       \/ PayLock(r, i, a)
       \/ \E p \in Payments : PaymentUpdateRead(r, p, i, a)
  \/ \E n \in Totals : InvoiceUpdateRead(r, i, n)

Next ==
  \/ \E t \in Txns, i \in Invoices : Checkout(t, i)
  \/ \E r \in Requests, t \in Txns : ProviderCalls(r, t)
  \/ \E r \in Requests, i \in Invoices : StaffCalls(r, i)
  \/ \E r \in Requests, p \in Payments : PaymentDestroyRead(r, p)
  \/ \E i \in Invoices : InvoiceDestroy(i)
  \/ \E r \in Requests : Proceeds(r) \/ Abort(r)

Spec == Init /\ [][Next]_vars

(***************************************************************************)
(* gunicorn and PostgreSQL finish or abort every request they have begun.  *)
(* Strong fairness: a request waiting for a row lock is enabled only while *)
(* the lock is free, and PostgreSQL hands locks out in the order asked.    *)
(***************************************************************************)
FairSpec == Spec /\ \A r \in Requests : SF_vars(Proceeds(r))

-----------------------------------------------------------------------------
(* Properties *)

CreditsOf(t) == {p \in Payments : pay[p].txn = t}
LiveCreditsOf(t) == {p \in CreditsOf(t) : pay[p].state = "live"}

(***************************************************************************)
(* No invoice is ever paid beyond its total, whatever webhooks and pay()   *)
(* calls overlap: select_for_update plus the balance check under the lock  *)
(* (payme.py, click.py, GroupBillingViewSet.pay).                          *)
(***************************************************************************)
NeverOverpaid == \A i \in Invoices : invoice_paid_amount(i) <= inv[i].total

\* A request past its balance check, on an invoice it has locked.
Settling(r) == req[r].op \in Locking /\ req[r].pc \in {"recompute", "commit"}

LockHeld == \A r \in Requests : Settling(r) => rowLock[req[r].inv] = r

\* Ids of payments about to be inserted are nobody else's.
FreshReserved ==
  /\ \A r \in Requests :
       /\ req[r].op \in Crediting => req[r].pay # None /\ pay[req[r].pay].state = "absent"
       /\ req[r].op \notin Crediting /\ req[r].pay # None => pay[req[r].pay].state # "absent"
  /\ \A r, s \in Requests :
       r # s /\ req[r].op \in Crediting => req[r].pay # req[s].pay
  /\ \A t \in Txns : txn[t].payment # None => pay[txn[t].payment].state # "absent"

\* Payments, used checkout links and the requests that touch an invoice all name one.
InvoiceNamed ==
  /\ \A r \in Requests :
       req[r].op \notin {"none", "create_txn", "prepare", "fail"}
         \/ req[r].pc \in {"lock", "delete", "recompute"} => req[r].inv \in Invoices
  /\ \A r \in Requests : req[r].txn # None => txn[req[r].txn].inv \in Invoices
  /\ \A t \in Txns : txn[t].status # "absent" \/ txn[t].provider_id # None
                      => txn[t].inv \in Invoices
  /\ \A p \in Payments : pay[p].state # "absent" => pay[p].inv \in Invoices

\* Staff requests come from endpoints in use; an invoice edit carries the status it read.
OpsInUse ==
  \A r \in Requests :
    /\ req[r].op \in AllAdminOps => req[r].op \in AdminOps
    /\ req[r].op = "invoice_update" => req[r].status # "none"

Bookkeeping == TypeOK /\ LockHeld /\ FreshReserved /\ InvoiceNamed /\ OpsInUse

\* What a request was allowed to credit is still owed.
Headroom ==
  \A r \in Requests, i \in Invoices :
    Settling(r) /\ req[r].inv = i => req[r].amount <= invoice_balance(i)

(***************************************************************************)
(* The inductive invariant.  What was true at the balance check stays true *)
(* until the credit commits: whoever could use up the balance is kept out  *)
(* by the row lock.  Editing a payment is not, so Headroom needs "update"  *)
(* to be out of use; Bookkeeping holds in every configuration.             *)
(***************************************************************************)
IInv == Bookkeeping /\ Headroom

GatewayCredits(p) ==
  /\ pay[p].state = "absent"
  /\ pay'[p].state = "live"
  /\ pay'[p].txn # None

(***************************************************************************)
(* A gateway never credits more than the invoice still owes when the       *)
(* credit commits, even while staff record, delete or bill without taking  *)
(* the lock: the balance that was checked cannot shrink under the lock.    *)
(***************************************************************************)
GatewayCreditFits ==
  [][\A p \in Payments, i \in Invoices :
       GatewayCredits(p) /\ pay'[p].inv = i => invoice_balance(i)' >= 0]_vars

(***************************************************************************)
(* A transaction that counts as paid names the payment its own webhook     *)
(* wrote (GatewayTransaction.payment), in every interleaving.              *)
(***************************************************************************)
SuccessNamesItsCredit ==
  \A t \in Txns : txn[t].status = "success" =>
    txn[t].payment \in CreditsOf(t)

(***************************************************************************)
(* One checkout is credited at most once, replays and retries included     *)
(* (GatewayTransaction: "guarding against duplicate webhook delivery       *)
(* re-crediting the same invoice twice").                                  *)
(***************************************************************************)
CreditedAtMostOnce == \A t \in Txns : Cardinality(CreditsOf(t)) <= 1

(***************************************************************************)
(* It is, however a provider's calls overlap, as long as no call saves its *)
(* transaction over an outcome that came after it had read the row: a      *)
(* replay of what is settled credits nothing, whatever staff delete.       *)
(***************************************************************************)
CreditedTwiceOnlyOverwritten ==
  \A t \in Txns : Cardinality(CreditsOf(t)) <= 1 \/ txn[t].overwritten

(***************************************************************************)
(* A cancelled transaction leaves no money on the invoice: cancelled IS    *)
(* the row's undo state (GatewayTransaction's docstring).  Unless, again,  *)
(* it was saved over a success its cancellation had not read.              *)
(***************************************************************************)
CancelledMeansUncredited ==
  \A t \in Txns : txn[t].status = "cancelled" => LiveCreditsOf(t) = {} \/ txn[t].overwritten

\* A gateway's credit that is on the invoice now.
OnInvoice(p, i) == pay[p].state = "live" /\ pay[p].inv = i /\ pay[p].txn # None

(***************************************************************************)
(* However many links a student opens, and however the calls about them    *)
(* overlap, one of them pays the invoice, in full ("whichever gateway      *)
(* settles second is rejected", payme.py:151-154): cancelled and performed *)
(* in any order, beside pay().                                             *)
(***************************************************************************)
OneGatewayCredit ==
  \A i \in Invoices, p \in Payments : OnInvoice(p, i) =>
    invoice_balance(i) = 0 /\ \A q \in Payments : OnInvoice(q, i) => q = p

(***************************************************************************)
(* recompute_invoice_status keeps an invoice's status in step with its     *)
(* payments, webhooks and staff alike.                                     *)
(***************************************************************************)
StatusInSync ==
  \A i \in Invoices : inv[i].status = StatusFor(invoice_paid_amount(i), inv[i].total)

(***************************************************************************)
(* A settled transaction is only ever cancelled, and a cancelled one is    *)
(* final: no call that comes late, or again, reopens it, save one that had *)
(* read the row before it was settled.                                     *)
(***************************************************************************)
SettledIsFinal ==
  [][\A t \in Txns : txn'[t].overwritten \/
       /\ txn[t].status = "success" => txn'[t].status \in {"success", "cancelled"}
       /\ txn[t].status = "cancelled" => txn'[t].status = "cancelled"]_vars

(***************************************************************************)
(* Every request in flight ends, answered or aborted: no lock is kept and  *)
(* no two requests wait for each other.                                    *)
(***************************************************************************)
EveryCallEnds == \A r \in Requests : ~Idle(r) ~> Idle(r)

\* The row of the invoice a request's next statement has to have to itself.
NeedsInvoice(r) ==
  \/ req[r].pc = "lock" \/ req[r].op = "invoice_update"
  \/ req[r].op = "create" /\ req[r].pc = "commit"
  \/ req[r].op = "update" /\ pay[req[r].pay].inv # req[r].inv
  \/ req[r].op \in Crediting \cup Reversing /\ req[r].pc = "commit" /\ req[r].write # "none"

NeedsPayment(r) == req[r].pc = "delete" \/ req[r].op = "update"

\* PostgreSQL lets r wait for the end of s.
WaitsFor(r, s) ==
  /\ r # s
  /\ \/ NeedsInvoice(r) /\ rowLock[req[r].inv] = s
     \/ NeedsPayment(r) /\ HoldsPayment(s, req[r].pay)

(***************************************************************************)
(* No deadlock, whatever staff and providers do at once: a request waits   *)
(* only for requests in flight, and the one it waits for may wait for one  *)
(* more, which waits for nobody.  (Each handler locks a payment before its *)
(* invoice, and nothing once it has the invoice.)                          *)
(***************************************************************************)
WaitsEnd ==
  \A r, s \in Requests : WaitsFor(r, s) =>
    /\ ~Idle(s)
    /\ \A u \in Requests : WaitsFor(s, u) => ~Idle(u) /\ \A v \in Requests : ~WaitsFor(u, v)

\* A row lock is kept by the request that settles the invoice.
RowsOwned ==
  /\ \A i \in Invoices : rowLock[i] # None => Settling(rowLock[i]) /\ req[rowLock[i]].inv = i
  /\ \A r \in Requests : req[r].pc = "lock" => req[r].op \in Locking

(***************************************************************************)
(* The ledger implements the account it promises: money is added only as   *)
(* far as the invoice owes it, and taken back only if it is there.         *)
(***************************************************************************)
Account == INSTANCE InvoiceAccount WITH
             paid <- [i \in Invoices |-> invoice_paid_amount(i)],
             total <- [i \in Invoices |-> inv[i].total]

ImplementsAccount == Account!Spec

-----------------------------------------------------------------------------
(* What the properties of a single gateway transaction rest on              *)

\* A transaction, and a call that reverses it, name a payment of that transaction's.
LinksAreOwn ==
  /\ \A t \in Txns :
       /\ txn[t].payment # None => txn[t].payment \in CreditsOf(t)
       /\ txn[t].status = "success" => txn[t].payment # None
  /\ \A r \in Requests :
       req[r].op = "cancel" /\ req[r].pay # None => req[r].pay \in CreditsOf(req[r].txn)

\* Statuses in which no money has been taken yet.
Unsettled == {"absent", "initiated", "pending", "failed"}

Advancing == {"create_txn", "prepare", "fail", "perform", "complete"}

\* A call that settles or reopens its transaction has read it unsettled.  One that cancels
\* knows its payment, unless somebody has saved the row unseen.
CallsRead ==
  \A r \in Requests :
    /\ req[r].txn # None => req[r].op \in Advancing \cup {"cancel"}
    /\ req[r].op \in Advancing => req[r].txn # None /\ req[r].was \in Unsettled \ {"absent"}
    /\ req[r].op = "cancel" =>
         /\ req[r].txn # None /\ req[r].was \notin {"absent", "cancelled"}
         /\ ~txn[req[r].txn].overwritten =>
              /\ req[r].was \in Unsettled => req[r].pay = None
              /\ req[r].was = "success" =>
                   \/ txn[req[r].txn].status = "success" /\ txn[req[r].txn].payment = req[r].pay
                   \/ txn[req[r].txn].status = "cancelled"

\* Then the money a transaction has brought is what its status says.
CreditsInStep ==
  \A t \in Txns :
    /\ txn[t].provider_id # None => txn[t].status # "absent"
    /\ txn[t].status = "absent" => ~txn[t].overwritten
    /\ ~txn[t].overwritten =>
         /\ txn[t].status \in Unsettled => CreditsOf(t) = {} /\ txn[t].payment = None
         /\ txn[t].status = "success" => txn[t].payment # None /\ CreditsOf(t) = {txn[t].payment}
         /\ \A p, q \in CreditsOf(t) : p = q

\* The inductive invariant, however the calls about a transaction overlap.
IInvCalls == Bookkeeping /\ CallsRead /\ CreditsInStep

OneCallEach ==
  \A r, s \in Requests : r # s /\ req[r].txn # None => req[r].txn # req[s].txn

\* What a provider's call read of its transaction row is still true.
ReadsHold ==
  /\ \A t \in Txns : ~txn[t].overwritten
  /\ \A r \in Requests :
       /\ req[r].txn # None => req[r].was = txn[req[r].txn].status
       /\ req[r].op = "cancel" => req[r].pay = txn[req[r].txn].payment

\* With it, while a provider waits for our answer before it calls again about the same
\* transaction.
IInvSerial == IInvCalls /\ OneCallEach /\ ReadsHold

-----------------------------------------------------------------------------
(* What OneGatewayCredit rests on where staff only record payments under    *)
(* the lock                                                                 *)

\* A link asks for whatever its invoice owes, or would owe after a reversal.
LinksAskAll ==
  \A t \in Txns, i \in Invoices : txn[t].status # "absent" /\ txn[t].inv = i =>
    /\ txn[t].amount \in Amounts /\ invoice_balance(i) <= txn[t].amount
    /\ \A p \in Payments : OnInvoice(p, i) => pay[p].amount <= txn[t].amount

\* A call is about the invoice and the sum of its link.
CallFits(r) ==
  /\ req[r].txn # None => txn[req[r].txn].status # "absent"
  /\ req[r].op \in Locking => req[r].amount \in Amounts
  /\ req[r].op \in {"perform", "complete"} =>
       req[r].inv = txn[req[r].txn].inv /\ req[r].amount = txn[req[r].txn].amount
  /\ req[r].op = "cancel" => req[r].txn \in PaymeTxns /\ req[r].inv = txn[req[r].txn].inv

\* The inductive invariant, beside IInv, IInvCalls and LinksAreOwn.
IInvLinks == OneGatewayCredit /\ LinksAskAll /\ \A r \in Requests : CallFits(r)

-----------------------------------------------------------------------------
(* What StatusInSync rests on there: while a gateway's credit is on an      *)
(* invoice nobody else credits it, so whoever saves a status does so alone. *)

\* A credit is on its link's invoice, and there until the link is cancelled.
CreditsFitLinks ==
  /\ \A p \in Payments : pay[p].txn # None => pay[p].inv = txn[pay[p].txn].inv
  /\ \A t \in Txns : txn[t].status = "success" => pay[txn[t].payment].state = "live"

\* Past the row it has locked, or the payment it takes back.
Recounts(r) ==
  \/ Settling(r)
  \/ req[r].op = "cancel" /\ req[r].pc \in {"recompute", "commit"} /\ Reverses(req[r].was, req[r].pay)

\* What such a request read of its invoice is still true, and so is its sum.
RecountHolds(r) ==
  Recounts(r) =>
    /\ req[r].total = inv[req[r].inv].total /\ req[r].status = inv[req[r].inv].status
    /\ req[r].pc = "commit" =>
         req[r].write = IF StatusFor(OwnView(req[r]), req[r].total) # req[r].status
                        THEN StatusFor(OwnView(req[r]), req[r].total) ELSE "none"

\* The inductive invariant, beside IInv, IInvSerial and IInvLinks.
IInvStatus == CreditsFitLinks /\ StatusInSync /\ \A r \in Requests : RecountHolds(r)
=============================================================================

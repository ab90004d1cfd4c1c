----------------------- MODULE PaymentSettlement_proofs -----------------------
(***************************************************************************)
(* Proofs about PaymentSettlement.                                         *)
(*                                                                         *)
(*   1. sums of payments are natural numbers that grow and shrink as the   *)
(*      ledger does;                                                       *)
(*   2. TypeOK is an invariant of every configuration;                     *)
(*   3. IInv is inductive where payments are not edited, so what a gateway *)
(*      credits fits what the invoice owes;                                *)
(*   4. where all credits lock the invoice, it is never overpaid and the   *)
(*      ledger implements InvoiceAccount;                                  *)
(*   5. transactions and cancellations name payments of their own          *)
(*      (LinksAreOwn);                                                     *)
(*   6. however the calls about a transaction overlap, its status is that  *)
(*      of the money it has brought, unless a call has saved the row over  *)
(*      an outcome it had not read (IInvCalls); while a provider waits for *)
(*      our answer none does (IInvSerial);                                 *)
(*   7. where staff pay under the lock, a link asks for all that is owed   *)
(*      (IInvLinks), so one gateway credit at most is on an invoice; then  *)
(*      whoever recounts an invoice does so alone (IInvStatus,             *)
(*      RecountsAlone), so its status is that of its payments;             *)
(*   8. in every configuration a kept row lock is that of a request which  *)
(*      settles the invoice (RowsOwned), so chains of waits are short.     *)
(***************************************************************************)
EXTENDS PaymentSettlement, FiniteSetTheorems, TLAPS

-----------------------------------------------------------------------------
(* Sums *)

(***************************************************************************)
(* An amount consists of as many minor units as it says.                   *)
(***************************************************************************)
LEMMA UnitsOfAmount ==
  ASSUME NEW n \in Nat
  PROVE  IsFiniteSet(1..n) /\ Cardinality(1..n) = n
<1>1. IsFiniteSet(1..n) /\ Cardinality(1..n) = IF 1 > n THEN 0 ELSE n - 1 + 1
  BY FS_Interval
<1> QED BY <1>1

(***************************************************************************)
(* invoice_paid_amount is a natural number: finitely many payments, each   *)
(* of a bounded amount.                                                    *)
(***************************************************************************)
LEMMA PaidIsNat ==
  ASSUME NEW i
  PROVE  /\ IsFiniteSet(PaidUnits(i)) /\ invoice_paid_amount(i) \in Nat
         /\ IsFiniteSet(PaidUnits(i)') /\ invoice_paid_amount(i)' \in Nat
<1>1. IsFiniteSet(Payments \X Amounts)
  <2>1. IsFiniteSet(Amounts)
    BY FS_Interval, DataAssumption DEF Amounts
  <2> QED BY <2>1, FS_Product, DataAssumption
<1>2. PaidUnits(i) \in SUBSET (Payments \X Amounts)
  BY DEF PaidUnits
<1>3. PaidUnits(i)' \in SUBSET (Payments \X Amounts)
  BY DEF PaidUnits
<1>4. IsFiniteSet(PaidUnits(i)) /\ IsFiniteSet(PaidUnits(i)')
  BY <1>1, <1>2, <1>3, FS_Subset
<1> QED BY <1>4, FS_CardinalityType DEF invoice_paid_amount

(***************************************************************************)
(* While no payment row changes, no sum does.                              *)
(***************************************************************************)
LEMMA PaidUnchanged ==
  ASSUME NEW i, UNCHANGED pay
  PROVE  invoice_paid_amount(i)' = invoice_paid_amount(i)
BY DEF invoice_paid_amount, PaidUnits

(***************************************************************************)
(* Inserting a payment adds its amount to its invoice and to no other.     *)
(***************************************************************************)
LEMMA PaidAfterInsert ==
  ASSUME TypeOK, NEW r \in Requests, NEW t,
         req[r].pay \in Payments, pay[req[r].pay].state = "absent",
         req[r].amount \in 0..MaxAmount,
         PaymentInserted(r, t), NEW i
  PROVE  invoice_paid_amount(i)' = IF i = req[r].inv
                                   THEN invoice_paid_amount(i) + req[r].amount
                                   ELSE invoice_paid_amount(i)
<1> DEFINE p == req[r].pay
           a == req[r].amount
           new == {p} \X (1..a)
<1>1. pay' = [q \in Payments |->
                IF q = p THEN [state |-> "live", inv |-> req[r].inv, amount |-> a, txn |-> t]
                ELSE pay[q]]
  BY DEF PaymentInserted, TypeOK
<1>2. CASE i = req[r].inv
  <2>1. PaidUnits(i)' = PaidUnits(i) \cup new
    BY <1>1, <1>2, DataAssumption DEF PaidUnits, Amounts
  <2>2. PaidUnits(i) \cap new = {}
    BY DEF PaidUnits
  <2>3. IsFiniteSet(new) /\ Cardinality(new) = a
    <3>1. IsFiniteSet(1..a) /\ Cardinality(1..a) = a
      <4>1. a \in Nat
        BY DataAssumption
      <4> HIDE DEF a
      <4> QED BY <4>1, UnitsOfAmount
    <3>2. IsFiniteSet({p}) /\ Cardinality({p}) = 1
      BY FS_Singleton
    <3>3. IsFiniteSet(new) /\ Cardinality(new) = Cardinality({p}) * Cardinality(1..a)
      BY <3>1, <3>2, FS_Product
    <3> HIDE DEF new
    <3> QED BY <3>1, <3>2, <3>3
  <2>4. Cardinality(PaidUnits(i)') = Cardinality(PaidUnits(i)) + a
    <3>1. Cardinality(PaidUnits(i) \cap new) = 0
      BY <2>2, FS_EmptySet
    <3> HIDE DEF new
    <3>2. Cardinality(PaidUnits(i) \cup new) =
            Cardinality(PaidUnits(i)) + Cardinality(new) - Cardinality(PaidUnits(i) \cap new)
      BY <2>3, PaidIsNat, FS_Union
    <3> QED BY <2>1, <2>3, <3>1, <3>2, PaidIsNat DEF invoice_paid_amount
  <2> QED BY <1>2, <2>4 DEF invoice_paid_amount
<1>3. CASE i # req[r].inv
  <2>1. PaidUnits(i)' = PaidUnits(i)
    BY <1>1, <1>3 DEF PaidUnits
  <2> QED BY <1>3, <2>1 DEF invoice_paid_amount
<1> QED BY <1>2, <1>3

(***************************************************************************)
(* Deleting a payment adds to no invoice and leaves all but its own alone. *)
(***************************************************************************)
LEMMA PaidAfterDelete ==
  ASSUME TypeOK, NEW r \in Requests, PaymentSoftDeleted(r), NEW i
  PROVE  /\ invoice_paid_amount(i)' <= invoice_paid_amount(i)
         /\ req[r].pay \notin Payments => invoice_paid_amount(i)' = invoice_paid_amount(i)
         /\ i # pay[req[r].pay].inv => invoice_paid_amount(i)' = invoice_paid_amount(i)
<1> DEFINE p == req[r].pay
<1>1. pay' = [q \in Payments |-> IF q = p THEN [pay[q] EXCEPT !.state = "deleted"] ELSE pay[q]]
  BY DEF PaymentSoftDeleted, TypeOK
<1>2. \A q \in Payments : pay[q] \in PaymentRow
  BY DEF TypeOK
<1>3. \A q \in Payments : /\ pay'[q].state = "live" => q # p /\ pay[q].state = "live"
                          /\ pay'[q].inv = pay[q].inv /\ pay'[q].amount = pay[q].amount
                          /\ q # p => pay'[q] = pay[q]
  BY <1>1, <1>2 DEF PaymentRow
<1>4. PaidUnits(i)' \in SUBSET PaidUnits(i)
  BY <1>3 DEF PaidUnits
<1>5. invoice_paid_amount(i)' <= invoice_paid_amount(i)
  BY <1>4, PaidIsNat, FS_Subset DEF invoice_paid_amount
<1>6. ASSUME p \notin Payments \/ i # pay[p].inv
      PROVE  PaidUnits(i)' = PaidUnits(i)
  BY <1>3, <1>6 DEF PaidUnits
<1> QED BY <1>5, <1>6 DEF invoice_paid_amount

-----------------------------------------------------------------------------
(* Types *)

LEMMA NoCallTyped == NoCall \in Call
BY DataAssumption DEF NoCall, Call, TxnStatuses

LEMMA NoCallFields ==
  NoCall.op = "none" /\ NoCall.pc = "idle" /\ NoCall.txn = None /\ NoCall.pay = None
BY DEF NoCall

-----------------------------------------------------------------------------
(* Bookkeeping, for the two kinds of steps a request takes *)

(***************************************************************************)
(* A step that only changes what a request knows, and possibly its lock.   *)
(***************************************************************************)
LEMMA RequestStep ==
  ASSUME Bookkeeping, NEW r \in Requests, NEW q \in Call,
         req' = [req EXCEPT ![r] = q], UNCHANGED <<inv, pay, txn>>,
         rowLock' \in [Invoices -> Requests \cup {None}],
         \A s \in Requests \ {r} : Settling(s) => rowLock'[req[s].inv] = s,
         q.op \in Locking /\ q.pc \in {"recompute", "commit"} => rowLock'[q.inv] = r,
         q.op \in Crediting =>
           /\ q.pay # None /\ pay[q.pay].state = "absent"
           /\ \A s \in Requests \ {r} : req[s].pay # q.pay,
         q.op \notin Crediting /\ q.pay # None => pay[q.pay].state # "absent",
         q.op \notin {"none", "create_txn", "prepare", "fail"}
           \/ q.pc \in {"lock", "delete", "recompute"} => q.inv \in Invoices,
         q.txn # None => txn[q.txn].inv \in Invoices,
         q.op \in AllAdminOps => q.op \in AdminOps,
         q.op = "invoice_update" => q.status # "none"
  PROVE  Bookkeeping'
<1>1. \A s \in Requests : req'[s] = IF s = r THEN q ELSE req[s]
  BY DEF Bookkeeping, TypeOK
<1>2. TypeOK'
  BY DEF Bookkeeping, TypeOK
<1>3. LockHeld'
  BY <1>1 DEF Bookkeeping, LockHeld, Settling
<1>4. FreshReserved'
  BY <1>1 DEF Bookkeeping, FreshReserved
<1>5. InvoiceNamed'
  BY <1>1 DEF Bookkeeping, InvoiceNamed
<1>6. OpsInUse'
  BY <1>1 DEF Bookkeeping, OpsInUse
<1> QED BY <1>2, <1>3, <1>4, <1>5, <1>6 DEF Bookkeeping

(***************************************************************************)
(* The last step of a request, which makes its writes visible.             *)
(***************************************************************************)
LEMMA RequestEnds ==
  ASSUME Bookkeeping, NEW r \in Requests, Ends(r),
         inv' \in [Invoices -> InvoiceRow], pay' \in [Payments -> PaymentRow],
         txn' \in [Txns -> TxnRow], rowLock' \in [Invoices -> Requests \cup {None}],
         \A s \in Requests \ {r} : Settling(s) => rowLock'[req[s].inv] = s,
         \A p \in Payments : pay[p].state # "absent" => pay'[p].state # "absent",
         \A p \in Payments :
           pay[p].state = "absent" /\ (req[r].op \in Crediting => p # req[r].pay)
             => pay'[p].state = "absent",
         \A p \in Payments : pay'[p].state # "absent" => pay'[p].inv \in Invoices,
         \A t \in Txns : txn[t].inv \in Invoices => txn'[t].inv \in Invoices,
         \A t \in Txns : txn'[t].status # "absent" \/ txn'[t].provider_id # None
                           => txn'[t].inv \in Invoices,
         \A t \in Txns : txn'[t].payment # None => pay'[txn'[t].payment].state # "absent"
  PROVE  Bookkeeping'
<1>1. \A s \in Requests : req'[s] = IF s = r THEN NoCall ELSE req[s]
  BY DEF Ends, Bookkeeping, TypeOK
<1>2. TypeOK'
  BY NoCallTyped DEF Ends, Bookkeeping, TypeOK
<1>3. LockHeld'
  BY <1>1 DEF Bookkeeping, LockHeld, Settling, NoCall, Locking
<1>4. FreshReserved'
  <2>1. \A s \in Requests : /\ req[s].pay \in Payments \cup {None}
                            /\ req[s].txn \in Txns \cup {None}
    BY DEF Bookkeeping, TypeOK, Call
  <2>2. NoCall.op \notin Crediting /\ NoCall.pay = None
    BY DEF NoCall, Crediting
  <2> QED BY <1>1, <2>1, <2>2 DEF Bookkeeping, FreshReserved
<1>5. InvoiceNamed'
  <2>1. \A s \in Requests : req[s].txn \in Txns \cup {None}
    BY DEF Bookkeeping, TypeOK, Call
  <2> QED BY <1>1, <2>1 DEF Bookkeeping, InvoiceNamed, NoCall
<1>6. OpsInUse'
  BY <1>1 DEF Bookkeeping, OpsInUse, NoCall, AllAdminOps
<1> QED BY <1>2, <1>3, <1>4, <1>5, <1>6 DEF Bookkeeping

-----------------------------------------------------------------------------
(* Bookkeeping, action by action *)

\* Fields of a request, one at a time.
LEMMA CallField ==
  ASSUME NEW c \in Call
  PROVE  /\ \A v \in Crediting \cup Reversing : [c EXCEPT !.op = v] \in Call
         /\ \A v \in {"lock", "delete", "recompute", "commit"} : [c EXCEPT !.pc = v] \in Call
         /\ \A v \in Txns : [c EXCEPT !.txn = v] \in Call
         /\ \A v \in Invoices \cup {None} : [c EXCEPT !.inv = v] \in Call
         /\ \A v \in Payments \cup {None} : [c EXCEPT !.pay = v] \in Call
         /\ \A v \in 0..MaxAmount : [c EXCEPT !.total = v] \in Call
         /\ \A v \in InvoiceStatuses : [c EXCEPT !.status = v] \in Call
         /\ \A v \in TxnStatuses : [c EXCEPT !.was = v] \in Call
<1>1. \A v \in Crediting \cup Reversing : [c EXCEPT !.op = v] \in Call
  BY DEF Call
<1>2. \A v \in {"lock", "delete", "recompute", "commit"} : [c EXCEPT !.pc = v] \in Call
  BY DEF Call
<1>3. \A v \in Txns : [c EXCEPT !.txn = v] \in Call
  BY DEF Call
<1>4. \A v \in Invoices \cup {None} : [c EXCEPT !.inv = v] \in Call
  BY DEF Call
<1>5. \A v \in Payments \cup {None} : [c EXCEPT !.pay = v] \in Call
  BY DEF Call
<1>6. \A v \in 0..MaxAmount : [c EXCEPT !.total = v] \in Call
  BY DEF Call
<1>7. \A v \in InvoiceStatuses : [c EXCEPT !.status = v] \in Call
  BY DEF Call
<1>8. \A v \in TxnStatuses : [c EXCEPT !.was = v] \in Call
  BY DEF Call
<1> QED
  BY <1>1, <1>2, <1>3, <1>4, <1>5, <1>6, <1>7, <1>8

LEMMA DeletedType ==
  \A x \in PaymentRow : /\ [x EXCEPT !.state = "deleted"] \in PaymentRow
                         /\ [x EXCEPT !.state = "deleted"].state = "deleted"
                         /\ [x EXCEPT !.state = "deleted"].inv = x.inv
BY DEF PaymentRow

\* What a handler makes of the row it saves.
LEMMA SavedRow ==
  ASSUME NEW x \in TxnRow, NEW q \in Call, NEW y, y = Saved(x, q)
  PROVE  /\ y \in TxnRow
         /\ y.status = x.status /\ y.inv = x.inv /\ y.amount = x.amount /\ y.payment = x.payment
         /\ y.overwritten <=>
              x.overwritten \/ (x.status \in {"success", "cancelled"} /\ x.status # q.was)
BY DEF TxnRow, Saved

Written(y, id, s, n, p) ==
  [y EXCEPT !.provider_id = id, !.status = s, !.state = n, !.payment = p]

LEMMA WrittenRow ==
  ASSUME NEW y \in TxnRow, NEW s \in TxnStatuses, NEW n \in {0, 1, 2, -1, -2},
         NEW p \in Payments \cup {None}, NEW id \in ProviderIds \cup {None},
         NEW z, z = Written(y, id, s, n, p)
  PROVE  /\ z \in TxnRow /\ z.inv = y.inv /\ z.amount = y.amount
         /\ z.status = s /\ z.payment = p /\ z.overwritten = y.overwritten
<1>1. z \in TxnRow
  BY DEF TxnRow, Written
<1> QED BY <1>1 DEF TxnRow, Written

\* The transaction r is about becomes s and names the payment p; its link stays what it was
\* made for, and r writes over what it has not seen only by leaving a mark.
Becomes(r, s, p) ==
  /\ txn' \in [Txns -> TxnRow]
  /\ \A u \in Txns \ {req[r].txn} : txn'[u] = txn[u]
  /\ req[r].txn \in Txns =>
       /\ txn'[req[r].txn].status = s /\ txn'[req[r].txn].payment = p
       /\ txn'[req[r].txn].inv = txn[req[r].txn].inv /\ txn'[req[r].txn].amount = txn[req[r].txn].amount
       /\ txn'[req[r].txn].overwritten <=>
            \/ txn[req[r].txn].overwritten
            \/ txn[req[r].txn].status \in {"success", "cancelled"} /\ txn[req[r].txn].status # req[r].was

LEMMA RowBecomes ==
  ASSUME TypeOK, NEW r \in Requests, NEW t \in Txns, t = req[r].txn,
         NEW s \in TxnStatuses, NEW n \in {0, 1, 2, -1, -2}, NEW p \in Payments \cup {None},
         NEW id \in ProviderIds \cup {None}, NEW y, y = Saved(txn[t], req[r]),
         txn' = [txn EXCEPT ![t] = Written(y, id, s, n, p)]
  PROVE  Becomes(r, s, p)
<1>1. PICK x \in TxnRow : x = txn[t]
  BY DEF TypeOK
<1>2. txn \in [Txns -> TxnRow] /\ req[r] \in Call
  BY DEF TypeOK
<1>3. /\ y \in TxnRow
      /\ y.status = x.status /\ y.inv = x.inv /\ y.amount = x.amount /\ y.payment = x.payment
      /\ y.overwritten <=>
           x.overwritten \/ (x.status \in {"success", "cancelled"} /\ x.status # req[r].was)
  BY <1>1, <1>2, SavedRow
<1>4. PICK z : z = Written(y, id, s, n, p)
  OBVIOUS
<1>5. /\ z \in TxnRow /\ z.inv = y.inv /\ z.amount = y.amount
      /\ z.status = s /\ z.payment = p /\ z.overwritten = y.overwritten
  BY <1>3, <1>4, WrittenRow
<1>6. txn' \in [Txns -> TxnRow] /\ txn'[t] = z /\ \A u \in Txns \ {t} : txn'[u] = txn[u]
  BY <1>2, <1>4, <1>5
<1> QED BY <1>1, <1>3, <1>5, <1>6 DEF Becomes

LEMMA SavesBecome ==
  ASSUME TypeOK, NEW r \in Requests
  PROVE  /\ CreateTransactionSave(r) \/ PrepareSave(r) =>
              UNCHANGED txn \/ Becomes(r, "pending", txn[req[r].txn].payment)
         /\ CompleteFailedSave(r) => Becomes(r, "failed", txn[req[r].txn].payment)
         /\ PerformTransactionCommit(r) \/ CompleteCommit(r) => Becomes(r, "success", req[r].pay)
         /\ CancelTransactionCommit(r) =>
              Becomes(r, "cancelled", IF Reverses(req[r].was, req[r].pay) THEN None ELSE req[r].pay)
<1>1. PICK t \in Txns \cup {None}, id \in ProviderIds \cup {None}, p \in Payments \cup {None} :
        t = req[r].txn /\ id = req[r].id /\ p = req[r].pay
  BY DEF TypeOK, Call
<1>2. txn \in [Txns -> TxnRow] /\ req[r] \in Call
  BY DEF TypeOK
<1>3. ASSUME t \notin Txns, NEW z, txn' = [txn EXCEPT ![t] = z], NEW s, NEW o
      PROVE  Becomes(r, s, o)
  <2>1. txn' = txn
    BY <1>2, <1>3
  <2> QED BY <1>1, <1>2, <1>3, <2>1 DEF Becomes
<1>4. PICK y : y = Saved(txn[t], req[r])
  OBVIOUS
<1>5. ASSUME t \in Txns
      PROVE  /\ y \in TxnRow /\ y.payment = txn[t].payment
             /\ y.payment \in Payments \cup {None} /\ y.provider_id \in ProviderIds \cup {None}
             /\ y.state \in {0, 1, 2, -1, -2}
  <2>1. PICK x \in TxnRow : x = txn[t]
    BY <1>2, <1>5
  <2>2. y \in TxnRow /\ y.payment = x.payment
    BY <1>2, <1>4, <2>1, SavedRow
  <2> QED BY <2>1, <2>2 DEF TxnRow
<1>6. {"pending", "failed", "success", "cancelled"} \subseteq TxnStatuses
  BY DEF TxnStatuses
\* The row that is saved, as Written.
<1>7. ASSUME t \in Txns, NEW i \in ProviderIds \cup {None}, NEW s \in TxnStatuses,
             NEW n \in {0, 1, 2, -1, -2}, NEW o \in Payments \cup {None},
             txn' = [txn EXCEPT ![t] = Written(y, i, s, n, o)]
      PROVE  Becomes(r, s, o)
  BY <1>1, <1>4, <1>7, RowBecomes
<1>8. ASSUME CreateTransactionSave(r), ~UNCHANGED txn
      PROVE  Becomes(r, "pending", txn[t].payment)
  <2>1. txn' = [txn EXCEPT ![t] = [y EXCEPT !.provider_id = id, !.status = "pending", !.state = 1]]
    BY <1>1, <1>4, <1>8 DEF CreateTransactionSave
  <2>2. t \in Txns => txn' = [txn EXCEPT ![t] = Written(y, id, "pending", 1, y.payment)]
    <3>1. y \in TxnRow => [y EXCEPT !.provider_id = id, !.status = "pending", !.state = 1] = Written(y, id, "pending", 1, y.payment)
      BY DEF TxnRow, Written
    <3> QED BY <1>5, <2>1, <3>1
  <2>3. CASE t \in Txns
    BY <1>5, <1>6, <1>7, <2>2, <2>3
  <2> QED BY <1>3, <2>1, <2>3
<1>9. ASSUME PrepareSave(r), ~UNCHANGED txn
      PROVE  Becomes(r, "pending", txn[t].payment)
  <2>1. txn' = [txn EXCEPT ![t] = [y EXCEPT !.provider_id = id, !.status = "pending"]]
    BY <1>1, <1>4, <1>9 DEF PrepareSave
  <2>2. t \in Txns => txn' = [txn EXCEPT ![t] = Written(y, id, "pending", y.state, y.payment)]
    <3>1. y \in TxnRow => [y EXCEPT !.provider_id = id, !.status = "pending"] = Written(y, id, "pending", y.state, y.payment)
      BY DEF TxnRow, Written
    <3> QED BY <1>5, <2>1, <3>1
  <2>3. CASE t \in Txns
    BY <1>5, <1>6, <1>7, <2>2, <2>3
  <2> QED BY <1>3, <2>1, <2>3
<1>10. ASSUME CompleteFailedSave(r)
       PROVE  Becomes(r, "failed", txn[t].payment)
  <2>1. txn' = [txn EXCEPT ![t] = [y EXCEPT !.status = "failed"]]
    BY <1>1, <1>4, <1>10 DEF CompleteFailedSave
  <2>2. t \in Txns => txn' = [txn EXCEPT ![t] = Written(y, y.provider_id, "failed", y.state, y.payment)]
    <3>1. y \in TxnRow => [y EXCEPT !.status = "failed"] = Written(y, y.provider_id, "failed", y.state, y.payment)
      BY DEF TxnRow, Written
    <3> QED BY <1>5, <2>1, <3>1
  <2>3. CASE t \in Txns
    BY <1>5, <1>6, <1>7, <2>2, <2>3
  <2> QED BY <1>3, <2>1, <2>3
<1>11. ASSUME PerformTransactionCommit(r)
       PROVE  Becomes(r, "success", p)
  <2>1. txn' = [txn EXCEPT ![t] = [y EXCEPT !.status = "success", !.payment = p, !.state = 2]]
    BY <1>1, <1>4, <1>11 DEF PerformTransactionCommit, Settled
  <2>2. t \in Txns => txn' = [txn EXCEPT ![t] = Written(y, y.provider_id, "success", 2, p)]
    <3>1. y \in TxnRow => [y EXCEPT !.status = "success", !.payment = p, !.state = 2] = Written(y, y.provider_id, "success", 2, p)
      BY DEF TxnRow, Written
    <3> QED BY <1>5, <2>1, <3>1
  <2>3. CASE t \in Txns
    BY <1>5, <1>6, <1>7, <2>2, <2>3
  <2> QED BY <1>3, <2>1, <2>3
<1>12. ASSUME CompleteCommit(r)
       PROVE  Becomes(r, "success", p)
  <2>1. txn' = [txn EXCEPT ![t] = [y EXCEPT !.status = "success", !.payment = p]]
    BY <1>1, <1>4, <1>12 DEF CompleteCommit, Settled
  <2>2. t \in Txns => txn' = [txn EXCEPT ![t] = Written(y, y.provider_id, "success", y.state, p)]
    <3>1. y \in TxnRow => [y EXCEPT !.status = "success", !.payment = p] = Written(y, y.provider_id, "success", y.state, p)
      BY DEF TxnRow, Written
    <3> QED BY <1>5, <2>1, <3>1
  <2>3. CASE t \in Txns
    BY <1>5, <1>6, <1>7, <2>2, <2>3
  <2> QED BY <1>3, <2>1, <2>3
<1>13. ASSUME CancelTransactionCommit(r)
       PROVE  Becomes(r, "cancelled", IF Reverses(req[r].was, p) THEN None ELSE p)
  <2>1. PICK n \in {-1, -2}, o \in Payments \cup {None} :
          /\ n = IF req[r].was = "success" THEN -2 ELSE -1
          /\ o = IF Reverses(req[r].was, p) THEN None ELSE p
    OBVIOUS
  <2>2. txn' = [txn EXCEPT ![t] = [y EXCEPT !.status = "cancelled", !.state = n, !.payment = o]]
    BY <1>1, <1>4, <1>13, <2>1 DEF CancelTransactionCommit, Cancelled
  <2>3. t \in Txns => txn' = [txn EXCEPT ![t] = Written(y, y.provider_id, "cancelled", n, o)]
    <3>1. y \in TxnRow => [y EXCEPT !.status = "cancelled", !.state = n, !.payment = o] = Written(y, y.provider_id, "cancelled", n, o)
      BY DEF TxnRow, Written
    <3> QED BY <1>5, <2>2, <3>1
  <2>4. CASE t \in Txns
    BY <1>5, <1>6, <1>7, <2>1, <2>3, <2>4
  <2> QED BY <1>3, <2>1, <2>2, <2>4
<1> QED BY <1>1, <1>8, <1>9, <1>10, <1>11, <1>12, <1>13

\* A request that has read the invoice it is going to recompute.
HasRead(c, row) == [c EXCEPT !.pc = "recompute", !.total = row.total, !.status = row.status]

LEMMA RecountType ==
  ASSUME NEW c \in Call, NEW row \in InvoiceRow, NEW q, q = HasRead(c, row)
  PROVE  /\ q \in Call /\ q.op = c.op /\ q.pay = c.pay /\ q.inv = c.inv /\ q.txn = c.txn
         /\ q.status \in InvoiceStatuses
<1>1. row.total \in 0..MaxAmount /\ row.status \in InvoiceStatuses
  BY DEF InvoiceRow
<1>2. PICK x : x = [c EXCEPT !.pc = "recompute"]
  OBVIOUS
<1>3. x \in Call /\ x.op = c.op /\ x.pay = c.pay /\ x.inv = c.inv /\ x.txn = c.txn
  BY <1>2 DEF Call
<1>4. PICK y : y = [x EXCEPT !.total = row.total]
  OBVIOUS
<1>5. y \in Call /\ y.op = x.op /\ y.pay = x.pay /\ y.inv = x.inv /\ y.txn = x.txn
  BY <1>1, <1>3, <1>4 DEF Call
<1>6. PICK z : z = [y EXCEPT !.status = row.status]
  OBVIOUS
<1>7. z \in Call /\ z.op = y.op /\ z.pay = y.pay /\ z.inv = y.inv /\ z.txn = y.txn
      /\ z.status = row.status
  BY <1>1, <1>5, <1>6 DEF Call
<1>8. q = z
  BY <1>2, <1>4, <1>6 DEF HasRead
<1> QED
  BY <1>1, <1>3, <1>5, <1>7, <1>8

\* A request that starts without a lock leaves everybody else's alone.
LEMMA RequestStarts ==
  ASSUME Bookkeeping, NEW r \in Requests, NEW q \in Call, Starts(r, q),
         UNCHANGED <<inv, pay, txn, rowLock>>,
         q.pc \notin {"recompute", "commit"} \/ q.op \notin Locking,
         q.op \in Crediting => q.pay # None /\ FreshPayment(q.pay),
         q.op \notin Crediting /\ q.pay # None => pay[q.pay].state # "absent",
         q.op \notin {"none", "create_txn", "prepare", "fail"}
           \/ q.pc \in {"lock", "delete", "recompute"} => q.inv \in Invoices,
         q.txn # None => txn[q.txn].inv \in Invoices,
         q.op \in AllAdminOps => q.op \in AdminOps,
         q.op = "invoice_update" => q.status # "none"
  PROVE  Bookkeeping'
<1>1. rowLock' \in [Invoices -> Requests \cup {None}]
  BY DEF Bookkeeping, TypeOK
<1>2. \A s \in Requests \ {r} : Settling(s) => rowLock'[req[s].inv] = s
  BY DEF Bookkeeping, LockHeld
<1> QED BY <1>1, <1>2, RequestStep DEF Starts, FreshPayment

LEMMA ProviderCallsBookkeeping ==
  ASSUME Bookkeeping, NEW r \in Requests, NEW t \in Txns, ProviderCalls(r, t)
  PROVE  Bookkeeping'
<1> USE NoCallTyped, NoCallFields
<1>1. TypeOK /\ FreshReserved /\ InvoiceNamed
  BY DEF Bookkeeping
<1>2. txn[t].payment \in Payments \cup {None} /\ txn[t].status \in TxnStatuses
      /\ txn[t].inv \in Invoices \cup {None}
  BY <1>1 DEF TypeOK, TxnRow
<1>3. ASSUME NEW id \in ProviderIds, CreateTransactionRead(r, t, id)
      PROVE  Bookkeeping'
  <2> DEFINE q == [NoCall EXCEPT !.op = "create_txn", !.pc = "commit", !.txn = t, !.id = id,
                                 !.was = txn[t].status]
  <2>1. /\ q.op = "create_txn" /\ q.pc = "commit" /\ q.txn = t /\ q.pay = None
        /\ Starts(r, q) /\ UNCHANGED <<inv, pay, txn, rowLock>>
    BY <1>3 DEF CreateTransactionRead, Call
  <2>2. q \in Call
    BY <1>2 DEF Call
  <2>3. txn[t].inv \in Invoices
    BY <1>1, <1>3 DEF CreateTransactionRead, InvoiceNamed
  <2> HIDE DEF q
  <2> QED BY <2>1, <2>2, <2>3, RequestStarts DEF Crediting, Locking, AllAdminOps
<1>4. ASSUME NEW id \in ProviderIds, PrepareRead(r, t, id)
      PROVE  Bookkeeping'
  <2> DEFINE q == [NoCall EXCEPT !.op = "prepare", !.pc = "commit", !.txn = t, !.id = id,
                                 !.was = txn[t].status]
  <2>1. /\ q.op = "prepare" /\ q.pc = "commit" /\ q.txn = t /\ q.pay = None
        /\ Starts(r, q) /\ UNCHANGED <<inv, pay, txn, rowLock>>
    BY <1>4 DEF PrepareRead, Call
  <2>2. q \in Call
    BY <1>2 DEF Call
  <2>3. txn[t].inv \in Invoices
    BY <1>1, <1>4 DEF PrepareRead, Preparable, InvoiceNamed
  <2> HIDE DEF q
  <2> QED BY <2>1, <2>2, <2>3, RequestStarts DEF Crediting, Locking, AllAdminOps
<1>5. ASSUME PerformTransactionRead(r, t) \/ CompleteRead(r, t)
      PROVE  Bookkeeping'
  <2>1. PICK p \in Payments, op \in {"perform", "complete"} :
          /\ FreshPayment(p)
          /\ Starts(r, [NoCall EXCEPT !.op = op, !.pc = "lock", !.txn = t, !.pay = p,
                                      !.inv = txn[t].inv, !.amount = txn[t].amount,
                                      !.was = txn[t].status])
    BY <1>5 DEF PerformTransactionRead, CompleteRead
  <2> DEFINE q == [NoCall EXCEPT !.op = op, !.pc = "lock", !.txn = t, !.pay = p,
                                 !.inv = txn[t].inv, !.amount = txn[t].amount,
                                 !.was = txn[t].status]
  <2>2. q.op \in {"perform", "complete"} /\ q.pc = "lock" /\ q.txn = t /\ q.pay = p
        /\ q.inv = txn[t].inv
    BY DEF Call
  <2>3. q \in Call
    BY <1>1 DEF Call, Crediting, TypeOK, TxnRow
  <2>4. txn[t].inv \in Invoices
    BY <1>1, <1>5 DEF PerformTransactionRead, CompleteRead, InvoiceNamed
  <2>5. UNCHANGED <<inv, pay, txn, rowLock>>
    BY <1>5 DEF PerformTransactionRead, CompleteRead
  <2>6. Starts(r, q)
    BY <2>1
  <2> HIDE DEF q
  <2> QED BY <2>1, <2>2, <2>3, <2>4, <2>5, <2>6, NoneAssumption, RequestStarts
          DEF Crediting, AllAdminOps
<1>6. ASSUME CancelTransactionRead(r, t)
      PROVE  Bookkeeping'
  <2> DEFINE pc == IF Reverses(txn[t].status, txn[t].payment) THEN "delete" ELSE "commit"
             q == [NoCall EXCEPT !.op = "cancel", !.txn = t, !.inv = txn[t].inv,
                                 !.pc = pc, !.pay = txn[t].payment, !.was = txn[t].status]
  <2>1. pc \in {"delete", "commit"}
    OBVIOUS
  <2>2. Starts(r, q) /\ UNCHANGED <<inv, pay, txn, rowLock>> /\ txn[t].provider_id # None
    BY <1>6 DEF CancelTransactionRead
  <2> HIDE DEF pc
  <2>3. q.op = "cancel" /\ q.txn = t /\ q.inv = txn[t].inv /\ q.pay = txn[t].payment
    BY DEF Call
  <2>4. q \in Call
    BY <1>2, <2>1, CallField DEF Reversing
  <2>5. txn[t].inv \in Invoices
    BY <1>1, <2>2 DEF InvoiceNamed
  <2> HIDE DEF q
  <2>6. q.pay # None => pay[q.pay].state # "absent"
    BY <1>1, <2>3 DEF FreshReserved
  <2> QED BY <2>2, <2>3, <2>4, <2>5, <2>6, RequestStarts DEF Crediting, Locking, AllAdminOps
<1>7. ASSUME CompleteFailedRead(r, t)
      PROVE  Bookkeeping'
  <2> DEFINE q == [NoCall EXCEPT !.op = "fail", !.pc = "commit", !.txn = t, !.was = txn[t].status]
  <2>1. /\ q.op = "fail" /\ q.pc = "commit" /\ q.txn = t /\ q.pay = None
        /\ Starts(r, q) /\ UNCHANGED <<inv, pay, txn, rowLock>>
    BY <1>7 DEF CompleteFailedRead, Call
  <2>2. q \in Call
    BY <1>2 DEF Call
  <2>3. txn[t].inv \in Invoices
    BY <1>1, <1>7 DEF CompleteFailedRead, InvoiceNamed
  <2> HIDE DEF q
  <2> QED BY <2>1, <2>2, <2>3, RequestStarts DEF Crediting, Locking, AllAdminOps
<1> QED BY <1>3, <1>4, <1>5, <1>6, <1>7 DEF ProviderCalls

LEMMA StaffCallsBookkeeping ==
  ASSUME Bookkeeping, NEW r \in Requests, NEW i \in Invoices, StaffCalls(r, i)
  PROVE  Bookkeeping'
<1> USE NoCallTyped, NoCallFields
<1>1. TypeOK
  BY DEF Bookkeeping
<1>2. /\ inv[i].total \in 0..MaxAmount /\ inv[i].status \in InvoiceStatuses
      /\ Amounts \subseteq 0..MaxAmount /\ Totals \subseteq 0..MaxAmount
  BY <1>1, DataAssumption DEF TypeOK, Amounts, InvoiceRow
<1>3. ASSUME NEW a \in Amounts, PaymentCreateRead(r, i, a)
      PROVE  Bookkeeping'
  <2>1. PICK p \in Payments :
          /\ FreshPayment(p)
          /\ Starts(r, [NoCall EXCEPT !.op = "create", !.pc = "recompute", !.inv = i, !.pay = p,
                                      !.amount = a, !.total = inv[i].total,
                                      !.status = inv[i].status])
    BY <1>3 DEF PaymentCreateRead
  <2> DEFINE q == [NoCall EXCEPT !.op = "create", !.pc = "recompute", !.inv = i, !.pay = p,
                                 !.amount = a, !.total = inv[i].total, !.status = inv[i].status]
  <2>2. q.op = "create" /\ q.txn = None /\ q.pay = p /\ q.inv = i
    BY DEF Call
  <2>3. q \in Call
    BY <1>2 DEF Call, Crediting
  <2>4. UNCHANGED <<inv, pay, txn, rowLock>> /\ "create" \in AdminOps
    BY <1>3 DEF PaymentCreateRead
  <2>5. Starts(r, q)
    BY <2>1
  <2> HIDE DEF q
  <2> QED BY <2>1, <2>2, <2>3, <2>4, <2>5, NoneAssumption, RequestStarts DEF Crediting, Locking
<1>4. ASSUME NEW a \in Amounts, PayLock(r, i, a)
      PROVE  Bookkeeping'
  <2>1. PICK p \in Payments :
          /\ FreshPayment(p)
          /\ Starts(r, [NoCall EXCEPT !.op = "pay", !.pc = "recompute", !.inv = i, !.pay = p,
                                      !.amount = a, !.total = inv[i].total,
                                      !.status = inv[i].status])
    BY <1>4 DEF PayLock
  <2> DEFINE q == [NoCall EXCEPT !.op = "pay", !.pc = "recompute", !.inv = i, !.pay = p,
                                 !.amount = a, !.total = inv[i].total, !.status = inv[i].status]
  <2>2. q.op = "pay" /\ q.pc = "recompute" /\ q.txn = None /\ q.pay = p /\ q.inv = i
    BY DEF Call
  <2>3. q \in Call
    BY <1>2 DEF Call, Crediting
  <2>4. /\ UNCHANGED <<inv, pay, txn>> /\ "pay" \in AdminOps
        /\ rowLock[i] = None /\ rowLock' = [rowLock EXCEPT ![i] = r]
    BY <1>4 DEF PayLock, Unlocked
  <2>5. Starts(r, q)
    BY <2>1
  <2> HIDE DEF q
  <2>6. rowLock' \in [Invoices -> Requests \cup {None}] /\ rowLock'[i] = r
    BY <1>1, <2>4 DEF TypeOK
  <2>7. \A s \in Requests \ {r} : Settling(s) => rowLock'[req[s].inv] = s
    BY <1>1, <2>4, NoneAssumption DEF Bookkeeping, LockHeld, TypeOK
  <2>8. q.pay # None /\ pay[q.pay].state = "absent" /\ \A s \in Requests : req[s].pay # q.pay
    BY <2>1, <2>2, NoneAssumption DEF FreshPayment
  <2>9. req' = [req EXCEPT ![r] = q]
    BY <2>5 DEF Starts
  <2> QED BY <2>2, <2>3, <2>4, <2>6, <2>7, <2>8, <2>9, RequestStep DEF Crediting
<1>5. ASSUME NEW a \in Amounts, NEW p \in Payments, PaymentUpdateRead(r, p, i, a)
      PROVE  Bookkeeping'
  <2> DEFINE q == [NoCall EXCEPT !.op = "update", !.pc = "commit", !.inv = i, !.pay = p,
                                 !.amount = a]
  <2>1. q.op = "update" /\ q.txn = None /\ q.pay = p /\ q.inv = i
    BY DEF Call
  <2>2. q \in Call
    BY <1>2 DEF Call
  <2>3. /\ UNCHANGED <<inv, pay, txn, rowLock>> /\ "update" \in AdminOps
        /\ pay[p].state = "live" /\ Starts(r, q)
    BY <1>5 DEF PaymentUpdateRead
  <2> HIDE DEF q
  <2> QED BY <2>1, <2>2, <2>3, RequestStarts DEF Crediting, Locking
<1>6. ASSUME NEW n \in Totals, InvoiceUpdateRead(r, i, n)
      PROVE  Bookkeeping'
  <2> DEFINE q == [NoCall EXCEPT !.op = "invoice_update", !.pc = "commit", !.inv = i, !.total = n,
                                 !.status = inv[i].status]
  <2>1. q.op = "invoice_update" /\ q.txn = None /\ q.pay = None /\ q.inv = i
        /\ q.status # "none"
    BY <1>2 DEF Call, InvoiceStatuses
  <2>2. q \in Call
    BY <1>2 DEF Call
  <2>3. /\ UNCHANGED <<inv, pay, txn, rowLock>> /\ "invoice_update" \in AdminOps
        /\ Starts(r, q)
    BY <1>6 DEF InvoiceUpdateRead
  <2> HIDE DEF q
  <2> QED BY <2>1, <2>2, <2>3, RequestStarts DEF Crediting, Locking
<1> QED BY <1>3, <1>4, <1>5, <1>6 DEF StaffCalls

LEMMA PaymentDestroyReadBookkeeping ==
  ASSUME Bookkeeping, NEW r \in Requests, NEW p \in Payments, PaymentDestroyRead(r, p)
  PROVE  Bookkeeping'
<1> USE NoCallTyped, NoCallFields
<1> DEFINE i == pay[p].inv
           q == [NoCall EXCEPT !.op = "destroy", !.pc = "delete", !.inv = i, !.pay = p,
                               !.total = inv[i].total, !.status = inv[i].status]
<1>1. /\ UNCHANGED <<inv, pay, txn, rowLock>> /\ "destroy" \in AdminOps
      /\ pay[p].state = "live" /\ Starts(r, q)
  BY DEF PaymentDestroyRead
<1>2. i \in Invoices
  BY <1>1 DEF Bookkeeping, InvoiceNamed
<1> HIDE DEF i
<1>3. inv[i].total \in 0..MaxAmount /\ inv[i].status \in InvoiceStatuses
  BY <1>2 DEF Bookkeeping, TypeOK, InvoiceRow
<1>4. q.op = "destroy" /\ q.txn = None /\ q.pay = p /\ q.inv = i
  BY DEF Call
<1>5. q \in Call
  BY <1>2, <1>3 DEF Call, Reversing
<1> HIDE DEF q
<1> QED BY <1>1, <1>2, <1>4, <1>5, RequestStarts DEF Crediting, Locking

\* What the commits write to the ledger is well-typed and keeps every payment's invoice.
LEMMA WritesTyped ==
  ASSUME Bookkeeping, NEW r \in Requests, req[r].inv \in Invoices, StatusSaved(r)
  PROVE  inv' \in [Invoices -> InvoiceRow]
<1>1. inv \in [Invoices -> InvoiceRow] /\ req[r].write \in InvoiceStatuses \cup {"none"}
  BY DEF Bookkeeping, TypeOK, Call
<1>2. inv' = inv \/ inv' = [inv EXCEPT ![req[r].inv].status = req[r].write]
  BY DEF StatusSaved
<1>3. req[r].write = "none" => inv' = inv
  BY DEF StatusSaved
<1> QED BY <1>1, <1>2, <1>3 DEF InvoiceRow

\* Nobody else counts on a lock this request releases.
LEMMA ReleaseHarmless ==
  ASSUME Bookkeeping, NEW r \in Requests, Settling(r), Releases(r)
  PROVE  /\ rowLock' \in [Invoices -> Requests \cup {None}]
         /\ \A s \in Requests \ {r} : Settling(s) => rowLock'[req[s].inv] = s
<1>1. rowLock \in [Invoices -> Requests \cup {None}]
  BY DEF Bookkeeping, TypeOK
<1>2. \A s \in Requests : Settling(s) => req[s].inv \in Invoices /\ rowLock[req[s].inv] = s
  BY DEF Bookkeeping, LockHeld, InvoiceNamed, Settling, Locking
<1>3. rowLock' = [rowLock EXCEPT ![req[r].inv] = None]
  BY DEF Releases
<1> QED BY <1>1, <1>2, <1>3

\* The commits that credit.
LEMMA CreditBookkeeping ==
  ASSUME Bookkeeping, NEW r \in Requests, NEW t \in Txns \cup {None},
         req[r].op \in Crediting, PaymentInserted(r, t), StatusSaved(r), Ends(r),
         rowLock' \in [Invoices -> Requests \cup {None}],
         \A s \in Requests \ {r} : Settling(s) => rowLock'[req[s].inv] = s,
         txn' \in [Txns -> TxnRow],
         \A u \in Txns : txn'[u] # txn[u] =>
           txn'[u].inv = txn[u].inv /\ txn[u].inv \in Invoices
             /\ txn'[u].payment \in {None, txn[u].payment, req[r].pay}
  PROVE  Bookkeeping'
<1> DEFINE p == req[r].pay
           row == [state |-> "live", inv |-> req[r].inv, amount |-> req[r].amount, txn |-> t]
<1>1. p \in Payments /\ pay[p].state = "absent" /\ req[r].amount \in 0..MaxAmount
  BY DEF Bookkeeping, FreshReserved, TypeOK, Call
<1>2. req[r].inv \in Invoices
  BY DEF Bookkeeping, InvoiceNamed, Crediting
<1>3. row \in PaymentRow
  BY <1>1, <1>2 DEF PaymentRow
<1>4. \A q \in Payments : pay'[q] = IF q = p THEN row ELSE pay[q]
  BY DEF PaymentInserted, Bookkeeping, TypeOK
<1>5. pay' \in [Payments -> PaymentRow]
  BY <1>3 DEF PaymentInserted, Bookkeeping, TypeOK
<1>6. row.state = "live" /\ row.inv = req[r].inv
  OBVIOUS
<1> HIDE DEF row
<1>7. \A u \in Txns : txn[u].payment \in Payments \cup {None}
  BY DEF Bookkeeping, TypeOK, TxnRow
<1>8. \A u \in Txns : txn'[u].payment # None => pay'[txn'[u].payment].state # "absent"
  BY <1>1, <1>4, <1>6, <1>7 DEF Bookkeeping, FreshReserved
<1>9. \A u \in Txns : txn'[u].status # "absent" \/ txn'[u].provider_id # None
                        => txn'[u].inv \in Invoices
  BY DEF Bookkeeping, InvoiceNamed
<1>10. \A u \in Txns : txn[u].inv \in Invoices => txn'[u].inv \in Invoices
  OBVIOUS
<1>11. \A q \in Payments : pay'[q].state # "absent" => pay'[q].inv \in Invoices
  BY <1>2, <1>4, <1>6 DEF Bookkeeping, InvoiceNamed
<1>12. inv' \in [Invoices -> InvoiceRow]
  BY <1>2, WritesTyped
<1>13. /\ \A q \in Payments : pay[q].state # "absent" => pay'[q].state # "absent"
       /\ \A q \in Payments : pay[q].state = "absent" /\ q # p => pay'[q].state = "absent"
  BY <1>4, <1>6
<1> QED BY <1>5, <1>8, <1>9, <1>10, <1>11, <1>12, <1>13, RequestEnds

\* The steps that end a request and credit nothing.
LEMMA OtherEndBookkeeping ==
  ASSUME Bookkeeping, NEW r \in Requests, Ends(r), UNCHANGED rowLock,
         req[r].op \notin Crediting,
         inv' \in [Invoices -> InvoiceRow],
         \/ UNCHANGED pay
         \/ PaymentSoftDeleted(r)
         \/ /\ req[r].inv \in Invoices
            /\ pay' = [pay EXCEPT ![req[r].pay].state = "live",
                                  ![req[r].pay].inv = req[r].inv,
                                  ![req[r].pay].amount = req[r].amount],
         txn' \in [Txns -> TxnRow],
         \A t \in Txns : txn'[t] # txn[t] =>
           /\ txn'[t].inv = txn[t].inv /\ txn[t].inv \in Invoices
           /\ txn'[t].payment \in {None, txn[t].payment, req[r].pay}
  PROVE  Bookkeeping'
<1> DEFINE p == req[r].pay
<1>1. pay \in [Payments -> PaymentRow] /\ req[r].amount \in 0..MaxAmount
      /\ rowLock' \in [Invoices -> Requests \cup {None}]
  BY DEF Bookkeeping, TypeOK, Call
<1>2. p \in Payments => pay[p].state # "absent"
  BY NoneAssumption DEF Bookkeeping, FreshReserved
<1>3. /\ pay' \in [Payments -> PaymentRow]
      /\ \A q \in Payments : q # p => pay'[q] = pay[q]
      /\ p \in Payments => /\ pay'[p].state # "absent"
                           /\ pay'[p].inv \in {pay[p].inv, req[r].inv}
                           /\ pay'[p].inv # pay[p].inv => req[r].inv \in Invoices
  <2>1. CASE UNCHANGED pay
    BY <1>1, <1>2, <2>1
  <2>2. CASE PaymentSoftDeleted(r)
    <3>1. pay' = [q \in Payments |->
                    IF q = p THEN [pay[q] EXCEPT !.state = "deleted"] ELSE pay[q]]
      BY <1>1, <2>2 DEF PaymentSoftDeleted
    <3>2. p \in Payments =>
            /\ [pay[p] EXCEPT !.state = "deleted"] \in PaymentRow
            /\ [pay[p] EXCEPT !.state = "deleted"].state = "deleted"
            /\ [pay[p] EXCEPT !.state = "deleted"].inv = pay[p].inv
      BY <1>1, DeletedType
    <3> QED BY <1>1, <3>1, <3>2
  <2>3. CASE /\ req[r].inv \in Invoices
             /\ pay' = [pay EXCEPT ![p].state = "live", ![p].inv = req[r].inv,
                                   ![p].amount = req[r].amount]
    <3> DEFINE row == [pay[p] EXCEPT !.state = "live", !.inv = req[r].inv, !.amount = req[r].amount]
    <3>1. pay' = [q \in Payments |-> IF q = p THEN row ELSE pay[q]]
      BY <1>1, <2>3
    <3>2. req[r].inv \in Invoices
      BY <2>3
    <3>3. ASSUME p \in Payments
          PROVE  row \in PaymentRow /\ row.state = "live" /\ row.inv = req[r].inv
      <4>1. pay[p] \in PaymentRow
        BY <1>1, <3>3
      <4> QED BY <1>1, <3>2, <4>1 DEF PaymentRow
    <3> HIDE DEF row
    <3> QED BY <1>1, <3>1, <3>2, <3>3
  <2> QED BY <2>1, <2>2, <2>3
<1>4. \A q \in Payments : (pay[q].state = "absent") <=> (pay'[q].state = "absent")
  BY <1>2, <1>3
<1>5. \A q \in Payments : pay'[q].state # "absent" => pay'[q].inv \in Invoices
  BY <1>2, <1>3, <1>4 DEF Bookkeeping, InvoiceNamed
<1>6. \A t \in Txns : txn[t].payment \in Payments \cup {None} /\ p \in Payments \cup {None}
  BY DEF Bookkeeping, TypeOK, TxnRow, Call
<1>7. \A t \in Txns : txn'[t].payment # None => pay'[txn'[t].payment].state # "absent"
  <2>1. \A t \in Txns : txn[t].payment # None => pay[txn[t].payment].state # "absent"
    BY DEF Bookkeeping, FreshReserved
  <2>2. \A t \in Txns : txn'[t].payment \in {None, txn[t].payment, p}
    OBVIOUS
  <2>3. \A q \in Payments : pay[q].state # "absent" => pay'[q].state # "absent"
    BY <1>4
  <2> HIDE DEF p
  <2>4. ASSUME NEW t \in Txns, txn'[t].payment # None
        PROVE  pay'[txn'[t].payment].state # "absent"
    <3>1. CASE txn'[t].payment = p
      BY <1>2, <1>6, <2>3, <2>4, <3>1
    <3>2. CASE txn'[t].payment = txn[t].payment
      BY <1>6, <2>1, <2>3, <2>4, <3>2
    <3> QED BY <2>2, <2>4, <3>1, <3>2
  <2> QED BY <2>4
<1>8. \A t \in Txns : txn'[t].status # "absent" \/ txn'[t].provider_id # None
                        => txn'[t].inv \in Invoices
  BY DEF Bookkeeping, InvoiceNamed
<1>9. \A t \in Txns : txn[t].inv \in Invoices => txn'[t].inv \in Invoices
  OBVIOUS
<1>10. \A s \in Requests \ {r} : Settling(s) => rowLock'[req[s].inv] = s
  BY DEF Bookkeeping, LockHeld
<1> QED BY <1>1, <1>3, <1>4, <1>5, <1>7, <1>8, <1>9, <1>10, RequestEnds

\* A request that remembers more, or takes the lock it waited for.
LEMMA RequestProceeds ==
  ASSUME Bookkeeping, NEW r \in Requests, NEW q \in Call,
         req' = [req EXCEPT ![r] = q], UNCHANGED <<inv, pay, txn>>,
         q.op = req[r].op, q.pay = req[r].pay, q.inv = req[r].inv, q.txn = req[r].txn,
         q.status \in {req[r].status} \cup InvoiceStatuses,
         req[r].inv \in Invoices,
         \/ UNCHANGED rowLock /\ (Settling(r) \/ q.op \notin Locking)
         \/ rowLock[req[r].inv] = None /\ rowLock' = [rowLock EXCEPT ![req[r].inv] = r]
  PROVE  Bookkeeping'
<1>1. rowLock \in [Invoices -> Requests \cup {None}]
  BY DEF Bookkeeping, TypeOK
<1>2. \A s \in Requests : Settling(s) => req[s].inv \in Invoices /\ rowLock[req[s].inv] = s
  BY DEF Bookkeeping, LockHeld, InvoiceNamed, Settling, Locking
<1>3. /\ rowLock' \in [Invoices -> Requests \cup {None}]
      /\ \A s \in Requests \ {r} : Settling(s) => rowLock'[req[s].inv] = s
      /\ q.op \in Locking => rowLock'[q.inv] = r
  BY <1>1, <1>2, NoneAssumption
<1>4. /\ q.op \in Crediting => /\ q.pay # None /\ pay[q.pay].state = "absent"
                               /\ \A s \in Requests \ {r} : req[s].pay # q.pay
      /\ q.op \notin Crediting /\ q.pay # None => pay[q.pay].state # "absent"
  BY DEF Bookkeeping, FreshReserved
<1>5. q.txn # None => txn[q.txn].inv \in Invoices
  BY DEF Bookkeeping, InvoiceNamed
<1>6. /\ q.op \in AllAdminOps => q.op \in AdminOps
      /\ q.op = "invoice_update" => q.status # "none"
  BY DEF Bookkeeping, OpsInUse, InvoiceStatuses
<1> QED BY <1>3, <1>4, <1>5, <1>6, RequestStep

\* A request that is answered without having written anything, or dies.
LEMMA RequestGone ==
  ASSUME Bookkeeping, NEW r \in Requests, Ends(r), UNCHANGED <<inv, pay, txn>>,
         \/ UNCHANGED rowLock
         \/ rowLock' = [i \in Invoices |-> IF rowLock[i] = r THEN None ELSE rowLock[i]]
  PROVE  Bookkeeping'
<1>1. rowLock \in [Invoices -> Requests \cup {None}]
  BY DEF Bookkeeping, TypeOK
<1>2. \A s \in Requests : Settling(s) => req[s].inv \in Invoices /\ rowLock[req[s].inv] = s
  BY DEF Bookkeeping, LockHeld, InvoiceNamed, Settling, Locking
<1>3. /\ rowLock' \in [Invoices -> Requests \cup {None}]
      /\ \A s \in Requests \ {r} : Settling(s) => rowLock'[req[s].inv] = s
  BY <1>1, <1>2
<1>4. req' = [req EXCEPT ![r] = NoCall]
  BY DEF Ends
<1> QED BY <1>3, <1>4, NoCallTyped, NoCallFields, RequestStep
        DEF Crediting, Locking, AllAdminOps

LEMMA ProceedsBookkeeping ==
  ASSUME Bookkeeping, NEW r \in Requests, Proceeds(r)
  PROVE  Bookkeeping'
<1> DEFINE c == req[r]
<1>1. /\ c \in Call /\ c.inv \in Invoices \cup {None} /\ c.txn \in Txns \cup {None}
      /\ c.pay \in Payments \cup {None} /\ c.id \in ProviderIds \cup {None}
  BY DEF Bookkeeping, TypeOK, Call
<1>2. /\ c.op \notin {"none", "create_txn", "prepare", "fail"} => c.inv \in Invoices
      /\ c.pc \in {"lock", "delete", "recompute"} => c.inv \in Invoices
      /\ c.txn # None => txn[c.txn].inv \in Invoices
  BY DEF Bookkeeping, InvoiceNamed
<1>3. /\ inv \in [Invoices -> InvoiceRow] /\ txn \in [Txns -> TxnRow]
      /\ rowLock \in [Invoices -> Requests \cup {None}]
  BY DEF Bookkeeping, TypeOK
<1>4. \A s \in Requests \ {r} : Settling(s) => rowLock[req[s].inv] = s
  BY DEF Bookkeeping, LockHeld
<1>5. ASSUME CreateTransactionSave(r) \/ PrepareSave(r) \/ CompleteFailedSave(r)
             \/ CancelTransactionCommit(r)
      PROVE  /\ txn' \in [Txns -> TxnRow]
             /\ \A t \in Txns : txn'[t] # txn[t] =>
                  /\ txn'[t].inv = txn[t].inv /\ txn[t].inv \in Invoices
                  /\ txn'[t].payment \in {None, txn[t].payment, c.pay}
  <2>1. PICK s, p : /\ UNCHANGED txn \/ Becomes(r, s, p)
                    /\ p \in {None, txn[c.txn].payment, c.pay}
    BY <1>5, SavesBecome DEF Bookkeeping
  <2>2. c.txn \in Txns => txn[c.txn].inv \in Invoices
    BY <1>2, NoneAssumption
  <2> QED BY <1>3, <2>1, <2>2 DEF Becomes
<1>6. ASSUME CreateTransactionSave(r) \/ PrepareSave(r) \/ CompleteFailedSave(r)
      PROVE  Bookkeeping'
  BY <1>3, <1>5, <1>6, OtherEndBookkeeping
     DEF CreateTransactionSave, PrepareSave, CompleteFailedSave, Crediting
<1>7. ASSUME CancelTransactionCommit(r)
      PROVE  Bookkeeping'
  <2>1. /\ c.op = "cancel" /\ Ends(r) /\ UNCHANGED rowLock
    BY <1>7 DEF CancelTransactionCommit
  <2> DEFINE nothing == UNCHANGED pay /\ UNCHANGED inv
             undone == PaymentSoftDeleted(r) /\ StatusSaved(r)
  <2>2. nothing \/ undone
    <3>1. CASE Reverses(c.was, c.pay)
      BY <1>7, <3>1 DEF CancelTransactionCommit
    <3>2. CASE ~Reverses(c.was, c.pay)
      BY <1>7, <3>2 DEF CancelTransactionCommit
    <3> QED BY <3>1, <3>2
  <2>3. inv' \in [Invoices -> InvoiceRow]
    BY <1>2, <1>3, <2>1, <2>2, WritesTyped
  <2> QED BY <1>5, <1>7, <2>1, <2>2, <2>3, OtherEndBookkeeping DEF Crediting
<1>8. ASSUME PaymentDestroyCommit(r)
      PROVE  Bookkeeping'
  <2>1. c.op = "destroy" /\ Ends(r) /\ UNCHANGED <<txn, rowLock>>
        /\ PaymentSoftDeleted(r) /\ StatusSaved(r)
    BY <1>8 DEF PaymentDestroyCommit
  <2>2. inv' \in [Invoices -> InvoiceRow]
    BY <1>2, <1>3, <2>1, WritesTyped
  <2> QED BY <1>3, <2>1, <2>2, OtherEndBookkeeping DEF Crediting
<1>9. ASSUME PaymentUpdateSave(r)
      PROVE  Bookkeeping'
  BY <1>2, <1>3, <1>9, OtherEndBookkeeping DEF PaymentUpdateSave, Crediting
<1>10. ASSUME InvoiceUpdateSave(r)
       PROVE  Bookkeeping'
  <2>1. /\ c.op = "invoice_update" /\ Ends(r) /\ UNCHANGED <<pay, txn, rowLock>>
        /\ inv' = [inv EXCEPT ![c.inv] = [alive |-> TRUE, total |-> c.total, status |-> c.status]]
    BY <1>10 DEF InvoiceUpdateSave
  <2>2. c.total \in 0..MaxAmount /\ c.status \in InvoiceStatuses
    BY <1>1, <2>1 DEF Bookkeeping, OpsInUse, Call
  <2>3. [alive |-> TRUE, total |-> c.total, status |-> c.status] \in InvoiceRow
    BY <2>2 DEF InvoiceRow
  <2>4. inv' \in [Invoices -> InvoiceRow]
    BY <1>3, <2>1, <2>3
  <2> QED BY <1>3, <2>1, <2>4, OtherEndBookkeeping DEF Crediting
<1>11. ASSUME CancelTransactionDelete(r)
       PROVE  Bookkeeping'
  <2> DEFINE q == [c EXCEPT !.pc = "recompute", !.total = inv[c.inv].total,
                            !.status = inv[c.inv].status]
  <2>1. /\ c.op = "cancel" /\ c.pc = "delete" /\ UNCHANGED <<inv, pay, txn, rowLock>>
        /\ req' = [req EXCEPT ![r] = q]
    BY <1>11 DEF CancelTransactionDelete
  <2>2. c.inv \in Invoices
    BY <1>2, <2>1
  <2>3. inv[c.inv].total \in 0..MaxAmount /\ inv[c.inv].status \in InvoiceStatuses
    BY <1>3, <2>2 DEF InvoiceRow
  <2>4. /\ q \in Call /\ q.op = c.op /\ q.pay = c.pay /\ q.inv = c.inv /\ q.txn = c.txn
        /\ q.status \in InvoiceStatuses
    <3>1. q = HasRead(c, inv[c.inv])
      BY DEF HasRead
    <3>2. inv[c.inv] \in InvoiceRow
      BY <1>3, <2>2
    <3> HIDE DEF q, c
    <3> QED BY <1>1, <3>1, <3>2, RecountType
  <2> HIDE DEF q
  <2> QED BY <2>1, <2>2, <2>4, RequestProceeds DEF Locking
<1>12. ASSUME PaymentDestroyDelete(r)
       PROVE  Bookkeeping'
  <2> DEFINE q == [c EXCEPT !.pc = "recompute"]
  <2>1. /\ c.op = "destroy" /\ c.pc = "delete" /\ UNCHANGED <<inv, pay, txn, rowLock>>
        /\ req' = [req EXCEPT ![r] = q]
    BY <1>12 DEF PaymentDestroyDelete
  <2>2. /\ q \in Call /\ q.op = c.op /\ q.pay = c.pay /\ q.inv = c.inv /\ q.txn = c.txn
        /\ q.status = c.status
    BY <1>1 DEF Call
  <2> HIDE DEF q
  <2> QED BY <1>2, <2>1, <2>2, RequestProceeds DEF Locking
<1>13. ASSUME Recompute(r)
       PROVE  Bookkeeping'
  <2> DEFINE s == StatusFor(OwnView(c), c.total)
             w == IF s # c.status THEN s ELSE "none"
             q == [c EXCEPT !.pc = "commit", !.write = w]
  <2>1. s \in InvoiceStatuses
    BY DEF StatusFor, InvoiceStatuses
  <2> HIDE DEF s
  <2>2. w \in InvoiceStatuses \cup {"none"}
    BY <2>1
  <2>3. /\ c.pc = "recompute" /\ UNCHANGED <<inv, pay, txn, rowLock>>
        /\ req' = [req EXCEPT ![r] = q]
    BY <1>13 DEF Recompute, s
  <2> HIDE DEF w
  <2>4. /\ q \in Call /\ q.op = c.op /\ q.pay = c.pay /\ q.inv = c.inv /\ q.txn = c.txn
        /\ q.status = c.status
    <3> HIDE DEF c
    <3>1. q \in Call
      BY <1>1, <2>2 DEF Call
    <3>2. /\ q.op = c.op /\ q.pay = c.pay /\ q.inv = c.inv /\ q.txn = c.txn
          /\ q.status = c.status
      BY <1>1 DEF Call
    <3> QED BY <3>1, <3>2
  <2>5. Settling(r) \/ c.op \notin Locking
    BY <2>3 DEF Settling
  <2> HIDE DEF q
  <2> QED BY <1>2, <2>3, <2>4, <2>5, RequestProceeds
<1>14. ASSUME SettleLock(r)
       PROVE  Bookkeeping'
  <2> DEFINE q == [c EXCEPT !.pc = "recompute", !.total = inv[c.inv].total,
                            !.status = inv[c.inv].status]
             taken == /\ rowLock' = [rowLock EXCEPT ![c.inv] = r]
                      /\ req' = [req EXCEPT ![r] = q]
             refused == Ends(r) /\ UNCHANGED rowLock
  <2>1. c.pc = "lock" /\ rowLock[c.inv] = None /\ UNCHANGED <<inv, pay, txn>>
    BY <1>14 DEF SettleLock, Unlocked
  <2>2. taken \/ refused
    <3>1. CASE inv[c.inv].alive /\ Covers(c.inv, c.amount)
      BY <1>14, <3>1 DEF SettleLock
    <3>2. CASE ~(inv[c.inv].alive /\ Covers(c.inv, c.amount))
      BY <1>14, <3>2 DEF SettleLock
    <3> QED BY <3>1, <3>2
  <2>3. ASSUME refused
        PROVE  Bookkeeping'
    BY <2>1, <2>3, RequestGone
  <2>4. c.inv \in Invoices
    BY <1>2, <2>1
  <2>5. inv[c.inv].total \in 0..MaxAmount /\ inv[c.inv].status \in InvoiceStatuses
    BY <1>3, <2>4 DEF InvoiceRow
  <2>6. /\ q \in Call /\ q.op = c.op /\ q.pay = c.pay /\ q.inv = c.inv /\ q.txn = c.txn
        /\ q.status \in InvoiceStatuses
    <3>1. q = HasRead(c, inv[c.inv])
      BY DEF HasRead
    <3>2. inv[c.inv] \in InvoiceRow
      BY <1>3, <2>4
    <3> HIDE DEF q, c
    <3> QED BY <1>1, <3>1, <3>2, RecountType
  <2> HIDE DEF q
  <2>7. ASSUME taken
        PROVE  Bookkeeping'
    BY <2>1, <2>4, <2>6, <2>7, RequestProceeds
  <2> QED BY <2>2, <2>3, <2>7
<1>15. ASSUME PerformTransactionCommit(r) \/ CompleteCommit(r)
       PROVE  Bookkeeping'
  <2>1. /\ c.op \in {"perform", "complete"} /\ c.pc = "commit"
        /\ PaymentInserted(r, c.txn) /\ StatusSaved(r) /\ Releases(r) /\ Ends(r)
    BY <1>15 DEF PerformTransactionCommit, CompleteCommit
  <2>2. Becomes(r, "success", c.pay)
    BY <1>15, SavesBecome DEF Bookkeeping
  <2>3. c.txn \in Txns => txn[c.txn].inv \in Invoices
    BY <1>2, NoneAssumption
  <2>4. txn' \in [Txns -> TxnRow]
    BY <2>2 DEF Becomes
  <2>5. Settling(r) /\ c.op \in Crediting
    BY <2>1 DEF Settling, Locking, Crediting
  <2>6. \A t \in Txns : txn'[t] # txn[t] =>
          /\ txn'[t].inv = txn[t].inv /\ txn[t].inv \in Invoices
          /\ txn'[t].payment \in {None, txn[t].payment, c.pay}
    BY <2>2, <2>3 DEF Becomes
  <2> QED BY <1>1, <2>1, <2>4, <2>5, <2>6, ReleaseHarmless, CreditBookkeeping
<1>16. ASSUME PayCommit(r)
       PROVE  Bookkeeping'
  <2>1. c.op = "pay" /\ c.pc = "commit" /\ PaymentInserted(r, None) /\ StatusSaved(r)
        /\ Releases(r) /\ Ends(r) /\ UNCHANGED txn
    BY <1>16 DEF PayCommit
  <2>2. Settling(r) /\ c.op \in Crediting
    BY <2>1 DEF Settling, Locking, Crediting
  <2> QED BY <1>3, <2>1, <2>2, ReleaseHarmless, CreditBookkeeping
<1>17. ASSUME PaymentCreateCommit(r)
       PROVE  Bookkeeping'
  <2>1. c.op \in Crediting /\ PaymentInserted(r, None) /\ StatusSaved(r) /\ Ends(r)
        /\ UNCHANGED <<txn, rowLock>>
    BY <1>17 DEF PaymentCreateCommit, Crediting
  <2> QED BY <1>3, <1>4, <2>1, CreditBookkeeping
<1> QED BY <1>6, <1>7, <1>8, <1>9, <1>10, <1>11, <1>12, <1>13, <1>14, <1>15, <1>16, <1>17
        DEF Proceeds

LEMMA BookkeepingStep == Bookkeeping /\ [Next]_vars => Bookkeeping'
<1> SUFFICES ASSUME Bookkeeping, [Next]_vars
             PROVE  Bookkeeping'
  OBVIOUS
<1>1. ASSUME NEW t \in Txns, NEW i \in Invoices, Checkout(t, i)
      PROVE  Bookkeeping'
  <2> DEFINE row == [NoTxn EXCEPT !.status = "initiated", !.inv = i,
                                  !.amount = invoice_balance(i)]
  <2>1. txn' = [txn EXCEPT ![t] = row] /\ UNCHANGED <<inv, pay, rowLock, req>>
    BY <1>1 DEF Checkout
  <2>2. invoice_balance(i) \in 0..MaxAmount
    <3>1. inv[i].total \in 0..MaxAmount /\ MaxAmount \in Nat
      BY DataAssumption DEF Bookkeeping, TypeOK, InvoiceRow
    <3> QED BY <1>1, <3>1, PaidIsNat DEF Checkout, invoice_balance
  <2>3. row \in TxnRow /\ row.status = "initiated" /\ row.inv = i /\ row.payment = None
    BY <2>2 DEF TxnRow, TxnStatuses, NoTxn
  <2> HIDE DEF row
  <2>4. TypeOK'
    BY <2>1, <2>3 DEF Bookkeeping, TypeOK
  <2>5. \A u \in Txns : txn'[u] = IF u = t THEN row ELSE txn[u]
    BY <2>1 DEF Bookkeeping, TypeOK
  <2>6. \A r \in Requests : req[r].txn \in Txns \cup {None}
    BY DEF Bookkeeping, TypeOK, Call
  <2>7. FreshReserved' /\ InvoiceNamed'
    BY <2>1, <2>3, <2>5, <2>6 DEF Bookkeeping, FreshReserved, InvoiceNamed
  <2> QED BY <2>1, <2>4, <2>7 DEF Bookkeeping, LockHeld, Settling, OpsInUse
<1>2. ASSUME NEW i \in Invoices, InvoiceDestroy(i)
      PROVE  Bookkeeping'
  <2>1. UNCHANGED <<pay, txn, rowLock, req>> /\ inv' = [inv EXCEPT ![i].alive = FALSE]
    BY <1>2 DEF InvoiceDestroy
  <2>2. TypeOK'
    BY <2>1 DEF Bookkeeping, TypeOK, InvoiceRow
  <2> QED BY <2>1, <2>2 DEF Bookkeeping, LockHeld, Settling, FreshReserved, InvoiceNamed, OpsInUse
<1>3. ASSUME NEW r \in Requests, Abort(r)
      PROVE  Bookkeeping'
  BY <1>3, RequestGone DEF Abort
<1>4. CASE UNCHANGED vars
  BY <1>4 DEF vars, Bookkeeping, TypeOK, LockHeld, Settling, FreshReserved, InvoiceNamed, OpsInUse
<1> QED BY <1>1, <1>2, <1>3, <1>4, ProviderCallsBookkeeping, StaffCallsBookkeeping,
           PaymentDestroyReadBookkeeping, ProceedsBookkeeping DEF Next

LEMMA BookkeepingInit == Init => Bookkeeping
<1> SUFFICES ASSUME Init
             PROVE  Bookkeeping
  OBVIOUS
<1>1. TypeOK
  <2>1. inv \in [Invoices -> InvoiceRow]
    <3> DEFINE new == {[alive |-> TRUE, total |-> n, status |-> "pending"] : n \in Totals}
    <3>1. ASSUME NEW row \in new
          PROVE  row \in InvoiceRow
      <4>1. PICK n \in Totals : row = [alive |-> TRUE, total |-> n, status |-> "pending"]
        OBVIOUS
      <4>2. n \in 0..MaxAmount
        BY DataAssumption
      <4> HIDE DEF new
      <4> QED BY <4>1, <4>2 DEF InvoiceRow, InvoiceStatuses
    <3>2. inv \in [Invoices -> new]
      BY DEF Init
    <3> HIDE DEF new
    <3> QED BY <3>1, <3>2
  <2>2. NoPayment \in PaymentRow /\ NoTxn \in TxnRow
    BY DataAssumption DEF NoPayment, NoTxn, PaymentRow, TxnRow, TxnStatuses
  <2> QED BY <2>1, <2>2, NoCallTyped DEF Init, TypeOK
<1>2. /\ \A r \in Requests : req[r] = NoCall
      /\ \A p \in Payments : pay[p] = NoPayment
      /\ \A t \in Txns : txn[t] = NoTxn
  BY DEF Init
<1>3. LockHeld /\ OpsInUse
  BY <1>2 DEF LockHeld, Settling, OpsInUse, NoCall, Locking, AllAdminOps
<1>4. FreshReserved
  BY <1>2 DEF FreshReserved, NoCall, NoTxn, Crediting
<1>5. InvoiceNamed
  BY <1>2 DEF InvoiceNamed, NoCall, NoTxn, NoPayment
<1> QED BY <1>1, <1>3, <1>4, <1>5 DEF Bookkeeping

(***************************************************************************)
(* In every configuration, all rows and requests keep their types, the     *)
(* invoice being credited stays locked by whoever checked its balance, and *)
(* payment ids are never shared.                                           *)
(***************************************************************************)
THEOREM BookkeepingHolds == Spec => []Bookkeeping
BY BookkeepingInit, BookkeepingStep, PTL DEF Spec

(***************************************************************************)
(* Type correctness: no interleaving of webhooks, staff and crashes writes *)
(* a row outside what the tables allow.                                    *)
(***************************************************************************)
THEOREM TypeCorrect == Spec => []TypeOK
<1>1. Bookkeeping => TypeOK
  BY DEF Bookkeeping
<1> QED BY <1>1, BookkeepingHolds, PTL

-----------------------------------------------------------------------------
(* What a step does to the money *)

TotalsKept == \A i \in Invoices : inv'[i].total = inv[i].total

\* A new payment, by a request that holds the invoice or by one that saw it unlocked.
Credited(r, t) ==
  /\ PaymentInserted(r, t) /\ Ends(r) /\ TotalsKept
  /\ req[r].op \in Crediting
  /\ \/ Settling(r)
     \/ req[r].op = "create" /\ t = None /\ Unlocked(req[r].inv)

Reversed(r) == PaymentSoftDeleted(r) /\ TotalsKept

(***************************************************************************)
(* A step leaves the money alone, credits, reverses, or edits a row.       *)
(***************************************************************************)
LEMMA LedgerSteps ==
  ASSUME Bookkeeping, [Next]_vars
  PROVE  \/ UNCHANGED pay /\ TotalsKept
         \/ \E r \in Requests, t \in Txns \cup {None} : Credited(r, t)
         \/ \E r \in Requests : Reversed(r)
         \/ \E r \in Requests : PaymentUpdateSave(r)
         \/ \E r \in Requests : InvoiceUpdateSave(r)
<1> DEFINE Quiet == UNCHANGED pay /\ TotalsKept
<1>1. inv \in [Invoices -> InvoiceRow]
  BY DEF Bookkeeping, TypeOK
<1>2. ASSUME UNCHANGED <<inv, pay>>
      PROVE  Quiet
  BY <1>2 DEF TotalsKept
<1>3. ASSUME NEW r \in Requests, StatusSaved(r)
      PROVE  TotalsKept
  <2>1. inv' = inv \/ inv' = [inv EXCEPT ![req[r].inv].status = req[r].write]
    BY <1>3 DEF StatusSaved
  <2> QED BY <1>1, <2>1 DEF TotalsKept, InvoiceRow
<1>4. ASSUME NEW r \in Requests, Proceeds(r)
      PROVE  \/ Quiet
             \/ \E t \in Txns \cup {None} : Credited(r, t)
             \/ Reversed(r) \/ PaymentUpdateSave(r) \/ InvoiceUpdateSave(r)
  <2>1. CASE CreateTransactionSave(r) \/ PrepareSave(r) \/ CompleteFailedSave(r)
             \/ CancelTransactionDelete(r) \/ PaymentDestroyDelete(r) \/ Recompute(r)
             \/ SettleLock(r)
    BY <1>2, <2>1 DEF CreateTransactionSave, PrepareSave, CompleteFailedSave,
      CancelTransactionDelete, PaymentDestroyDelete, Recompute, SettleLock
  <2>2. CASE CancelTransactionCommit(r)
    <3>1. CASE Reverses(req[r].was, req[r].pay)
      BY <1>3, <2>2, <3>1 DEF CancelTransactionCommit, Reversed
    <3>2. CASE ~Reverses(req[r].was, req[r].pay)
      BY <1>2, <2>2, <3>2 DEF CancelTransactionCommit
    <3> QED BY <3>1, <3>2
  <2>3. CASE PaymentDestroyCommit(r)
    BY <1>3, <2>3 DEF PaymentDestroyCommit, Reversed
  <2>4. CASE PerformTransactionCommit(r) \/ CompleteCommit(r)
    <3>1. req[r].txn \in Txns \cup {None}
      BY DEF Bookkeeping, TypeOK, Call
    <3>2. Credited(r, req[r].txn)
      BY <1>3, <2>4 DEF PerformTransactionCommit, CompleteCommit, Credited, Settling,
                        Locking, Crediting
    <3> QED BY <3>1, <3>2
  <2>5. CASE PayCommit(r)
    <3>1. Credited(r, None)
      BY <1>3, <2>5 DEF PayCommit, Credited, Settling, Locking, Crediting
    <3> QED BY <3>1
  <2>6. CASE PaymentCreateCommit(r)
    <3>1. Credited(r, None)
      BY <1>3, <2>6 DEF PaymentCreateCommit, Credited, Crediting
    <3> QED BY <3>1
  <2> QED BY <1>4, <2>1, <2>2, <2>3, <2>4, <2>5, <2>6 DEF Proceeds
<1>5. ASSUME NEW i \in Invoices, InvoiceDestroy(i)
      PROVE  Quiet
  BY <1>1, <1>5 DEF InvoiceDestroy, TotalsKept, InvoiceRow
<1>6. ASSUME NEW r \in Requests, NEW t \in Txns, ProviderCalls(r, t)
      PROVE  Quiet
  BY <1>2, <1>6 DEF ProviderCalls, CreateTransactionRead, PrepareRead, PerformTransactionRead,
                    CancelTransactionRead, CompleteRead, CompleteFailedRead
<1>7. ASSUME NEW r \in Requests, NEW i \in Invoices, StaffCalls(r, i)
      PROVE  Quiet
  BY <1>2, <1>7 DEF StaffCalls, PaymentCreateRead, PayLock, PaymentUpdateRead, InvoiceUpdateRead
<1>8. ASSUME NEW r \in Requests, NEW p \in Payments, PaymentDestroyRead(r, p)
      PROVE  Quiet
  BY <1>2, <1>8 DEF PaymentDestroyRead
<1>9. ASSUME NEW t \in Txns, NEW i \in Invoices, Checkout(t, i)
      PROVE  Quiet
  BY <1>2, <1>9 DEF Checkout
<1>10. ASSUME NEW r \in Requests, Abort(r)
       PROVE  Quiet
  BY <1>2, <1>10 DEF Abort
<1>11. CASE UNCHANGED vars
  BY <1>2, <1>11 DEF vars
<1> QED BY <1>4, <1>5, <1>6, <1>7, <1>8, <1>9, <1>10, <1>11 DEF Next

(***************************************************************************)
(* Whoever is past its balance check after a step already was before it,   *)
(* or has passed it in this step.                                          *)
(***************************************************************************)
LEMMA SettlingSteps ==
  ASSUME Bookkeeping, [Next]_vars, NEW s \in Requests, Settling(s)'
  PROVE  \/ Settling(s) /\ req'[s].inv = req[s].inv /\ req'[s].amount = req[s].amount
         \/ UNCHANGED <<inv, pay>> /\ req'[s].amount <= invoice_balance(req'[s].inv)
<1> USE NoCallTyped, NoCallFields
<1> DEFINE Still == Settling(s) /\ req'[s].inv = req[s].inv /\ req'[s].amount = req[s].amount
           Checked == UNCHANGED <<inv, pay>> /\ req'[s].amount <= invoice_balance(req'[s].inv)
<1>1. req \in [Requests -> Call] /\ inv \in [Invoices -> InvoiceRow]
  BY DEF Bookkeeping, TypeOK
<1>2. ASSUME req'[s] = req[s]
      PROVE  Still
  BY <1>2 DEF Settling
<1>3. ASSUME NEW r \in Requests, NEW q, req' = [req EXCEPT ![r] = q],
             q.op \notin Locking \/ q.pc \notin {"recompute", "commit"}
      PROVE  Still
  BY <1>1, <1>2, <1>3 DEF Settling
<1>4. ASSUME NEW r \in Requests, Ends(r)
      PROVE  Still
  BY <1>3, <1>4 DEF Ends, Locking
<1>5. ASSUME NEW r \in Requests, NEW t \in Txns, ProviderCalls(r, t)
      PROVE  Still
  <2> USE DEF Locking
  <2>1. ASSUME NEW id \in ProviderIds,
               CreateTransactionRead(r, t, id) \/ PrepareRead(r, t, id)
        PROVE  Still
    <3>1. PICK op \in {"create_txn", "prepare"} :
            Starts(r, [NoCall EXCEPT !.op = op, !.pc = "commit", !.txn = t, !.id = id, !.was = txn[t].status])
      BY <2>1 DEF CreateTransactionRead, PrepareRead
    <3> DEFINE q == [NoCall EXCEPT !.op = op, !.pc = "commit", !.txn = t, !.id = id, !.was = txn[t].status]
    <3>2. q.op \notin Locking
      BY DEF Call
    <3>3. req' = [req EXCEPT ![r] = q]
      BY <3>1 DEF Starts
    <3> HIDE DEF q
    <3> QED BY <1>3, <3>2, <3>3
  <2>2. ASSUME PerformTransactionRead(r, t) \/ CompleteRead(r, t)
        PROVE  Still
    <3>1. PICK p \in Payments, op \in {"perform", "complete"} :
            Starts(r, [NoCall EXCEPT !.op = op, !.pc = "lock", !.txn = t, !.pay = p,
                                     !.inv = txn[t].inv, !.amount = txn[t].amount,
                                     !.was = txn[t].status])
      BY <2>2 DEF PerformTransactionRead, CompleteRead
    <3> DEFINE q == [NoCall EXCEPT !.op = op, !.pc = "lock", !.txn = t, !.pay = p,
                                   !.inv = txn[t].inv, !.amount = txn[t].amount,
                                   !.was = txn[t].status]
    <3>2. q.pc = "lock"
      BY DEF Call
    <3>3. req' = [req EXCEPT ![r] = q]
      BY <3>1 DEF Starts
    <3> HIDE DEF q
    <3> QED BY <1>3, <3>2, <3>3
  <2>3. ASSUME CancelTransactionRead(r, t)
        PROVE  Still
    <3> DEFINE pc == IF Reverses(txn[t].status, txn[t].payment) THEN "delete" ELSE "commit"
               q == [NoCall EXCEPT !.op = "cancel", !.txn = t, !.inv = txn[t].inv,
                                   !.pc = pc, !.pay = txn[t].payment, !.was = txn[t].status]
    <3>1. req' = [req EXCEPT ![r] = q]
      BY <2>3 DEF CancelTransactionRead, Starts
    <3> HIDE DEF pc
    <3>2. q.op = "cancel"
      BY DEF Call
    <3> HIDE DEF q
    <3> QED BY <1>3, <3>1, <3>2
  <2>4. ASSUME CompleteFailedRead(r, t)
        PROVE  Still
    <3> DEFINE q == [NoCall EXCEPT !.op = "fail", !.pc = "commit", !.txn = t, !.was = txn[t].status]
    <3>1. q.op = "fail" /\ req' = [req EXCEPT ![r] = q]
      BY <2>4 DEF CompleteFailedRead, Starts, Call
    <3> HIDE DEF q
    <3> QED BY <1>3, <3>1
  <2> QED BY <1>5, <2>1, <2>2, <2>3, <2>4 DEF ProviderCalls
<1>6. ASSUME NEW r \in Requests, NEW i \in Invoices, StaffCalls(r, i)
      PROVE  Still \/ Checked
  <2> USE DEF Locking
  <2>1. ASSUME NEW a \in Amounts, PaymentCreateRead(r, i, a)
        PROVE  Still
    <3>1. PICK p \in Payments :
            Starts(r, [NoCall EXCEPT !.op = "create", !.pc = "recompute", !.inv = i, !.pay = p,
                                     !.amount = a, !.total = inv[i].total,
                                     !.status = inv[i].status])
      BY <2>1 DEF PaymentCreateRead
    <3> DEFINE q == [NoCall EXCEPT !.op = "create", !.pc = "recompute", !.inv = i, !.pay = p,
                                   !.amount = a, !.total = inv[i].total, !.status = inv[i].status]
    <3>2. q.op = "create"
      BY DEF Call
    <3>3. req' = [req EXCEPT ![r] = q]
      BY <3>1 DEF Starts
    <3> HIDE DEF q
    <3> QED BY <1>3, <3>2, <3>3
  <2>2. ASSUME NEW a \in Amounts, PayLock(r, i, a)
        PROVE  Still \/ Checked
    <3>1. PICK p \in Payments :
            Starts(r, [NoCall EXCEPT !.op = "pay", !.pc = "recompute", !.inv = i, !.pay = p,
                                     !.amount = a, !.total = inv[i].total,
                                     !.status = inv[i].status])
      BY <2>2 DEF PayLock
    <3> DEFINE q == [NoCall EXCEPT !.op = "pay", !.pc = "recompute", !.inv = i, !.pay = p,
                                   !.amount = a, !.total = inv[i].total, !.status = inv[i].status]
    <3>2. q.inv = i /\ q.amount = a
      BY DEF Call
    <3>3. req' = [req EXCEPT ![r] = q]
      BY <3>1 DEF Starts
    <3>4. UNCHANGED <<inv, pay>> /\ invoice_balance(i) >= a
      BY <2>2 DEF PayLock, Covers
    <3>5. a \in Int /\ invoice_balance(i) \in Int
      BY <1>1, PaidIsNat, DataAssumption DEF Amounts, invoice_balance, InvoiceRow
    <3> HIDE DEF q
    <3>6. CASE s = r
      BY <1>1, <3>2, <3>3, <3>4, <3>5, <3>6
    <3>7. CASE s # r
      BY <1>1, <1>2, <3>3, <3>7
    <3> QED BY <3>6, <3>7
  <2>3. ASSUME NEW a \in Amounts, NEW p \in Payments, PaymentUpdateRead(r, p, i, a)
        PROVE  Still
    <3> DEFINE q == [NoCall EXCEPT !.op = "update", !.pc = "commit", !.inv = i, !.pay = p,
                                   !.amount = a]
    <3>1. q.op = "update"
      BY DEF Call
    <3>2. req' = [req EXCEPT ![r] = q]
      BY <2>3 DEF PaymentUpdateRead, Starts
    <3> HIDE DEF q
    <3> QED BY <1>3, <3>1, <3>2
  <2>4. ASSUME NEW n \in Totals, InvoiceUpdateRead(r, i, n)
        PROVE  Still
    <3> DEFINE q == [NoCall EXCEPT !.op = "invoice_update", !.pc = "commit", !.inv = i,
                                   !.total = n, !.status = inv[i].status]
    <3>1. q.op = "invoice_update"
      BY DEF Call
    <3>2. req' = [req EXCEPT ![r] = q]
      BY <2>4 DEF InvoiceUpdateRead, Starts
    <3> HIDE DEF q
    <3> QED BY <1>3, <3>1, <3>2
  <2> QED BY <1>6, <2>1, <2>2, <2>3, <2>4 DEF StaffCalls
<1>7. ASSUME NEW r \in Requests, NEW p \in Payments, PaymentDestroyRead(r, p)
      PROVE  Still
  <2> DEFINE i == pay[p].inv
             q == [NoCall EXCEPT !.op = "destroy", !.pc = "delete", !.inv = i, !.pay = p,
                                 !.total = inv[i].total, !.status = inv[i].status]
  <2>1. q.op = "destroy"
    BY DEF Call
  <2>2. req' = [req EXCEPT ![r] = q]
    BY <1>7 DEF PaymentDestroyRead, Starts
  <2> HIDE DEF q
  <2> QED BY <1>3, <2>1, <2>2 DEF Locking
<1>8. ASSUME NEW r \in Requests, Recompute(r)
      PROVE  Still
  <2> DEFINE w == req'[r].write
  <2>1. /\ req[r].pc = "recompute"
        /\ s # r => req'[s] = req[s]
        /\ req'[r].op = req[r].op /\ req'[r].inv = req[r].inv /\ req'[r].amount = req[r].amount
    BY <1>1, <1>8 DEF Recompute, Call
  <2> QED BY <1>2, <2>1 DEF Settling
<1>9. ASSUME NEW r \in Requests, CancelTransactionDelete(r) \/ PaymentDestroyDelete(r)
      PROVE  Still
  <2>1. req[r].op \in {"cancel", "destroy"} /\ (s # r => req'[s] = req[s])
        /\ req'[r].op = req[r].op
    BY <1>1, <1>9 DEF CancelTransactionDelete, PaymentDestroyDelete, Call
  <2> QED BY <1>2, <2>1 DEF Settling, Locking
<1>10. ASSUME NEW r \in Requests, SettleLock(r)
       PROVE  Still \/ Checked
  <2>1. CASE ~(inv[req[r].inv].alive /\ Covers(req[r].inv, req[r].amount))
    BY <1>4, <1>10, <2>1 DEF SettleLock
  <2>2. CASE inv[req[r].inv].alive /\ Covers(req[r].inv, req[r].amount)
    <3>1. /\ UNCHANGED <<inv, pay>> /\ req[r].pc = "lock"
          /\ invoice_balance(req[r].inv) >= req[r].amount
          /\ s # r => req'[s] = req[s]
          /\ req'[r].inv = req[r].inv /\ req'[r].amount = req[r].amount
      BY <1>1, <1>10, <2>2 DEF SettleLock, Covers, Call
    <3>2. req[r].inv \in Invoices /\ req[r].amount \in Int
      BY <1>1, <3>1, DataAssumption DEF Bookkeeping, InvoiceNamed, Call
    <3>3. invoice_balance(req[r].inv) \in Int
      BY <1>1, <3>2, PaidIsNat, DataAssumption DEF invoice_balance, InvoiceRow
    <3> QED BY <1>2, <3>1, <3>2, <3>3
  <2> QED BY <2>1, <2>2
<1>11. ASSUME NEW r \in Requests, Proceeds(r)
       PROVE  Still \/ Checked
  BY <1>4, <1>8, <1>9, <1>10, <1>11
     DEF Proceeds, CreateTransactionSave, CancelTransactionCommit, PrepareSave, CompleteFailedSave,
         PerformTransactionCommit, CompleteCommit, PaymentCreateCommit, PaymentUpdateSave,
         PaymentDestroyCommit, PayCommit, InvoiceUpdateSave
<1>12. CASE UNCHANGED req
  BY <1>2, <1>12
<1> QED BY <1>4, <1>5, <1>6, <1>7, <1>11, <1>12
        DEF Next, vars, Checkout, InvoiceDestroy, Abort

-----------------------------------------------------------------------------
(* Balances under the lock *)

\* A balance is an integer, before and after a step.
LEMMA BalanceIsInt ==
  ASSUME Bookkeeping, Bookkeeping', NEW i \in Invoices
  PROVE  /\ invoice_balance(i) \in Int /\ invoice_balance(i)' \in Int
         /\ invoice_paid_amount(i) \in Nat /\ invoice_paid_amount(i)' \in Nat
         /\ inv[i].total \in Nat /\ inv'[i].total \in Nat
<1>1. inv[i].total \in Nat /\ inv'[i].total \in Nat
  BY DataAssumption DEF Bookkeeping, TypeOK, InvoiceRow
<1> QED BY <1>1, PaidIsNat DEF invoice_balance

\* Whatever credits names an invoice and an amount.
LEMMA CreditNamed ==
  ASSUME Bookkeeping, NEW r \in Requests, NEW t, Credited(r, t)
  PROVE  /\ req[r].pay \in Payments /\ pay[req[r].pay].state = "absent"
         /\ req[r].amount \in 0..MaxAmount /\ req[r].amount \in Nat
         /\ req[r].inv \in Invoices
<1>1. /\ req[r].pay \in Payments /\ pay[req[r].pay].state = "absent"
      /\ req[r].amount \in 0..MaxAmount /\ req[r].inv \in Invoices
  BY DEF Credited, Bookkeeping, FreshReserved, InvoiceNamed, TypeOK, Call, Crediting
<1> QED BY <1>1, DataAssumption

\* A credit takes what it credits from its invoice's balance and from no other.
LEMMA BalanceAfterCredit ==
  ASSUME Bookkeeping, Bookkeeping', NEW r \in Requests, NEW t, Credited(r, t),
         NEW i \in Invoices
  PROVE  /\ invoice_paid_amount(i)' = IF i = req[r].inv
                                      THEN invoice_paid_amount(i) + req[r].amount
                                      ELSE invoice_paid_amount(i)
         /\ invoice_balance(i)' = IF i = req[r].inv
                                  THEN invoice_balance(i) - req[r].amount
                                  ELSE invoice_balance(i)
<1>2. TypeOK /\ PaymentInserted(r, t) /\ inv'[i].total = inv[i].total
  BY DEF Credited, Bookkeeping, TotalsKept
<1>3. invoice_paid_amount(i)' = IF i = req[r].inv
                                THEN invoice_paid_amount(i) + req[r].amount
                                ELSE invoice_paid_amount(i)
  BY <1>2, CreditNamed, PaidAfterInsert
<1>5. invoice_balance(i)' = inv'[i].total - invoice_paid_amount(i)'
  BY DEF invoice_balance
<1> QED BY <1>2, <1>3, <1>5, CreditNamed, BalanceIsInt DEF invoice_balance

\* The payment a reversal deletes names an invoice, and it only lowers sums.
LEMMA BalanceAfterReversal ==
  ASSUME Bookkeeping, Bookkeeping', NEW r \in Requests, Reversed(r), NEW i \in Invoices
  PROVE  /\ invoice_paid_amount(i)' <= invoice_paid_amount(i)
         /\ invoice_balance(i)' >= invoice_balance(i)
         /\ \/ invoice_paid_amount(i)' = invoice_paid_amount(i)
            \/ i = pay[req[r].pay].inv
<1>1. TypeOK /\ PaymentSoftDeleted(r) /\ inv'[i].total = inv[i].total
  BY DEF Reversed, Bookkeeping, TotalsKept
<1>2. /\ invoice_paid_amount(i)' <= invoice_paid_amount(i)
      /\ i # pay[req[r].pay].inv => invoice_paid_amount(i)' = invoice_paid_amount(i)
  BY <1>1, PaidAfterDelete
<1>3. invoice_balance(i)' = inv'[i].total - invoice_paid_amount(i)'
  BY DEF invoice_balance
<1> QED BY <1>1, <1>2, <1>3, BalanceIsInt DEF invoice_balance

\* A step that touches no payment and no total touches no balance.
LEMMA BalanceKept ==
  ASSUME UNCHANGED pay, TotalsKept, NEW i \in Invoices
  PROVE  /\ invoice_paid_amount(i)' = invoice_paid_amount(i)
         /\ invoice_balance(i)' = invoice_balance(i)
<1>1. invoice_balance(i)' = inv'[i].total - invoice_paid_amount(i)'
  BY DEF invoice_balance
<1> QED BY <1>1, PaidUnchanged DEF invoice_balance, TotalsKept

(***************************************************************************)
(* The balance a request has checked under the lock is still there after   *)
(* any step of anybody, unless payments are edited.                        *)
(***************************************************************************)
LEMMA HeadroomStep ==
  ASSUME "update" \notin AdminOps, IInv, [Next]_vars
  PROVE  Headroom'
<1>1. Bookkeeping /\ Headroom /\ Bookkeeping'
  BY BookkeepingStep DEF IInv
<1>2. \A s \in Requests : req'[s].amount \in Nat
  BY <1>1, DataAssumption DEF Bookkeeping, TypeOK, Call
<1> SUFFICES ASSUME NEW s \in Requests, NEW i \in Invoices, NEW a \in Nat,
                    Settling(s)', req'[s].inv = i, req'[s].amount = a
             PROVE  a <= invoice_balance(i)'
  BY <1>2 DEF Headroom
<1>3. CASE UNCHANGED <<inv, pay>> /\ a <= invoice_balance(i)
  <2>1. UNCHANGED pay /\ TotalsKept
    BY <1>3 DEF TotalsKept
  <2>2. invoice_balance(i)' = invoice_balance(i)
    BY <2>1, BalanceKept
  <2> QED BY <1>3, <2>2
<1>4. CASE Settling(s) /\ i = req[s].inv /\ a = req[s].amount
  <2>1. a <= invoice_balance(i) /\ rowLock[i] = s
    BY <1>1, <1>4 DEF Headroom, Bookkeeping, LockHeld
  <2>2. /\ invoice_balance(i) \in Int /\ invoice_balance(i)' \in Int
        /\ invoice_paid_amount(i) \in Nat
    BY <1>1, BalanceIsInt
  <2>3. CASE UNCHANGED pay /\ TotalsKept
    BY <2>1, <2>3, BalanceKept
  <2>4. ASSUME NEW r \in Requests, NEW t \in Txns \cup {None}, Credited(r, t)
        PROVE  a <= invoice_balance(i)'
    <3>1. r # s
      BY <1>1, <2>4 DEF Credited, Ends, Settling, Locking, NoCall, Bookkeeping, TypeOK
    <3>2. req[r].inv # i
      BY <1>1, <2>1, <2>4, <3>1, NoneAssumption DEF Credited, Unlocked, Bookkeeping, LockHeld
    <3> QED BY <1>1, <2>1, <2>4, <3>2, BalanceAfterCredit
  <2>5. ASSUME NEW r \in Requests, Reversed(r)
        PROVE  a <= invoice_balance(i)'
    BY <1>1, <1>2, <2>1, <2>2, <2>5, BalanceAfterReversal
  <2>6. ASSUME NEW r \in Requests, PaymentUpdateSave(r)
        PROVE  FALSE
    BY <1>1, <2>6 DEF PaymentUpdateSave, Bookkeeping, OpsInUse, AllAdminOps
  <2>7. ASSUME NEW r \in Requests, InvoiceUpdateSave(r)
        PROVE  a <= invoice_balance(i)'
    <3>1. req[r].inv # i
      BY <2>1, <2>7, NoneAssumption DEF InvoiceUpdateSave, Unlocked
    <3>2. inv'[i].total = inv[i].total /\ UNCHANGED pay
      BY <1>1, <2>7, <3>1 DEF InvoiceUpdateSave, Bookkeeping, TypeOK
    <3>3. invoice_balance(i)' = inv'[i].total - invoice_paid_amount(i)'
      BY DEF invoice_balance
    <3> QED BY <2>1, <3>2, <3>3, PaidUnchanged DEF invoice_balance
  <2> QED BY <1>1, <2>3, <2>4, <2>5, <2>6, <2>7, LedgerSteps
<1> QED BY <1>1, <1>3, <1>4, SettlingSteps

LEMMA IInvInit == Init => IInv
<1> SUFFICES ASSUME Init
             PROVE  Headroom
  BY BookkeepingInit DEF IInv
<1> QED BY DEF Init, Headroom, Settling, Locking, NoCall

LEMMA IInvStep ==
  ASSUME "update" \notin AdminOps
  PROVE  IInv /\ [Next]_vars => IInv'
BY BookkeepingStep, HeadroomStep DEF IInv

(***************************************************************************)
(* Where payments are not edited, IInv is an invariant: a balance checked  *)
(* under select_for_update is there until the request that checked it      *)
(* commits, whatever else is recorded, deleted or billed meanwhile.        *)
(***************************************************************************)
THEOREM BalanceStaysChecked ==
  ASSUME "update" \notin AdminOps
  PROVE  Spec => []IInv
BY IInvInit, IInvStep, PTL DEF Spec

(***************************************************************************)
(* Where payments are not edited, what PerformTransaction or Complete      *)
(* credits is covered by what the invoice still owes when it commits.      *)
(***************************************************************************)
THEOREM GatewayCreditsFit ==
  ASSUME "update" \notin AdminOps
  PROVE  Spec => GatewayCreditFits
<1>1. ASSUME IInv, IInv', [Next]_vars, NEW p \in Payments, NEW i \in Invoices,
             GatewayCredits(p), pay'[p].inv = i
      PROVE  invoice_balance(i)' >= 0
  <2>1. Bookkeeping /\ Bookkeeping' /\ Headroom
    BY <1>1 DEF IInv
  <2>2. pay \in [Payments -> PaymentRow]
    BY <2>1 DEF Bookkeeping, TypeOK
  <2>3. ASSUME NEW r \in Requests, NEW t \in Txns \cup {None}, Credited(r, t)
        PROVE  invoice_balance(i)' >= 0
    <3>1. p = req[r].pay /\ pay'[p].txn = t /\ pay'[p].inv = req[r].inv
      BY <1>1, <2>2, <2>3 DEF GatewayCredits, Credited, PaymentInserted
    <3>2. Settling(r)
      BY <1>1, <2>3, <3>1 DEF GatewayCredits, Credited
    <3>3. req[r].amount <= invoice_balance(i)
      BY <1>1, <2>1, <3>1, <3>2 DEF Headroom
    <3> QED BY <1>1, <2>1, <2>3, <3>1, <3>3, CreditNamed, BalanceAfterCredit, BalanceIsInt
  <2>4. ASSUME NEW r \in Requests, Reversed(r)
        PROVE  FALSE
    BY <1>1, <2>2, <2>4 DEF GatewayCredits, Reversed, PaymentSoftDeleted, PaymentRow
  <2>5. ASSUME NEW r \in Requests, PaymentUpdateSave(r)
        PROVE  FALSE
    BY <2>1, <2>5 DEF PaymentUpdateSave, Bookkeeping, OpsInUse, AllAdminOps
  <2>6. ASSUME UNCHANGED pay
        PROVE  FALSE
    BY <1>1, <2>6 DEF GatewayCredits
  <2> QED BY <1>1, <2>1, <2>3, <2>4, <2>5, <2>6, LedgerSteps DEF InvoiceUpdateSave
<1>2. IInv /\ IInv' /\ [Next]_vars =>
        [\A p \in Payments, i \in Invoices :
           GatewayCredits(p) /\ pay'[p].inv = i => invoice_balance(i)' >= 0]_vars
  BY <1>1
<1> QED BY <1>2, BalanceStaysChecked, PTL DEF Spec, GatewayCreditFits

-----------------------------------------------------------------------------
(* Where every credit takes the lock *)

LEMMA OpsLocked ==
  ASSUME AdminOps \subseteq {"pay", "destroy", "invoice_destroy"}, IInv
  PROVE  \A r \in Requests : req[r].op \notin {"create", "update", "invoice_update"}
BY DEF IInv, Bookkeeping, OpsInUse, AllAdminOps

\* A credit by a request that holds the invoice never exceeds the balance.
LEMMA LockedCredit ==
  ASSUME AdminOps \subseteq {"pay", "destroy", "invoice_destroy"}, IInv, IInv',
         NEW r \in Requests, NEW t, Credited(r, t)
  PROVE  /\ req[r].inv \in Invoices /\ req[r].amount \in Nat
         /\ req[r].amount <= invoice_balance(req[r].inv)
<1>1. Bookkeeping /\ Bookkeeping' /\ Headroom
  BY DEF IInv
<1>2. req[r].inv \in Invoices /\ req[r].amount \in Nat
  BY <1>1, CreditNamed
<1>3. Settling(r)
  BY OpsLocked DEF Credited
<1> QED BY <1>1, <1>2, <1>3 DEF Headroom

LEMMA NeverOverpaidStep ==
  ASSUME AdminOps \subseteq {"pay", "destroy", "invoice_destroy"},
         IInv, IInv', NeverOverpaid, [Next]_vars
  PROVE  NeverOverpaid'
<1>1. Bookkeeping /\ Bookkeeping'
  BY DEF IInv
<1> SUFFICES ASSUME NEW i \in Invoices
             PROVE  invoice_paid_amount(i)' <= inv'[i].total
  BY DEF NeverOverpaid
<1>2. invoice_paid_amount(i) <= inv[i].total
  BY DEF NeverOverpaid
<1>3. /\ invoice_paid_amount(i) \in Nat /\ invoice_paid_amount(i)' \in Nat
      /\ inv[i].total \in Nat /\ inv'[i].total \in Nat
  BY <1>1, BalanceIsInt
<1>4. CASE UNCHANGED pay /\ TotalsKept
  BY <1>2, <1>4, BalanceKept DEF TotalsKept
<1>5. ASSUME NEW r \in Requests, NEW t \in Txns \cup {None}, Credited(r, t)
      PROVE  invoice_paid_amount(i)' <= inv'[i].total
  <2>1. inv'[i].total = inv[i].total
    BY <1>5 DEF Credited, TotalsKept
  <2>2. /\ req[r].inv \in Invoices /\ req[r].amount \in Nat
        /\ req[r].amount <= invoice_balance(req[r].inv)
    BY <1>5, LockedCredit
  <2>3. CASE i = req[r].inv
    <3>1. invoice_paid_amount(i)' = invoice_paid_amount(i) + req[r].amount
      BY <1>1, <1>5, <2>3, BalanceAfterCredit
    <3>2. req[r].amount <= inv[i].total - invoice_paid_amount(i)
      BY <2>2, <2>3 DEF invoice_balance
    <3> QED BY <1>3, <2>1, <2>2, <3>1, <3>2
  <2>4. CASE i # req[r].inv
    <3>1. invoice_paid_amount(i)' = invoice_paid_amount(i)
      BY <1>1, <1>5, <2>4, BalanceAfterCredit
    <3> QED BY <1>2, <2>1, <3>1
  <2> QED BY <2>3, <2>4
<1>6. ASSUME NEW r \in Requests, Reversed(r)
      PROVE  invoice_paid_amount(i)' <= inv'[i].total
  BY <1>1, <1>2, <1>3, <1>6, BalanceAfterReversal DEF Reversed, TotalsKept
<1> QED BY <1>1, <1>4, <1>5, <1>6, LedgerSteps, OpsLocked DEF PaymentUpdateSave, InvoiceUpdateSave

LEMMA NothingPaidInitially ==
  ASSUME Init, NEW i \in Invoices
  PROVE  invoice_paid_amount(i) = 0
<1>1. PaidUnits(i) = {}
  BY DEF Init, PaidUnits, NoPayment
<1> QED BY <1>1, FS_EmptySet DEF invoice_paid_amount

(***************************************************************************)
(* Where staff record money only through pay(), and nobody edits payments  *)
(* or invoices, no invoice is ever overpaid: both gateways and pay() check *)
(* the balance under the same row lock.                                    *)
(***************************************************************************)
THEOREM LockedNeverOverpaid ==
  ASSUME AdminOps \subseteq {"pay", "destroy", "invoice_destroy"}
  PROVE  Spec => []NeverOverpaid
<1>1. Init => NeverOverpaid
  <2> SUFFICES ASSUME Init, NEW i \in Invoices
               PROVE  invoice_paid_amount(i) <= inv[i].total
    BY DEF NeverOverpaid
  <2>1. inv[i].total \in Nat
    BY BookkeepingInit, DataAssumption DEF Bookkeeping, TypeOK, InvoiceRow
  <2> QED BY <2>1, NothingPaidInitially
<1>2. IInv /\ IInv' /\ NeverOverpaid /\ [Next]_vars => NeverOverpaid'
  BY NeverOverpaidStep
<1>3. "update" \notin AdminOps
  OBVIOUS
<1>4. Spec => []IInv
  BY <1>3, BalanceStaysChecked
<1> QED BY <1>1, <1>2, <1>4, PTL DEF Spec

\* The account's two variables, as the ledger shows them.
Paid == [i \in Invoices |-> invoice_paid_amount(i)]
Total == [i \in Invoices |-> inv[i].total]

\* In terms of the account: nothing, a credit within the balance, or a reversal.
LEMMA AccountStep ==
  ASSUME AdminOps \subseteq {"pay", "destroy", "invoice_destroy"}, IInv, IInv', [Next]_vars
  PROVE  Account!Next \/ UNCHANGED <<Paid, Total>>
<1> USE DEF Paid, Total
<1>1. Bookkeeping /\ Bookkeeping'
  BY DEF IInv
<1>2. \A i \in Invoices :
        /\ invoice_paid_amount(i) \in Nat /\ invoice_paid_amount(i)' \in Nat
        /\ inv[i].total \in Nat
  BY <1>1, BalanceIsInt
<1>3. Paid' = [i \in Invoices |-> invoice_paid_amount(i)']
  OBVIOUS
<1>4. CASE UNCHANGED pay /\ TotalsKept
  <2>1. \A i \in Invoices : invoice_paid_amount(i)' = invoice_paid_amount(i)
    BY <1>4, BalanceKept
  <2> QED BY <1>3, <1>4, <2>1 DEF TotalsKept
<1>5. ASSUME NEW r \in Requests, NEW t \in Txns \cup {None}, Credited(r, t)
      PROVE  Account!Next \/ UNCHANGED <<Paid, Total>>
  <2>1. PICK i \in Invoices, a \in Nat :
          i = req[r].inv /\ a = req[r].amount /\ a <= invoice_balance(i)
    BY <1>5, LockedCredit
  <2>2. \A j \in Invoices : invoice_paid_amount(j)' =
          IF j = i THEN invoice_paid_amount(j) + a ELSE invoice_paid_amount(j)
    BY <1>1, <1>5, <2>1, BalanceAfterCredit
  <2>3. Total' = Total
    BY <1>5 DEF Credited, TotalsKept
  <2>4. Paid' = [Paid EXCEPT ![i] = @ + a]
    BY <1>3, <2>2
  <2>5. CASE a = 0
    BY <1>2, <2>3, <1>3, <2>2, <2>5
  <2>6. CASE a # 0
    <3>1. a \in 1..(Total[i] - Paid[i]) /\ Paid[i] + a <= Total[i]
      BY <1>2, <2>1, <2>6 DEF invoice_balance
    <3>2. Account!Credit(i, a)
      BY <2>3, <2>4, <3>1 DEF Account!Credit
    <3> QED BY <3>1, <3>2 DEF Account!Next
  <2> QED BY <2>5, <2>6
<1>6. ASSUME NEW r \in Requests, Reversed(r)
      PROVE  Account!Next \/ UNCHANGED <<Paid, Total>>
  <2>1. Total' = Total
    BY <1>6 DEF Reversed, TotalsKept
  <2>2. \A j \in Invoices :
          /\ invoice_paid_amount(j)' <= invoice_paid_amount(j)
          /\ invoice_paid_amount(j)' = invoice_paid_amount(j) \/ j = pay[req[r].pay].inv
    BY <1>1, <1>6, BalanceAfterReversal
  <2>3. CASE \A j \in Invoices : invoice_paid_amount(j)' = invoice_paid_amount(j)
    BY <1>3, <2>1, <2>3
  <2>4. CASE \E j \in Invoices : invoice_paid_amount(j)' # invoice_paid_amount(j)
    <3>1. PICK i \in Invoices : invoice_paid_amount(i)' # invoice_paid_amount(i)
      BY <2>4
    <3>2. PICK a \in Nat : a = invoice_paid_amount(i) - invoice_paid_amount(i)'
      BY <1>2, <2>2
    <3>3. a \in 1..Paid[i] /\ invoice_paid_amount(i)' = invoice_paid_amount(i) - a
      BY <1>2, <3>1, <3>2
    <3>4. \A j \in Invoices : j # i => invoice_paid_amount(j)' = invoice_paid_amount(j)
      BY <2>2, <3>1
    <3>5. Paid' = [Paid EXCEPT ![i] = @ - a]
      BY <1>3, <3>3, <3>4
    <3>6. Account!Reverse(i, a)
      BY <2>1, <3>3, <3>5 DEF Account!Reverse
    <3> QED BY <3>3, <3>6 DEF Account!Next
  <2> QED BY <2>3, <2>4
<1> QED BY <1>1, <1>4, <1>5, <1>6, LedgerSteps, OpsLocked DEF PaymentUpdateSave, InvoiceUpdateSave

(***************************************************************************)
(* Under the same conditions the tables, locks and webhooks implement the  *)
(* account an invoice promises: credits within what is owed, reversals     *)
(* within what was paid.                                                   *)
(***************************************************************************)
THEOREM LedgerImplementsAccount ==
  ASSUME AdminOps \subseteq {"pay", "destroy", "invoice_destroy"}
  PROVE  Spec => ImplementsAccount
<1>1. Init => Account!Init
  <2> SUFFICES ASSUME Init
               PROVE  Account!Init
    OBVIOUS
  <2>1. \A i \in Invoices : invoice_paid_amount(i) = 0
    BY NothingPaidInitially
  <2>2. \A i \in Invoices : inv[i].total \in Totals
    BY DEF Init
  <2> QED BY <2>1, <2>2 DEF Account!Init
<1>2. IInv /\ IInv' /\ [Next]_vars => [Account!Next]_<<Paid, Total>>
  BY AccountStep
<1>3. "update" \notin AdminOps
  OBVIOUS
<1>4. Spec => []IInv
  BY <1>3, BalanceStaysChecked
<1> QED BY <1>1, <1>2, <1>4, PTL DEF Spec, ImplementsAccount, Account!Spec, Paid, Total

-----------------------------------------------------------------------------
(* What a step does to the gateway transactions *)

\* What a call knows of its transaction when it starts.
Asked(q) ==
  /\ q.txn # None => /\ q.txn \in Txns /\ MayCall(q.txn) /\ q.was = txn[q.txn].status
                     /\ q.op \in Advancing \cup {"cancel"}
  /\ q.op \in Advancing => q.txn # None /\ q.was \in Unsettled \ {"absent"}
  /\ q.op = "cancel" =>
       /\ q.txn # None /\ txn[q.txn].provider_id # None
       /\ q.was # "cancelled" /\ q.pay = txn[q.txn].payment

Begins(r) ==
  /\ UNCHANGED <<pay, txn>>
  /\ \A s \in Requests \ {r} : req'[s] = req[s]
  /\ Asked(req'[r])

Continues(r) ==
  /\ UNCHANGED <<pay, txn>>
  /\ \A s \in Requests \ {r} : req'[s] = req[s]
  /\ req'[r].op = req[r].op /\ req'[r].txn = req[r].txn
  /\ req'[r].pay = req[r].pay /\ req'[r].was = req[r].was

Updates(r) ==
  /\ req[r].op \in {"create_txn", "prepare", "fail"}
  /\ Ends(r) /\ UNCHANGED pay
  /\ \E s \in {"pending", "failed"} : Becomes(r, s, txn[req[r].txn].payment)

Settles(r) ==
  /\ req[r].op \in {"perform", "complete"}
  /\ Ends(r) /\ PaymentInserted(r, req[r].txn)
  /\ Becomes(r, "success", req[r].pay)

Cancels(r) ==
  /\ req[r].op = "cancel" /\ Ends(r)
  /\ IF Reverses(req[r].was, req[r].pay)
     THEN PaymentSoftDeleted(r) /\ Becomes(r, "cancelled", None)
     ELSE UNCHANGED pay /\ Becomes(r, "cancelled", req[r].pay)

\* Staff write payments; no transaction learns of it.
StaffWrites(r) ==
  /\ Ends(r) /\ UNCHANGED txn
  /\ \/ req[r].op \in {"pay", "create"} /\ PaymentInserted(r, None)
     \/ req[r].op = "destroy" /\ PaymentSoftDeleted(r)
     \/ PaymentUpdateSave(r)

Leaves(r) == Ends(r) /\ UNCHANGED <<pay, txn>>

LEMMA StartBegins ==
  ASSUME TypeOK, NEW r \in Requests, NEW q, Starts(r, q), UNCHANGED <<pay, txn>>, Asked(q)
  PROVE  Begins(r)
<1>1. req'[r] = q /\ \A s \in Requests \ {r} : req'[s] = req[s]
  BY DEF TypeOK, Starts
<1> QED BY <1>1 DEF Begins

LEMMA ProviderBegins ==
  ASSUME Bookkeeping, NEW r \in Requests, NEW t \in Txns, ProviderCalls(r, t)
  PROVE  Begins(r)
<1> USE NoCallTyped
<1>1. TypeOK
  BY DEF Bookkeeping
<1>2. txn[t].status \in TxnStatuses
  BY <1>1 DEF TypeOK, TxnRow
<1>3. t # None
  BY NoneAssumption
<1>4. UNCHANGED <<pay, txn>>
  BY DEF ProviderCalls, CreateTransactionRead, PrepareRead, PerformTransactionRead,
         CancelTransactionRead, CompleteRead, CompleteFailedRead
<1>5. ASSUME NEW q, Starts(r, q), q.txn = t, MayCall(t),
             q.op \in Advancing, q.was = txn[t].status, q.was \in Unsettled \ {"absent"}
      PROVE  Begins(r)
  <2>1. Asked(q)
    BY <1>3, <1>5 DEF Asked, Advancing
  <2> QED BY <1>1, <1>4, <1>5, <2>1, StartBegins
<1>6. ASSUME NEW id \in ProviderIds, CreateTransactionRead(r, t, id)
      PROVE  Begins(r)
  <2> DEFINE q == [NoCall EXCEPT !.op = "create_txn", !.pc = "commit", !.txn = t, !.id = id,
                                 !.was = txn[t].status]
  <2>1. q.op = "create_txn" /\ q.txn = t /\ q.was = txn[t].status
    BY DEF Call
  <2>2. Starts(r, q) /\ MayCall(t) /\ txn[t].status = "initiated"
    BY <1>6 DEF CreateTransactionRead
  <2> HIDE DEF q
  <2> QED BY <1>5, <2>1, <2>2 DEF Unsettled, Advancing
<1>7. ASSUME NEW id \in ProviderIds, PrepareRead(r, t, id)
      PROVE  Begins(r)
  <2> DEFINE q == [NoCall EXCEPT !.op = "prepare", !.pc = "commit", !.txn = t, !.id = id,
                                 !.was = txn[t].status]
  <2>1. q.op = "prepare" /\ q.txn = t /\ q.was = txn[t].status
    BY DEF Call
  <2>2. Starts(r, q) /\ MayCall(t) /\ txn[t].status \in Unsettled \ {"absent"}
    BY <1>2, <1>7 DEF PrepareRead, Preparable, Unsettled, TxnStatuses
  <2> HIDE DEF q
  <2> QED BY <1>5, <2>1, <2>2 DEF Advancing
<1>8. ASSUME PerformTransactionRead(r, t) \/ CompleteRead(r, t)
      PROVE  Begins(r)
  <2>1. PICK p \in Payments, o \in {"perform", "complete"} :
          Starts(r, [NoCall EXCEPT !.op = o, !.pc = "lock", !.txn = t, !.pay = p,
                                   !.inv = txn[t].inv, !.amount = txn[t].amount,
                                   !.was = txn[t].status])
    BY <1>8 DEF PerformTransactionRead, CompleteRead
  <2> DEFINE q == [NoCall EXCEPT !.op = o, !.pc = "lock", !.txn = t, !.pay = p,
                                 !.inv = txn[t].inv, !.amount = txn[t].amount,
                                 !.was = txn[t].status]
  <2>2. q.op = o /\ q.txn = t /\ q.was = txn[t].status
    BY DEF Call
  <2>3. MayCall(t) /\ txn[t].status \in Unsettled \ {"absent"}
    BY <1>2, <1>8 DEF PerformTransactionRead, CompleteRead, Performable, Unsettled, TxnStatuses
  <2>4. Starts(r, q)
    BY <2>1
  <2> HIDE DEF q
  <2> QED BY <1>5, <2>2, <2>3, <2>4 DEF Advancing
<1>9. ASSUME CancelTransactionRead(r, t)
      PROVE  Begins(r)
  <2> DEFINE c == IF Reverses(txn[t].status, txn[t].payment) THEN "delete" ELSE "commit"
             q == [NoCall EXCEPT !.op = "cancel", !.txn = t, !.inv = txn[t].inv, !.pc = c,
                                 !.pay = txn[t].payment, !.was = txn[t].status]
  <2>1. Starts(r, q) /\ MayCall(t) /\ txn[t].provider_id # None /\ txn[t].status # "cancelled"
    BY <1>9 DEF CancelTransactionRead
  <2> HIDE DEF c
  <2>2. /\ q.op = "cancel" /\ q.txn = t
        /\ q.pay = txn[t].payment /\ q.was = txn[t].status
    BY DEF Call
  <2> HIDE DEF q
  <2>3. Asked(q)
    BY <1>3, <2>1, <2>2 DEF Asked, Advancing
  <2> QED BY <1>1, <1>4, <2>1, <2>3, StartBegins
<1>10. ASSUME CompleteFailedRead(r, t)
       PROVE  Begins(r)
  <2> DEFINE q == [NoCall EXCEPT !.op = "fail", !.pc = "commit", !.txn = t, !.was = txn[t].status]
  <2>1. q.op = "fail" /\ q.txn = t /\ q.was = txn[t].status
    BY DEF Call
  <2>2. Starts(r, q) /\ MayCall(t) /\ txn[t].status \in Unsettled \ {"absent"}
    BY <1>2, <1>10 DEF CompleteFailedRead, Unsettled, TxnStatuses
  <2> HIDE DEF q
  <2> QED BY <1>5, <2>1, <2>2 DEF Advancing
<1> QED BY <1>6, <1>7, <1>8, <1>9, <1>10 DEF ProviderCalls

\* Staff calls are about no transaction.
LEMMA StaffBegins ==
  ASSUME Bookkeeping, NEW r \in Requests,
         \/ \E i \in Invoices : StaffCalls(r, i)
         \/ \E p \in Payments : PaymentDestroyRead(r, p)
  PROVE  Begins(r)
<1> USE NoCallTyped, NoCallFields
<1>1. TypeOK
  BY DEF Bookkeeping
<1>2. UNCHANGED <<pay, txn>>
  BY DEF StaffCalls, PaymentCreateRead, PayLock, PaymentUpdateRead, InvoiceUpdateRead,
         PaymentDestroyRead
<1>3. ASSUME NEW q, Starts(r, q), q.txn = None,
             q.op \in {"create", "pay", "update", "invoice_update", "destroy"}
      PROVE  Begins(r)
  <2>1. Asked(q)
    BY <1>3 DEF Asked, Advancing
  <2> QED BY <1>1, <1>2, <1>3, <2>1, StartBegins
<1>4. ASSUME NEW i \in Invoices, NEW a \in Amounts, PaymentCreateRead(r, i, a) \/ PayLock(r, i, a)
      PROVE  Begins(r)
  <2>1. PICK p \in Payments, o \in {"create", "pay"} :
          Starts(r, [NoCall EXCEPT !.op = o, !.pc = "recompute", !.inv = i, !.pay = p,
                                   !.amount = a, !.total = inv[i].total,
                                   !.status = inv[i].status])
    BY <1>4 DEF PaymentCreateRead, PayLock
  <2> DEFINE q == [NoCall EXCEPT !.op = o, !.pc = "recompute", !.inv = i, !.pay = p,
                                 !.amount = a, !.total = inv[i].total, !.status = inv[i].status]
  <2>2. q.op = o /\ q.txn = None
    BY DEF Call
  <2>3. Starts(r, q)
    BY <2>1
  <2> HIDE DEF q
  <2> QED BY <1>3, <2>2, <2>3
<1>5. ASSUME NEW i \in Invoices, NEW a \in Amounts, NEW p \in Payments,
             PaymentUpdateRead(r, p, i, a)
      PROVE  Begins(r)
  <2> DEFINE q == [NoCall EXCEPT !.op = "update", !.pc = "commit", !.inv = i, !.pay = p,
                                 !.amount = a]
  <2>1. q.op = "update" /\ q.txn = None
    BY DEF Call
  <2>2. Starts(r, q)
    BY <1>5 DEF PaymentUpdateRead
  <2> HIDE DEF q
  <2> QED BY <1>3, <2>1, <2>2
<1>6. ASSUME NEW i \in Invoices, NEW n \in Totals, InvoiceUpdateRead(r, i, n)
      PROVE  Begins(r)
  <2> DEFINE q == [NoCall EXCEPT !.op = "invoice_update", !.pc = "commit", !.inv = i, !.total = n,
                                 !.status = inv[i].status]
  <2>1. q.op = "invoice_update" /\ q.txn = None
    BY DEF Call
  <2>2. Starts(r, q)
    BY <1>6 DEF InvoiceUpdateRead
  <2> HIDE DEF q
  <2> QED BY <1>3, <2>1, <2>2
<1>7. ASSUME NEW p \in Payments, PaymentDestroyRead(r, p)
      PROVE  Begins(r)
  <2> DEFINE i == pay[p].inv
             q == [NoCall EXCEPT !.op = "destroy", !.pc = "delete", !.inv = i, !.pay = p,
                                 !.total = inv[i].total, !.status = inv[i].status]
  <2>1. q.op = "destroy" /\ q.txn = None
    BY DEF Call
  <2>2. Starts(r, q)
    BY <1>7 DEF PaymentDestroyRead
  <2> HIDE DEF q
  <2> QED BY <1>3, <2>1, <2>2
<1> QED BY <1>4, <1>5, <1>6, <1>7 DEF StaffCalls

LEMMA CallProceeds ==
  ASSUME Bookkeeping, NEW r \in Requests, Proceeds(r)
  PROVE  Continues(r) \/ Updates(r) \/ Settles(r) \/ Cancels(r) \/ StaffWrites(r) \/ Leaves(r)
<1> DEFINE t == req[r].txn
<1>1. /\ req \in [Requests -> Call] /\ txn \in [Txns -> TxnRow] /\ req[r] \in Call
      /\ t \in Txns \cup {None} /\ TypeOK
  BY DEF Bookkeeping, TypeOK, Call
<1>2. CASE CreateTransactionSave(r) \/ PrepareSave(r)
  <2>1. Ends(r) /\ UNCHANGED pay /\ req[r].op \in {"create_txn", "prepare"}
    BY <1>2 DEF CreateTransactionSave, PrepareSave
  <2>2. UNCHANGED txn \/ Becomes(r, "pending", txn[t].payment)
    BY <1>1, <1>2, SavesBecome
  <2> QED BY <2>1, <2>2 DEF Leaves, Updates
<1>3. CASE CompleteFailedSave(r)
  <2>1. Becomes(r, "failed", txn[t].payment)
    BY <1>1, <1>3, SavesBecome
  <2> QED BY <1>3, <2>1 DEF CompleteFailedSave, Updates
<1>4. CASE PerformTransactionCommit(r) \/ CompleteCommit(r)
  <2>1. Becomes(r, "success", req[r].pay)
    BY <1>1, <1>4, SavesBecome
  <2> QED BY <1>4, <2>1 DEF PerformTransactionCommit, CompleteCommit, Settles
<1>5. CASE CancelTransactionCommit(r)
  <2>1. Becomes(r, "cancelled", IF Reverses(req[r].was, req[r].pay) THEN None ELSE req[r].pay)
    BY <1>1, <1>5, SavesBecome
  <2>2. CASE Reverses(req[r].was, req[r].pay)
    BY <1>5, <2>1, <2>2 DEF CancelTransactionCommit, Cancels
  <2>3. CASE ~Reverses(req[r].was, req[r].pay)
    BY <1>5, <2>1, <2>3 DEF CancelTransactionCommit, Cancels
  <2> QED BY <2>2, <2>3
<1>6. CASE CancelTransactionDelete(r) \/ PaymentDestroyDelete(r) \/ Recompute(r)
  <2>1. /\ UNCHANGED <<pay, txn>>
        /\ \/ req' = [req EXCEPT ![r].pc = "recompute", ![r].total = inv[req[r].inv].total,
                                 ![r].status = inv[req[r].inv].status]
           \/ req' = [req EXCEPT ![r].pc = "recompute"]
           \/ req' = [req EXCEPT ![r].pc = "commit",
                        ![r].write = IF StatusFor(OwnView(req[r]), req[r].total) # req[r].status
                                     THEN StatusFor(OwnView(req[r]), req[r].total) ELSE "none"]
    BY <1>6 DEF CancelTransactionDelete, PaymentDestroyDelete, Recompute
  <2> QED BY <1>1, <2>1 DEF Continues, Call
<1>7. CASE SettleLock(r)
  <2>1. /\ UNCHANGED <<pay, txn>>
        /\ \/ req' = [req EXCEPT ![r].pc = "recompute", ![r].total = inv[req[r].inv].total,
                                 ![r].status = inv[req[r].inv].status]
           \/ Ends(r)
    BY <1>7 DEF SettleLock
  <2> QED BY <1>1, <2>1 DEF Continues, Call, Leaves
<1>8. CASE PaymentCreateCommit(r) \/ PayCommit(r) \/ PaymentUpdateSave(r) \/ PaymentDestroyCommit(r)
  BY <1>8 DEF StaffWrites, PaymentCreateCommit, PayCommit, PaymentUpdateSave, PaymentDestroyCommit
<1>9. CASE InvoiceUpdateSave(r)
  BY <1>9 DEF InvoiceUpdateSave, Leaves
<1> QED BY <1>2, <1>3, <1>4, <1>5, <1>6, <1>7, <1>8, <1>9 DEF Proceeds

(***************************************************************************)
(* Every step is one of these, as far as transactions, their credits and   *)
(* the calls about them are concerned.                                     *)
(***************************************************************************)
LEMMA TransactionSteps ==
  ASSUME Bookkeeping, [Next]_vars
  PROVE  \/ UNCHANGED <<pay, txn, req>>
         \/ \E t \in Txns, i \in Invoices : Checkout(t, i)
         \/ \E r \in Requests :
              \/ Begins(r) \/ Continues(r) \/ Leaves(r)
              \/ Updates(r) \/ Settles(r) \/ Cancels(r) \/ StaffWrites(r)
<1>1. ASSUME NEW r \in Requests, Abort(r)
      PROVE  Leaves(r)
  BY <1>1 DEF Abort, Leaves
<1> QED BY <1>1, ProviderBegins, StaffBegins, CallProceeds DEF Next, vars, InvoiceDestroy

\* A payment that exists belongs to its transaction for good.
LEMMA CreditsKept ==
  ASSUME Bookkeeping, [Next]_vars, NEW p \in Payments, pay[p].state # "absent"
  PROVE  pay'[p].txn = pay[p].txn
<1>1. pay \in [Payments -> PaymentRow] /\ FreshReserved
  BY DEF Bookkeeping, TypeOK
<1>2. ASSUME NEW r \in Requests, NEW t, req[r].op \in Crediting, PaymentInserted(r, t)
      PROVE  pay'[p].txn = pay[p].txn
  <2>1. req[r].pay # p
    BY <1>1, <1>2 DEF FreshReserved
  <2> QED BY <1>1, <1>2, <2>1 DEF PaymentInserted
<1>3. ASSUME NEW r \in Requests, PaymentSoftDeleted(r)
      PROVE  pay'[p].txn = pay[p].txn
  BY <1>1, <1>3 DEF PaymentSoftDeleted, PaymentRow
<1>4. ASSUME NEW r \in Requests, PaymentUpdateSave(r)
      PROVE  pay'[p].txn = pay[p].txn
  BY <1>1, <1>4 DEF PaymentUpdateSave, PaymentRow
<1>5. ASSUME UNCHANGED pay
      PROVE  pay'[p].txn = pay[p].txn
  BY <1>5
<1>6. ASSUME NEW r \in Requests,
             Begins(r) \/ Continues(r) \/ Leaves(r) \/ Updates(r)
      PROVE  UNCHANGED pay
  BY <1>6 DEF Begins, Continues, Leaves, Updates
<1>7. ASSUME NEW r \in Requests, Settles(r) \/ Cancels(r) \/ StaffWrites(r)
      PROVE  pay'[p].txn = pay[p].txn
  BY <1>2, <1>3, <1>4, <1>5, <1>7 DEF Settles, Cancels, StaffWrites, Crediting
<1> QED BY <1>5, <1>6, <1>7, TransactionSteps DEF Checkout

-----------------------------------------------------------------------------
(* Transactions and calls name payments of their own *)

LEMMA LinksInit == Init => LinksAreOwn
<1> SUFFICES ASSUME Init PROVE LinksAreOwn
  OBVIOUS
<1> QED BY DEF Init, LinksAreOwn, NoTxn, NoCall

LEMMA LinksStep ==
  ASSUME Bookkeeping, LinksAreOwn, [Next]_vars
  PROVE  LinksAreOwn'
<1>1. /\ Bookkeeping' /\ FreshReserved
      /\ \A t \in Txns : txn[t].payment \in Payments \cup {None}
      /\ \A r \in Requests : req[r].pay \in Payments \cup {None}
      /\ \A r \in Requests : req[r].txn \in Txns \cup {None}
      /\ txn \in [Txns -> TxnRow] /\ pay \in [Payments -> PaymentRow] /\ req \in [Requests -> Call]
  BY BookkeepingStep DEF Bookkeeping, TypeOK, TxnRow, Call
\* Links that were there stay right.
<1>2. ASSUME NEW t \in Txns, txn[t].payment # None
      PROVE  txn[t].payment \in CreditsOf(t)'
  BY <1>1, <1>2, CreditsKept DEF LinksAreOwn, CreditsOf, FreshReserved
<1>3. ASSUME NEW r \in Requests, req[r].op = "cancel", req[r].pay # None
      PROVE  req[r].pay \in Payments /\ pay'[req[r].pay].txn = req[r].txn
  <2>1. req[r].pay \in Payments /\ pay[req[r].pay].txn = req[r].txn
    BY <1>1, <1>3 DEF LinksAreOwn, CreditsOf
  <2>2. pay[req[r].pay].state # "absent"
    BY <1>1, <1>3 DEF FreshReserved, Crediting
  <2> QED BY <2>1, <2>2, CreditsKept
\* What is left to show of a step: the row and the call it changes.
<1>4. ASSUME \A t \in Txns : \/ txn'[t].payment = txn[t].payment
                             \/ txn'[t].payment = None
                             \/ txn'[t].payment \in CreditsOf(t)',
             \A t \in Txns : txn'[t].status = "success" =>
                               \/ txn[t].status = "success" /\ txn'[t].payment = txn[t].payment
                               \/ txn'[t].payment # None,
             \A r \in Requests : req'[r].op = "cancel" =>
                               \/ /\ req[r].op = "cancel" /\ req'[r].pay = req[r].pay
                                  /\ req'[r].txn = req[r].txn
                               \/ /\ req'[r].txn \in Txns
                                  /\ req'[r].pay = txn[req'[r].txn].payment
      PROVE  LinksAreOwn'
  <2>1. \A t \in Txns : txn'[t].payment # None => txn'[t].payment \in CreditsOf(t)'
    BY <1>2, <1>4
  <2>2. \A t \in Txns : txn'[t].status = "success" => txn'[t].payment # None
    BY <1>4 DEF LinksAreOwn
  <2>3. ASSUME NEW r \in Requests, req'[r].op = "cancel", req'[r].pay # None
        PROVE  req'[r].pay \in Payments /\ pay'[req'[r].pay].txn = req'[r].txn
    <3>1. CASE req[r].op = "cancel" /\ req'[r].pay = req[r].pay /\ req'[r].txn = req[r].txn
      BY <1>3, <2>3, <3>1
    <3>2. CASE req'[r].txn \in Txns /\ req'[r].pay = txn[req'[r].txn].payment
      BY <1>2, <2>3, <3>2 DEF CreditsOf
    <3> QED BY <1>4, <2>3, <3>1, <3>2
  <2> QED BY <2>1, <2>2, <2>3 DEF LinksAreOwn, CreditsOf
<1>5. ASSUME UNCHANGED <<txn, req>>
      PROVE  LinksAreOwn'
  BY <1>4, <1>5
<1>6. ASSUME NEW t \in Txns, NEW i \in Invoices, Checkout(t, i)
      PROVE  LinksAreOwn'
  <2> DEFINE new == [NoTxn EXCEPT !.status = "initiated", !.inv = i,
                                  !.amount = invoice_balance(i)]
  <2>1. new.payment = None /\ new.status = "initiated"
    BY DEF NoTxn
  <2>2. txn' = [txn EXCEPT ![t] = new] /\ req' = req
    BY <1>6 DEF Checkout
  <2> HIDE DEF new
  <2> QED BY <1>1, <1>4, <2>1, <2>2
<1>7. ASSUME NEW r \in Requests, Begins(r) PROVE LinksAreOwn'
  <2>1. UNCHANGED txn /\ Asked(req'[r]) /\ \A s \in Requests \ {r} : req'[s] = req[s]
    BY <1>7 DEF Begins
  <2>2. req'[r].op = "cancel" => req'[r].txn \in Txns /\ req'[r].pay = txn[req'[r].txn].payment
    BY <2>1 DEF Asked
  <2> QED BY <1>4, <2>1, <2>2
<1>8. ASSUME NEW r \in Requests, Continues(r) PROVE LinksAreOwn'
  BY <1>4, <1>8 DEF Continues
<1>9. ASSUME NEW r \in Requests, Ends(r)
      PROVE  \A s \in Requests : req'[s].op = "cancel" =>
               req[s].op = "cancel" /\ req'[s].pay = req[s].pay /\ req'[s].txn = req[s].txn
  BY <1>1, <1>9, NoCallFields DEF Ends
<1>10. ASSUME NEW r \in Requests, Leaves(r) \/ StaffWrites(r) PROVE LinksAreOwn'
  <2>1. Ends(r) /\ UNCHANGED txn
    BY <1>10 DEF Leaves, StaffWrites
  <2> QED BY <1>4, <1>9, <2>1
<1>11. ASSUME NEW r \in Requests, Updates(r) PROVE LinksAreOwn'
  BY <1>4, <1>9, <1>11 DEF Updates, Becomes
<1>12. ASSUME NEW r \in Requests, Settles(r) PROVE LinksAreOwn'
  <2>1. PICK t \in Txns \cup {None}, p \in Payments \cup {None} : t = req[r].txn /\ p = req[r].pay
    BY <1>1
  <2>2. /\ Ends(r) /\ Becomes(r, "success", p) /\ req[r].op \in Crediting
        /\ pay' = [pay EXCEPT ![p] = [state |-> "live", inv |-> req[r].inv,
                                      amount |-> req[r].amount, txn |-> t]]
    BY <1>12, <2>1 DEF Settles, PaymentInserted, Crediting
  <2>3. p \in Payments
    BY <1>1, <2>1, <2>2 DEF FreshReserved
  <2>4. p \in CreditsOf(t)' /\ p # None
    BY <1>1, <2>2, <2>3, NoneAssumption DEF CreditsOf
  <2> QED BY <1>4, <1>9, <2>1, <2>2, <2>4 DEF Becomes
<1>13. ASSUME NEW r \in Requests, Cancels(r) PROVE LinksAreOwn'
  <2>1. PICK t \in Txns \cup {None} : t = req[r].txn
    BY <1>1
  <2>2. /\ Ends(r) /\ req[r].op = "cancel"
        /\ Becomes(r, "cancelled", None) \/ Becomes(r, "cancelled", req[r].pay)
    BY <1>13 DEF Cancels
  <2>3. req[r].pay # None => req[r].pay \in CreditsOf(t)'
    BY <1>3, <2>1, <2>2 DEF CreditsOf
  <2> QED BY <1>4, <1>9, <2>1, <2>2, <2>3 DEF Becomes
<1> QED BY <1>5, <1>6, <1>7, <1>8, <1>10, <1>11, <1>12, <1>13, TransactionSteps

(***************************************************************************)
(* A transaction, and a cancellation under way, only ever name a payment   *)
(* that this transaction's own webhook wrote: payment and link are saved   *)
(* in one commit (payme.py:154-169, click.py:158-177).                     *)
(***************************************************************************)
THEOREM LinksHold == Spec => [](Bookkeeping /\ LinksAreOwn)
<1>1. Init => Bookkeeping /\ LinksAreOwn
  BY BookkeepingInit, LinksInit
<1>2. (Bookkeeping /\ LinksAreOwn) /\ [Next]_vars => (Bookkeeping /\ LinksAreOwn)'
  BY BookkeepingStep, LinksStep
<1> QED BY <1>1, <1>2, PTL DEF Spec

(***************************************************************************)
(* A paid transaction names the payment its own webhook wrote, whatever    *)
(* calls overlap and whatever staff edit: no provider has to behave.       *)
(***************************************************************************)
THEOREM SuccessHasItsCredit == Spec => []SuccessNamesItsCredit
<1>1. LinksAreOwn => SuccessNamesItsCredit
  BY DEF LinksAreOwn, SuccessNamesItsCredit
<1> QED BY <1>1, LinksHold, PTL

-----------------------------------------------------------------------------
(* However a provider's calls overlap: a row is saved over an outcome its   *)
(* call has not read only by leaving a mark, and without one the money is   *)
(* what the status says                                                     *)

LEMMA CallsInit == Init => IInvCalls
<1> SUFFICES ASSUME Init PROVE IInvCalls
  OBVIOUS
<1>1. \A p \in Payments : pay[p].txn = None
  BY DEF Init, NoPayment
<1>2. \A t \in Txns : CreditsOf(t) = {}
  BY <1>1, NoneAssumption DEF CreditsOf
<1>3. CreditsInStep
  BY <1>2 DEF Init, CreditsInStep, NoTxn
<1>4. CallsRead
  BY DEF Init, CallsRead, NoCall, Advancing
<1> QED BY <1>3, <1>4, BookkeepingInit DEF IInvCalls

\* What a call that cancels has read of its row, as CallsRead has it.
Knows(s) ==
  ~txn[req[s].txn].overwritten =>
    /\ req[s].was \in Unsettled => req[s].pay = None
    /\ req[s].was = "success" =>
         \/ txn[req[s].txn].status = "success" /\ txn[req[s].txn].payment = req[s].pay
         \/ txn[req[s].txn].status = "cancelled"

LEMMA CallsReadStep ==
  ASSUME IInvCalls, [Next]_vars
  PROVE  CallsRead'
<1>1. /\ req \in [Requests -> Call] /\ txn \in [Txns -> TxnRow] /\ Bookkeeping
      /\ CallsRead /\ CreditsInStep
      /\ \A s \in Requests : req[s].txn \in Txns \cup {None}
      /\ \A t \in Txns : txn[t].status \in TxnStatuses
  BY DEF IInvCalls, Bookkeeping, TypeOK, Call, TxnRow
<1>2. \A s \in Requests : req[s].op = "cancel" => req[s].txn \in Txns /\ Knows(s)
  BY <1>1 DEF CallsRead, Knows
<1>3. CASE UNCHANGED <<txn, req>>
  BY <1>1, <1>3 DEF CallsRead
<1>4. ASSUME NEW t \in Txns, NEW i \in Invoices, Checkout(t, i) PROVE CallsRead'
  <2>1. /\ txn' = [txn EXCEPT ![t] = [NoTxn EXCEPT !.status = "initiated", !.inv = i,
                                                   !.amount = invoice_balance(i)]]
        /\ req' = req /\ txn[t].status = "absent"
    BY <1>4 DEF Checkout
  <2>2. \A u \in Txns \ {t} : txn'[u] = txn[u]
    BY <1>1, <2>1
  <2>3. ASSUME NEW s \in Requests, req[s].op = "cancel" PROVE Knows(s)'
    <3>1. CASE req[s].txn = t
      <4>1. ~txn[t].overwritten
        BY <1>1, <2>1 DEF CreditsInStep
      <4> QED BY <1>2, <2>1, <2>3, <3>1, <4>1 DEF Knows
    <3>2. CASE req[s].txn # t
      BY <1>2, <2>1, <2>2, <2>3, <3>2 DEF Knows
    <3> QED BY <3>1, <3>2
  <2> QED BY <1>1, <2>1, <2>3 DEF CallsRead, Knows
<1>5. ASSUME NEW r \in Requests, Begins(r) PROVE CallsRead'
  <2>1. UNCHANGED <<pay, txn>> /\ Asked(req'[r]) /\ \A s \in Requests \ {r} : req'[s] = req[s]
    BY <1>5 DEF Begins
  <2>2. /\ req'[r].txn # None => req'[r].op \in Advancing \cup {"cancel"}
        /\ req'[r].op \in Advancing => req'[r].txn # None /\ req'[r].was \in Unsettled \ {"absent"}
    BY <2>1 DEF Asked
  <2>3. ASSUME req'[r].op = "cancel"
        PROVE  req'[r].txn # None /\ req'[r].was \notin {"absent", "cancelled"} /\ Knows(r)'
    <3>1. PICK t \in Txns : t = req'[r].txn
      BY <2>1, <2>3 DEF Asked
    <3>2. /\ req'[r].txn # None /\ req'[r].was # "cancelled" /\ txn[t].provider_id # None
          /\ req'[r].was = txn[t].status /\ req'[r].pay = txn[t].payment
      BY <2>1, <2>3, <3>1 DEF Asked
    <3>3. /\ txn[t].status # "absent"
          /\ ~txn[t].overwritten /\ txn[t].status \in Unsettled => txn[t].payment = None
      BY <1>1, <3>2 DEF CreditsInStep
    <3> QED BY <2>1, <3>1, <3>2, <3>3 DEF Knows
  <2>4. ASSUME NEW s \in Requests \ {r}, req[s].op = "cancel" PROVE Knows(s)'
    BY <1>2, <2>1, <2>4 DEF Knows
  <2> QED BY <1>1, <2>1, <2>2, <2>3, <2>4 DEF CallsRead, Knows
<1>6. ASSUME NEW r \in Requests, Continues(r) PROVE CallsRead'
  BY <1>1, <1>6 DEF Continues, CallsRead
\* When r ends, what is left to show is what the other calls that cancel know.
<1>7. ASSUME NEW r \in Requests, Ends(r), \A s \in Requests \ {r} : req[s].op = "cancel" => Knows(s)'
      PROVE  CallsRead'
  <2>1. req'[r].op = "none" /\ req'[r].txn = None /\ \A s \in Requests \ {r} : req'[s] = req[s]
    BY <1>1, <1>7, NoCallFields DEF Ends
  <2> QED BY <1>1, <1>7, <2>1 DEF CallsRead, Knows, Advancing
<1>8. ASSUME NEW r \in Requests, Ends(r), UNCHANGED txn PROVE CallsRead'
  <2>1. \A s \in Requests \ {r} : req'[s] = req[s]
    BY <1>1, <1>8 DEF Ends
  <2> QED BY <1>2, <1>7, <1>8, <2>1 DEF Knows
<1>9. ASSUME NEW r \in Requests, Ends(r), NEW o, NEW p, Becomes(r, o, p),
             o = "cancelled" \/ req[r].was \in Unsettled
      PROVE  CallsRead'
  <2>1. \A s \in Requests \ {r} : req'[s] = req[s]
    BY <1>1, <1>9 DEF Ends
  <2>2. ASSUME NEW s \in Requests \ {r}, req[s].op = "cancel" PROVE Knows(s)'
    <3>1. PICK t \in Txns : t = req[s].txn /\ req'[s].txn = t
      BY <1>2, <2>1, <2>2
    <3>2. CASE t # req[r].txn
      BY <1>2, <1>9, <2>1, <2>2, <3>1, <3>2 DEF Knows, Becomes
    <3>3. CASE t = req[r].txn
      <4>1. /\ txn'[t].status = o
            /\ txn'[t].overwritten <=> \/ txn[t].overwritten
                                       \/ txn[t].status \in {"success", "cancelled"} /\ txn[t].status # req[r].was
        BY <1>9, <3>3 DEF Becomes
      <4> QED BY <1>2, <1>9, <2>1, <2>2, <3>1, <4>1 DEF Knows, Unsettled
    <3> QED BY <3>2, <3>3
  <2> QED BY <1>7, <1>9, <2>2
<1>10. ASSUME NEW r \in Requests, Updates(r) PROVE CallsRead'
  BY <1>1, <1>9, <1>10 DEF Updates, CallsRead, Advancing
<1>11. ASSUME NEW r \in Requests, Settles(r) PROVE CallsRead'
  BY <1>1, <1>9, <1>11 DEF Settles, CallsRead, Advancing
<1>12. ASSUME NEW r \in Requests, Cancels(r) PROVE CallsRead'
  BY <1>9, <1>12 DEF Cancels
<1>13. ASSUME NEW r \in Requests, Leaves(r) \/ StaffWrites(r) PROVE CallsRead'
  BY <1>8, <1>13 DEF Leaves, StaffWrites
<1> QED BY <1>1, <1>3, <1>4, <1>5, <1>6, <1>10, <1>11, <1>12, <1>13, TransactionSteps

\* CreditsInStep, one row at a time.
InStep(t) ==
  /\ txn[t].provider_id # None => txn[t].status # "absent"
  /\ txn[t].status = "absent" => ~txn[t].overwritten
  /\ ~txn[t].overwritten =>
       /\ txn[t].status \in Unsettled => CreditsOf(t) = {} /\ txn[t].payment = None
       /\ txn[t].status = "success" => txn[t].payment # None /\ CreditsOf(t) = {txn[t].payment}
       /\ \A p, q \in CreditsOf(t) : p = q

LEMMA CreditsStep ==
  ASSUME IInvCalls, [Next]_vars
  PROVE  CreditsInStep'
<1>1. /\ req \in [Requests -> Call] /\ txn \in [Txns -> TxnRow] /\ pay \in [Payments -> PaymentRow]
      /\ Bookkeeping /\ FreshReserved /\ CallsRead
      /\ \A s \in Requests : req[s].txn \in Txns \cup {None}
      /\ \A t \in Txns : txn[t].payment \in Payments \cup {None} /\ txn[t].status \in TxnStatuses
      /\ \A t \in Txns : InStep(t)
  BY DEF IInvCalls, Bookkeeping, TypeOK, Call, TxnRow, CreditsInStep, InStep
<1>2. ASSUME NEW t \in Txns, txn'[t] = txn[t], \A p \in Payments : pay'[p].txn = t => pay[p].txn = t
      PROVE  InStep(t)'
  <2>1. CreditsOf(t)' \subseteq CreditsOf(t)
    BY <1>2 DEF CreditsOf
  <2>2. ASSUME txn[t].payment # None PROVE txn[t].payment \in Payments
                                           /\ pay[txn[t].payment].state # "absent"
    BY <1>1, <2>2 DEF FreshReserved
  <2>3. InStep(t)
    BY <1>1
  <2>4. ~txn[t].overwritten /\ txn[t].status = "success" => txn[t].payment \in CreditsOf(t)'
    <3>1. SUFFICES ASSUME ~txn[t].overwritten, txn[t].status = "success"
                   PROVE  txn[t].payment \in CreditsOf(t)'
      OBVIOUS
    <3>2. txn[t].payment # None /\ txn[t].payment \in CreditsOf(t)
      BY <2>3, <3>1 DEF InStep
    <3>3. pay'[txn[t].payment].txn = pay[txn[t].payment].txn
      BY <1>1, <2>2, <3>2, CreditsKept
    <3> QED BY <2>2, <3>2, <3>3 DEF CreditsOf
  <2> QED BY <1>2, <2>1, <2>3, <2>4 DEF InStep
\* A row that is marked, or whose money stays where it is, or that has none yet.
<1>3. ASSUME NEW t \in Txns, txn'[t].status # "absent",
             \/ txn'[t].overwritten
             \/ CreditsOf(t)' = {} /\ txn'[t].payment = None /\ txn'[t].status # "success"
             \/ /\ txn'[t].status = "cancelled"
                /\ \A p, q \in CreditsOf(t)' : p = q
             \/ /\ txn'[t].status = "success" /\ txn'[t].payment # None
                /\ CreditsOf(t)' = {txn'[t].payment}
      PROVE  InStep(t)'
  BY <1>3 DEF InStep, Unsettled
<1>4. ASSUME \A t \in Txns : InStep(t)' PROVE CreditsInStep'
  BY <1>4 DEF CreditsInStep, InStep
<1>5. CASE UNCHANGED <<pay, txn>>
  BY <1>2, <1>4, <1>5
<1>6. ASSUME NEW t \in Txns, NEW i \in Invoices, Checkout(t, i) PROVE CreditsInStep'
  <2> DEFINE new == [NoTxn EXCEPT !.status = "initiated", !.inv = i,
                                  !.amount = invoice_balance(i)]
  <2>1. new.status = "initiated" /\ new.payment = None
    BY DEF NoTxn
  <2>2. txn' = [txn EXCEPT ![t] = new] /\ pay' = pay /\ txn[t].status = "absent"
    BY <1>6 DEF Checkout
  <2> HIDE DEF new
  <2>3. CreditsOf(t)' = {}
    <3>1. CreditsOf(t) = {}
      BY <1>1, <2>2 DEF InStep, Unsettled
    <3> QED BY <2>2, <3>1 DEF CreditsOf
  <2>4. InStep(t)'
    BY <1>1, <1>3, <2>1, <2>2, <2>3
  <2>5. \A u \in Txns \ {t} : InStep(u)'
    BY <1>1, <1>2, <2>2
  <2> QED BY <1>4, <2>4, <2>5
<1>7. ASSUME NEW r \in Requests, NEW t \in Txns, t = req[r].txn, NEW o, NEW p, Becomes(r, o, p),
             o = "cancelled" \/ req[r].was \in Unsettled
      PROVE  /\ txn'[t].status = o /\ txn'[t].payment = p
             /\ ~txn'[t].overwritten => ~txn[t].overwritten
             /\ ~txn'[t].overwritten => txn[t].status \in Unsettled \/ txn[t].status = req[r].was
             /\ ~txn'[t].overwritten /\ o # "cancelled" => txn[t].status \in Unsettled
             /\ \A u \in Txns \ {t} : txn'[u] = txn[u]
  BY <1>1, <1>7 DEF Becomes, Unsettled, TxnStatuses
<1>8. ASSUME NEW r \in Requests, Updates(r) PROVE CreditsInStep'
  <2>1. PICK t \in Txns : t = req[r].txn /\ req[r].was \in Unsettled
    BY <1>1, <1>8 DEF Updates, CallsRead, Advancing
  <2>2. PICK o \in {"pending", "failed"} : Becomes(r, o, txn[t].payment) /\ UNCHANGED pay
    BY <1>8, <2>1 DEF Updates
  <2>3. /\ txn'[t].status = o /\ txn'[t].payment = txn[t].payment
        /\ ~txn'[t].overwritten => ~txn[t].overwritten /\ txn[t].status \in Unsettled
        /\ \A u \in Txns \ {t} : txn'[u] = txn[u]
    BY <1>7, <2>1, <2>2
  <2>4. CreditsOf(t)' = CreditsOf(t)
    BY <2>2 DEF CreditsOf
  <2>5. InStep(t)'
    BY <1>1, <1>3, <2>3, <2>4 DEF InStep
  <2>6. \A u \in Txns \ {t} : InStep(u)'
    BY <1>2, <2>2, <2>3
  <2> QED BY <1>4, <2>5, <2>6
<1>9. ASSUME NEW r \in Requests, Settles(r) PROVE CreditsInStep'
  <2>1. PICK t \in Txns, p \in Payments : t = req[r].txn /\ p = req[r].pay /\ req[r].was \in Unsettled
    <3>1. req[r].op \in Crediting /\ req[r].op \in Advancing
      BY <1>9 DEF Settles, Crediting, Advancing
    <3>2. req[r].pay \in Payments
      BY <1>1, <3>1 DEF FreshReserved, Call
    <3> QED BY <1>1, <3>1, <3>2 DEF CallsRead
  <2>2. /\ Becomes(r, "success", p)
        /\ pay' = [pay EXCEPT ![p] = [state |-> "live", inv |-> req[r].inv,
                                      amount |-> req[r].amount, txn |-> t]]
    BY <1>9, <2>1 DEF Settles, PaymentInserted
  <2>3. /\ txn'[t].status = "success" /\ txn'[t].payment = p
        /\ ~txn'[t].overwritten => ~txn[t].overwritten /\ txn[t].status \in Unsettled
        /\ \A u \in Txns \ {t} : txn'[u] = txn[u]
    BY <1>7, <2>1, <2>2
  <2>4. pay'[p].txn = t /\ \A q \in Payments \ {p} : pay'[q] = pay[q]
    BY <1>1, <2>2
  <2>5. CreditsOf(t) = {} => CreditsOf(t)' = {p}
    BY <2>4 DEF CreditsOf
  <2>6. ~txn'[t].overwritten => CreditsOf(t) = {}
    BY <1>1, <2>3 DEF InStep
  <2>7. InStep(t)'
    BY <1>3, <2>3, <2>5, <2>6, NoneAssumption
  <2>8. \A u \in Txns \ {t} : \A q \in Payments : pay'[q].txn = u => pay[q].txn = u
    BY <2>4
  <2>9. \A u \in Txns \ {t} : InStep(u)'
    BY <1>2, <2>3, <2>8
  <2> QED BY <1>4, <2>7, <2>9
<1>10. ASSUME NEW r \in Requests, Cancels(r) PROVE CreditsInStep'
  <2>1. PICK t \in Txns : t = req[r].txn
    BY <1>1, <1>10 DEF Cancels, CallsRead
  <2>2. PICK p : /\ Becomes(r, "cancelled", p)
                 /\ UNCHANGED pay \/ PaymentSoftDeleted(r)
    BY <1>10 DEF Cancels
  <2>3. /\ txn'[t].status = "cancelled"
        /\ ~txn'[t].overwritten => ~txn[t].overwritten
        /\ \A u \in Txns \ {t} : txn'[u] = txn[u]
    BY <1>7, <2>1, <2>2
  <2>4. \A q \in Payments : pay'[q].txn = pay[q].txn
    BY <1>1, <2>2 DEF PaymentSoftDeleted, PaymentRow
  <2>5. CreditsOf(t)' = CreditsOf(t)
    BY <2>4 DEF CreditsOf
  <2>6. InStep(t)'
    BY <1>1, <1>3, <2>3, <2>5 DEF InStep
  <2>7. \A u \in Txns \ {t} : InStep(u)'
    BY <1>2, <2>3, <2>4
  <2> QED BY <1>4, <2>6, <2>7
<1>11. ASSUME NEW r \in Requests, StaffWrites(r) PROVE CreditsInStep'
  <2>1. UNCHANGED txn
    BY <1>11 DEF StaffWrites
  <2>2. ASSUME NEW t \in Txns, NEW q \in Payments, pay'[q].txn = t PROVE pay[q].txn = t
    <3>1. t # None
      BY NoneAssumption
    <3>2. CASE PaymentInserted(r, None)
      BY <1>1, <2>2, <3>1, <3>2 DEF PaymentInserted
    <3>3. CASE PaymentSoftDeleted(r)
      BY <1>1, <2>2, <3>3 DEF PaymentSoftDeleted, PaymentRow
    <3>4. CASE PaymentUpdateSave(r)
      BY <1>1, <2>2, <3>4 DEF PaymentUpdateSave, PaymentRow
    <3> QED BY <1>11, <3>2, <3>3, <3>4 DEF StaffWrites
  <2> QED BY <1>2, <1>4, <2>1, <2>2
<1> QED BY <1>1, <1>5, <1>6, <1>8, <1>9, <1>10, <1>11, TransactionSteps
       DEF Begins, Continues, Leaves

LEMMA CallsStep == IInvCalls /\ [Next]_vars => IInvCalls'
<1>1. ASSUME IInvCalls, [Next]_vars PROVE IInvCalls'
  <2>1. Bookkeeping'
    BY <1>1, BookkeepingStep DEF IInvCalls
  <2> QED BY <1>1, <2>1, CallsReadStep, CreditsStep DEF IInvCalls
<1> QED BY <1>1

(***************************************************************************)
(* Unless a row is marked as saved over an outcome its call had not read,  *)
(* a transaction's status says what it has brought; staff may edit         *)
(* anything meanwhile, and no provider has to wait for an answer.          *)
(***************************************************************************)
THEOREM OutcomesInStep == Spec => []IInvCalls
BY CallsInit, CallsStep, PTL DEF Spec

(***************************************************************************)
(* One checkout is credited twice only if a call saved its row over an     *)
(* outcome it had not read.  A replay that comes after the answer, a late  *)
(* call, a payment staff delete or move never do that.                     *)
(***************************************************************************)
THEOREM NoDoubleCredit == Spec => []CreditedTwiceOnlyOverwritten
<1>1. ASSUME IInvCalls, NEW t \in Txns, ~txn[t].overwritten PROVE Cardinality(CreditsOf(t)) <= 1
  <2>1. \A p, q \in CreditsOf(t) : p = q
    BY <1>1 DEF IInvCalls, CreditsInStep
  <2>2. CASE CreditsOf(t) = {}
    BY <2>2, FS_EmptySet
  <2>3. CASE CreditsOf(t) # {}
    <3>1. PICK p : p \in CreditsOf(t)
      BY <2>3
    <3>2. CreditsOf(t) = {p}
      BY <2>1, <3>1
    <3>3. Cardinality({p}) = 1
      BY FS_Singleton
    <3> QED BY <3>2, <3>3
  <2> QED BY <2>2, <2>3
<1>2. IInvCalls => CreditedTwiceOnlyOverwritten
  BY <1>1 DEF CreditedTwiceOnlyOverwritten
<1> QED BY <1>2, OutcomesInStep, PTL

(***************************************************************************)
(* No late or repeated call reopens a settled transaction, except one that *)
(* had read it before: success is only left for cancelled, and cancelled   *)
(* is final, unless the row is marked.                                     *)
(***************************************************************************)
THEOREM SettlementIsFinal == Spec => SettledIsFinal
<1>1. ASSUME IInvCalls, [Next]_vars, NEW t \in Txns, ~txn'[t].overwritten
      PROVE  /\ txn[t].status = "success" => txn'[t].status \in {"success", "cancelled"}
             /\ txn[t].status = "cancelled" => txn'[t].status = "cancelled"
  <2>1. Bookkeeping /\ CallsRead /\ txn \in [Txns -> TxnRow]
    BY <1>1 DEF IInvCalls, Bookkeeping, TypeOK
  <2>2. CASE txn'[t] = txn[t]
    BY <2>2
  <2>3. ASSUME NEW u \in Txns, NEW i \in Invoices, Checkout(u, i)
        PROVE  txn[t].status \in {"success", "cancelled"} => txn'[t] = txn[t]
    BY <2>1, <2>3 DEF Checkout
  <2>4. ASSUME NEW r \in Requests, Updates(r) \/ Settles(r)
        PROVE  txn[t].status \in {"success", "cancelled"} => txn'[t] = txn[t]
    <3>1. req[r].was \in Unsettled
      BY <2>1, <2>4 DEF Updates, Settles, CallsRead, Advancing
    <3>2. PICK o, p : Becomes(r, o, p)
      BY <2>4 DEF Updates, Settles
    <3> QED BY <1>1, <3>1, <3>2 DEF Becomes, Unsettled
  <2>5. ASSUME NEW r \in Requests, Cancels(r)
        PROVE  txn'[t] = txn[t] \/ txn'[t].status = "cancelled"
    BY <2>5 DEF Cancels, Becomes
  <2> QED BY <1>1, <2>1, <2>2, <2>3, <2>4, <2>5, TransactionSteps
         DEF Begins, Continues, Leaves, StaffWrites
<1>2. IInvCalls /\ [Next]_vars =>
        [\A t \in Txns : txn'[t].overwritten \/
           /\ txn[t].status = "success" => txn'[t].status \in {"success", "cancelled"}
           /\ txn[t].status = "cancelled" => txn'[t].status = "cancelled"]_vars
  BY <1>1
<1> QED BY <1>2, OutcomesInStep, PTL DEF Spec, SettledIsFinal

(***************************************************************************)
(* Where payments are not edited, a cancelled transaction leaves no money  *)
(* behind, unless it was cancelled, or performed, over what the call had   *)
(* not read.  An edit would bring its deleted payment back                 *)
(* (instance.save() writes deleted_at = NULL).                             *)
(***************************************************************************)
THEOREM CancelledIsUncredited ==
  ASSUME "update" \notin AdminOps
  PROVE  Spec => []CancelledMeansUncredited
<1> DEFINE Inv == IInvCalls /\ CancelledMeansUncredited
<1>1. Init => Inv
  BY CallsInit DEF Init, CancelledMeansUncredited, NoTxn
<1>2. ASSUME Inv, [Next]_vars PROVE CancelledMeansUncredited'
  <2>1. /\ Bookkeeping /\ CallsRead /\ CreditsInStep /\ FreshReserved
        /\ pay \in [Payments -> PaymentRow] /\ txn \in [Txns -> TxnRow]
        /\ \A t \in Txns : txn[t].status \in TxnStatuses
        /\ \A r \in Requests : req[r].op \in AllAdminOps => req[r].op \in AdminOps
        /\ \A r \in Requests : req[r].txn \in Txns \cup {None}
    BY <1>2 DEF IInvCalls, Bookkeeping, TypeOK, TxnRow, OpsInUse, Call
  <2>2. SUFFICES ASSUME NEW t \in Txns, txn'[t].status = "cancelled", ~txn'[t].overwritten,
                        NEW p \in Payments, pay'[p].txn = t, pay'[p].state = "live"
                 PROVE  FALSE
    BY DEF CancelledMeansUncredited, LiveCreditsOf, CreditsOf
  <2>3. t # None
    BY NoneAssumption
  <2>4. txn[t].status = "cancelled" /\ ~txn[t].overwritten => ~(pay[p].txn = t /\ pay[p].state = "live")
    BY <1>2 DEF CancelledMeansUncredited, LiveCreditsOf, CreditsOf
  <2>5. CASE UNCHANGED <<pay, txn>>
    BY <2>2, <2>4, <2>5
  <2>6. ASSUME NEW u \in Txns, NEW i \in Invoices, Checkout(u, i) PROVE FALSE
    <3> DEFINE new == [NoTxn EXCEPT !.status = "initiated", !.inv = i,
                                    !.amount = invoice_balance(i)]
    <3>1. new.status = "initiated"
      BY DEF NoTxn
    <3>2. txn' = [txn EXCEPT ![u] = new] /\ pay' = pay
      BY <2>6 DEF Checkout
    <3> HIDE DEF new
    <3> QED BY <2>1, <2>2, <2>4, <3>1, <3>2
  <2>7. ASSUME NEW r \in Requests, NEW o, NEW q, Becomes(r, o, q), o # "cancelled"
        PROVE  req[r].txn # t /\ txn'[t] = txn[t]
    BY <2>2, <2>7 DEF Becomes
  <2>8. ASSUME NEW r \in Requests, Updates(r) PROVE FALSE
    <3>1. PICK o \in {"pending", "failed"} : Becomes(r, o, txn[req[r].txn].payment) /\ UNCHANGED pay
      BY <2>8 DEF Updates
    <3> QED BY <2>2, <2>4, <2>7, <3>1
  <2>9. ASSUME NEW r \in Requests, Settles(r) PROVE FALSE
    <3>1. req[r].txn # t /\ txn'[t] = txn[t]
      BY <2>7, <2>9 DEF Settles
    <3>2. pay'[p] = pay[p]
      BY <2>1, <2>2, <2>9, <3>1 DEF Settles, PaymentInserted
    <3> QED BY <2>2, <2>4, <3>1, <3>2
  <2>10. ASSUME NEW r \in Requests, Cancels(r) PROVE FALSE
    <3>1. PICK u \in Txns : u = req[r].txn
      BY <2>1, <2>10 DEF Cancels, CallsRead
    <3>2. PICK q : Becomes(r, "cancelled", q)
      BY <2>10 DEF Cancels
    <3>3. pay'[p].txn = pay[p].txn /\ (pay'[p].state = "live" => pay[p].state = "live")
      BY <2>1, <2>10 DEF Cancels, PaymentSoftDeleted, PaymentRow
    <3>4. u = t /\ ~txn[t].overwritten /\ txn[t].status # "cancelled"
      <4>1. u = t
        BY <2>2, <2>4, <3>1, <3>2, <3>3 DEF Becomes
      <4>2. ~txn[t].overwritten
        BY <2>2, <3>1, <3>2, <4>1 DEF Becomes
      <4> QED BY <2>2, <2>4, <3>3, <4>1, <4>2
    <3>5. p \in CreditsOf(t)
      BY <2>2, <3>3 DEF CreditsOf
    <3>6. txn[t].status = "success" /\ txn[t].payment = p
      BY <2>1, <3>4, <3>5 DEF CreditsInStep, Unsettled, TxnStatuses
    <3>7. req[r].was = "success"
      BY <2>2, <3>1, <3>2, <3>4, <3>6 DEF Becomes
    <3>8. Reverses(req[r].was, req[r].pay) /\ req[r].pay = p
      BY <2>1, <2>10, <3>1, <3>4, <3>6, <3>7, NoneAssumption DEF Cancels, CallsRead, Reverses
    <3>9. pay'[p].state = "deleted"
      BY <2>1, <2>10, <3>8 DEF Cancels, PaymentSoftDeleted, PaymentRow
    <3> QED BY <2>2, <3>9
  <2>11. ASSUME NEW r \in Requests, StaffWrites(r) PROVE FALSE
    <3>1. UNCHANGED txn /\ (PaymentInserted(r, None) \/ PaymentSoftDeleted(r))
      BY <2>1, <2>11 DEF StaffWrites, PaymentUpdateSave, AllAdminOps
    <3>2. CASE PaymentInserted(r, None)
      BY <2>1, <2>2, <2>3, <2>4, <3>1, <3>2 DEF PaymentInserted
    <3>3. CASE PaymentSoftDeleted(r)
      BY <2>1, <2>2, <2>4, <3>1, <3>3 DEF PaymentSoftDeleted, PaymentRow
    <3> QED BY <3>1, <3>2, <3>3
  <2> QED BY <1>2, <2>1, <2>5, <2>6, <2>8, <2>9, <2>10, <2>11, TransactionSteps
         DEF Begins, Continues, Leaves
<1>3. Inv /\ [Next]_vars => Inv'
  BY <1>2, CallsStep
<1>4. Inv => CancelledMeansUncredited
  OBVIOUS
<1> QED BY <1>1, <1>3, <1>4, PTL DEF Spec

-----------------------------------------------------------------------------
(* A provider that waits for our answer: one call at a time per transaction, *)
(* so what the call read of the row is true until it commits                 *)

LEMMA SerialInit == Init => IInvSerial
<1> SUFFICES ASSUME Init PROVE IInvSerial
  OBVIOUS
<1>1. OneCallEach /\ ReadsHold
  BY DEF Init, OneCallEach, ReadsHold, NoCall, NoTxn
<1> QED BY <1>1, CallsInit DEF IInvSerial

LEMMA OneCallStep ==
  ASSUME SerialProvider, IInvSerial, [Next]_vars
  PROVE  OneCallEach'
<1>1. req \in [Requests -> Call] /\ OneCallEach /\ Bookkeeping
  BY DEF IInvSerial, IInvCalls, Bookkeeping, TypeOK
<1>2. CASE UNCHANGED req
  BY <1>1, <1>2 DEF OneCallEach
<1>3. ASSUME NEW r \in Requests, Begins(r) PROVE OneCallEach'
  <2>1. /\ \A s \in Requests \ {r} : req'[s] = req[s]
        /\ req'[r].txn # None => \A s \in Requests : req[s].txn # req'[r].txn
    BY <1>3 DEF Begins, Asked, MayCall
  <2> QED BY <1>1, <2>1 DEF OneCallEach
<1>4. ASSUME NEW r \in Requests, Continues(r) PROVE OneCallEach'
  <2>1. \A s \in Requests : req'[s].txn = req[s].txn
    BY <1>4 DEF Continues
  <2> QED BY <1>1, <2>1 DEF OneCallEach
<1>5. ASSUME NEW r \in Requests, Ends(r) PROVE OneCallEach'
  <2>1. req'[r].txn = None /\ \A s \in Requests \ {r} : req'[s] = req[s]
    BY <1>1, <1>5, NoCallFields DEF Ends
  <2> QED BY <1>1, <2>1 DEF OneCallEach
<1> QED BY <1>1, <1>2, <1>3, <1>4, <1>5, TransactionSteps
       DEF Checkout, Leaves, Updates, Settles, Cancels, StaffWrites

LEMMA ReadsStep ==
  ASSUME IInvSerial, [Next]_vars
  PROVE  ReadsHold'
<1>1. /\ req \in [Requests -> Call] /\ txn \in [Txns -> TxnRow] /\ Bookkeeping
      /\ OneCallEach /\ ReadsHold /\ CallsRead /\ CreditsInStep
      /\ \A s \in Requests : req[s].txn \in Txns \cup {None}
  BY DEF IInvSerial, IInvCalls, Bookkeeping, TypeOK, Call
<1>2. CASE UNCHANGED <<txn, req>>
  BY <1>1, <1>2 DEF ReadsHold
<1>3. ASSUME NEW t \in Txns, NEW i \in Invoices, Checkout(t, i) PROVE ReadsHold'
  <2> DEFINE new == [NoTxn EXCEPT !.status = "initiated", !.inv = i,
                                  !.amount = invoice_balance(i)]
  <2>1. new.overwritten = FALSE
    BY DEF NoTxn
  <2>2. txn' = [txn EXCEPT ![t] = new] /\ req' = req /\ txn[t].status = "absent"
    BY <1>3 DEF Checkout
  <2> HIDE DEF new
  <2>3. \A u \in Txns : txn'[u] = IF u = t THEN new ELSE txn[u]
    BY <1>1, <2>2
  <2>4. ASSUME NEW s \in Requests, req[s].txn # None PROVE req[s].txn # t
    <3>1. req[s].was # "absent" /\ req[s].was = txn[req[s].txn].status
      BY <1>1, <2>4 DEF CallsRead, ReadsHold
    <3> QED BY <2>2, <3>1
  <2>5. \A s \in Requests : req[s].op = "cancel" => req[s].txn # None
    BY <1>1 DEF CallsRead
  <2> QED BY <1>1, <2>1, <2>2, <2>3, <2>4, <2>5 DEF ReadsHold
<1>4. ASSUME NEW r \in Requests, Begins(r) PROVE ReadsHold'
  <2>1. UNCHANGED txn /\ Asked(req'[r]) /\ \A s \in Requests \ {r} : req'[s] = req[s]
    BY <1>4 DEF Begins
  <2> QED BY <1>1, <2>1 DEF Asked, ReadsHold
<1>5. ASSUME NEW r \in Requests, Continues(r) PROVE ReadsHold'
  BY <1>1, <1>5 DEF Continues, ReadsHold
\* When r ends, the others' reads hold: none of them is about the same transaction.
<1>6. ASSUME NEW r \in Requests, Ends(r), \A u \in Txns \ {req[r].txn} : txn'[u] = txn[u],
             \A u \in Txns : ~txn'[u].overwritten
      PROVE  ReadsHold'
  <2>1. /\ req'[r].op = "none" /\ req'[r].txn = None
        /\ \A s \in Requests \ {r} : req'[s] = req[s]
    BY <1>1, <1>6, NoCallFields DEF Ends
  <2>2. \A s \in Requests \ {r} : req[s].txn # None => txn'[req[s].txn] = txn[req[s].txn]
    BY <1>1, <1>6 DEF OneCallEach
  <2>3. \A s \in Requests : req[s].op = "cancel" => req[s].txn # None
    BY <1>1 DEF CallsRead
  <2> QED BY <1>1, <1>6, <2>1, <2>2, <2>3 DEF ReadsHold
<1>7. ASSUME NEW r \in Requests, Leaves(r) \/ StaffWrites(r) PROVE ReadsHold'
  BY <1>1, <1>6, <1>7 DEF Leaves, StaffWrites, ReadsHold
<1>8. ASSUME NEW r \in Requests, Ends(r), NEW o, NEW p, Becomes(r, o, p) PROVE ReadsHold'
  <2>1. \A u \in Txns : ~txn'[u].overwritten
    <3>1. SUFFICES ASSUME NEW u \in Txns PROVE ~txn'[u].overwritten
      OBVIOUS
    <3>2. CASE u = req[r].txn
      <4>1. req[r].was = txn[u].status /\ ~txn[u].overwritten
        BY <1>1, <3>2, NoneAssumption DEF ReadsHold
      <4> QED BY <1>8, <3>2, <4>1 DEF Becomes
    <3>3. CASE u # req[r].txn
      BY <1>1, <1>8, <3>3 DEF Becomes, ReadsHold
    <3> QED BY <3>2, <3>3
  <2> QED BY <1>6, <1>8, <2>1 DEF Becomes
<1>9. ASSUME NEW r \in Requests, Updates(r) \/ Settles(r) \/ Cancels(r) PROVE ReadsHold'
  BY <1>8, <1>9 DEF Updates, Settles, Cancels
<1> QED BY <1>1, <1>2, <1>3, <1>4, <1>5, <1>7, <1>9, TransactionSteps

LEMMA SerialStep ==
  ASSUME SerialProvider
  PROVE  IInvSerial /\ [Next]_vars => IInvSerial'
<1>1. ASSUME IInvSerial, [Next]_vars PROVE IInvSerial'
  <2>1. IInvCalls'
    BY <1>1, CallsStep DEF IInvSerial
  <2> QED BY <1>1, <2>1, OneCallStep, ReadsStep DEF IInvSerial
<1> QED BY <1>1

(***************************************************************************)
(* While a provider waits for its answers, what a call about a transaction *)
(* has read is true until it commits, and no outcome is ever overwritten;  *)
(* staff may edit anything meanwhile.                                      *)
(***************************************************************************)
THEOREM CallsReadTrue == ASSUME SerialProvider PROVE Spec => []IInvSerial
<1>1. Init => IInvSerial
  BY SerialInit
<1>2. IInvSerial /\ [Next]_vars => IInvSerial'
  BY SerialStep
<1> QED BY <1>1, <1>2, PTL DEF Spec

-----------------------------------------------------------------------------
(* What moves the money, where staff only record payments under the lock *)

\* Neither a status nor a total changes.
InvKept == \A i \in Invoices : inv'[i].status = inv[i].status /\ inv'[i].total = inv[i].total

\* Links stay what they were made for, and none comes to count as paid.
LinksKept ==
  \A t \in Txns :
    /\ txn'[t].inv = txn[t].inv /\ txn'[t].amount = txn[t].amount
    /\ txn'[t].status # "absent" <=> txn[t].status # "absent"
    /\ txn'[t].status = "success" => txn[t].status = "success" /\ txn'[t].payment = txn[t].payment

\* A request that moves fits its link, and what it read if it did so before.
Fits(s) == CallFits(s)' /\ (RecountHolds(s) => RecountHolds(s)')
MoversFit == \A s \in Requests : req'[s] = req[s] \/ Fits(s)

\* The money stays where it is.
Still == UNCHANGED pay /\ InvKept /\ LinksKept /\ MoversFit

\* A request that holds the row credits it.
Pays(r) ==
  /\ Settling(r) /\ req[r].pc = "commit" /\ Ends(r) /\ StatusSaved(r)
  /\ \/ req[r].op = "pay" /\ PaymentInserted(r, None) /\ UNCHANGED txn
     \/ /\ req[r].op \in {"perform", "complete"} /\ PaymentInserted(r, req[r].txn)
        /\ \A u \in Txns \ {req[r].txn} : txn'[u] = txn[u]
        /\ req[r].txn \in Txns =>
             /\ txn'[req[r].txn].inv = txn[req[r].txn].inv /\ txn'[req[r].txn].amount = txn[req[r].txn].amount
             /\ txn'[req[r].txn].status = "success" /\ txn'[req[r].txn].payment = req[r].pay

\* Payme takes a credit back.
TakesBack(r) ==
  /\ Recounts(r) /\ req[r].op = "cancel" /\ req[r].pc = "commit" /\ Reverses(req[r].was, req[r].pay)
  /\ Ends(r) /\ StatusSaved(r) /\ PaymentSoftDeleted(r)
  /\ LinksKept /\ (req[r].txn \in Txns => txn'[req[r].txn].status = "cancelled")

\* What a request sees of an invoice's payments stays while they do.
LEMMA ViewKept ==
  ASSUME NEW r \in Requests, NEW i,
         req[r].inv = i, req'[r].inv = i, req'[r].op = req[r].op, req'[r].pay = req[r].pay,
         req'[r].amount = req[r].amount, PaidUnits(i)' = PaidUnits(i)
  PROVE  OwnView(req[r])' = OwnView(req[r])
<1> DEFINE mine == {u \in Payments \X Amounts :
                      pay'[u[1]].state = "live" /\ pay'[u[1]].inv = req'[r].inv /\ u[2] <= pay'[u[1]].amount}
           rest == {u \in mine : u[1] # req'[r].pay}
<1>1. mine = PaidUnits(i)
  BY DEF PaidUnits
<1>2. OwnView(req[r])' = IF req'[r].op \in Crediting THEN Cardinality(mine) + req'[r].amount
                         ELSE Cardinality(rest)
  BY DEF OwnView, invoice_paid_amount, PaidUnits
<1>3. OwnView(req[r]) = IF req[r].op \in Crediting THEN Cardinality(PaidUnits(i)) + req[r].amount
                        ELSE Cardinality({u \in PaidUnits(i) : u[1] # req[r].pay})
  BY DEF OwnView, invoice_paid_amount
<1> HIDE DEF mine
<1>4. rest = {u \in PaidUnits(i) : u[1] # req[r].pay}
  BY <1>1
<1> HIDE DEF rest
<1> QED BY <1>1, <1>2, <1>3, <1>4

LEMMA UnlockedOps ==
  ASSUME AdminOps \subseteq {"pay", "invoice_destroy"}, Bookkeeping
  PROVE  \A r \in Requests : req[r].op \notin {"create", "destroy", "update", "invoice_update"}
  BY DEF Bookkeeping, OpsInUse, AllAdminOps

LEMMA EndFits ==
  ASSUME TypeOK, NEW r \in Requests, Ends(r)
  PROVE  MoversFit /\ \A s \in Requests \ {r} : req'[s] = req[s]
<1>1. req'[r] = NoCall /\ \A s \in Requests \ {r} : req'[s] = req[s]
  BY DEF TypeOK, Ends
<1>2. ASSUME NEW s \in Requests, s = r PROVE Fits(s)
  <2>1. CallFits(s)'
    BY <1>1, <1>2, NoCallFields DEF CallFits, Locking
  <2>2. RecountHolds(s)'
    BY <1>1, <1>2, NoCallFields DEF RecountHolds, Recounts, Settling, Locking
  <2> QED BY <2>1, <2>2 DEF Fits
<1> QED BY <1>1, <1>2 DEF MoversFit

\* A call that starts, or goes on to the row it has just read.
LEMMA ReadFits ==
  ASSUME TypeOK, NEW r \in Requests, NEW q, req' = [req EXCEPT ![r] = q], UNCHANGED <<inv, pay, txn>>,
         q.txn # None => txn[q.txn].status # "absent",
         q.op \in Locking => q.amount \in Amounts,
         q.op \in {"perform", "complete"} => q.inv = txn[q.txn].inv /\ q.amount = txn[q.txn].amount,
         q.op = "cancel" => q.txn \in PaymeTxns /\ q.inv = txn[q.txn].inv,
         \/ q.pc \notin {"recompute", "commit"} \/ q.op \notin Locking \cup {"cancel"}
         \/ q.op = "cancel" /\ ~Reverses(q.was, q.pay)
         \/ q.pc = "recompute" /\ q.total = inv[q.inv].total /\ q.status = inv[q.inv].status
  PROVE  Still
<1>1. req'[r] = q /\ \A s \in Requests \ {r} : req'[s] = req[s]
  BY DEF TypeOK
<1>2. ASSUME NEW s \in Requests, s = r PROVE Fits(s)
  <2>1. CallFits(s)'
    BY <1>1, <1>2 DEF CallFits
  <2>2. RecountHolds(s)'
    BY <1>1, <1>2 DEF RecountHolds, Recounts, Settling, Locking
  <2> QED BY <2>1, <2>2 DEF Fits
<1>3. MoversFit
  BY <1>1, <1>2 DEF MoversFit
<1>4. InvKept /\ LinksKept
  BY DEF InvKept, LinksKept
<1> QED BY <1>3, <1>4 DEF Still

LEMMA ProviderStill ==
  ASSUME Bookkeeping, CreditsInStep, LinksAskAll,
         NEW r \in Requests, NEW t \in Txns, ProviderCalls(r, t)
  PROVE  Still
<1> USE NoCallTyped, NoCallFields
<1>1. TypeOK /\ t # None
  BY NoneAssumption DEF Bookkeeping
<1>2. UNCHANGED <<inv, pay, txn>>
  BY DEF ProviderCalls, CreateTransactionRead, PrepareRead, PerformTransactionRead,
         CancelTransactionRead, CompleteRead, CompleteFailedRead
<1>3. txn[t].provider_id # None => txn[t].status # "absent"
  BY DEF CreditsInStep
<1>4. ASSUME NEW q, req' = [req EXCEPT ![r] = q], q.txn = t, txn[t].status # "absent",
             q.op \in {"create_txn", "prepare", "fail"}
      PROVE  Still
  BY <1>1, <1>2, <1>4, ReadFits DEF Locking
<1>5. ASSUME NEW id \in ProviderIds, CreateTransactionRead(r, t, id)
      PROVE  Still
  <2> DEFINE q == [NoCall EXCEPT !.op = "create_txn", !.pc = "commit", !.txn = t, !.id = id,
                                 !.was = txn[t].status]
  <2>1. q.op = "create_txn" /\ q.txn = t
    BY DEF Call
  <2>2. req' = [req EXCEPT ![r] = q] /\ txn[t].status # "absent"
    BY <1>5 DEF CreateTransactionRead, Starts
  <2> HIDE DEF q
  <2> QED BY <1>4, <2>1, <2>2
<1>6. ASSUME NEW id \in ProviderIds, PrepareRead(r, t, id)
      PROVE  Still
  <2> DEFINE q == [NoCall EXCEPT !.op = "prepare", !.pc = "commit", !.txn = t, !.id = id,
                                 !.was = txn[t].status]
  <2>1. q.op = "prepare" /\ q.txn = t
    BY DEF Call
  <2>2. req' = [req EXCEPT ![r] = q] /\ txn[t].status # "absent"
    BY <1>6 DEF PrepareRead, Preparable, Starts
  <2> HIDE DEF q
  <2> QED BY <1>4, <2>1, <2>2
<1>7. ASSUME PerformTransactionRead(r, t) \/ CompleteRead(r, t)
      PROVE  Still
  <2>1. PICK p \in Payments, o \in {"perform", "complete"} :
          Starts(r, [NoCall EXCEPT !.op = o, !.pc = "lock", !.txn = t, !.pay = p,
                                   !.inv = txn[t].inv, !.amount = txn[t].amount,
                                   !.was = txn[t].status])
    BY <1>7 DEF PerformTransactionRead, CompleteRead
  <2> DEFINE q == [NoCall EXCEPT !.op = o, !.pc = "lock", !.txn = t, !.pay = p,
                                 !.inv = txn[t].inv, !.amount = txn[t].amount,
                                 !.was = txn[t].status]
  <2>2. q.op = o /\ q.txn = t /\ q.pc = "lock" /\ q.inv = txn[t].inv /\ q.amount = txn[t].amount
    BY DEF Call
  <2>3. req' = [req EXCEPT ![r] = q]
    BY <2>1 DEF Starts
  <2>4. txn[t].status # "absent"
    BY <1>7 DEF PerformTransactionRead, CompleteRead, Performable
  <2>5. txn[t].amount \in Amounts
    BY <1>1, <2>4 DEF LinksAskAll, Bookkeeping, InvoiceNamed
  <2> HIDE DEF q
  <2> QED BY <1>1, <1>2, <2>2, <2>3, <2>4, <2>5, ReadFits
<1>8. ASSUME CancelTransactionRead(r, t)
      PROVE  Still
  <2> DEFINE c == IF Reverses(txn[t].status, txn[t].payment) THEN "delete" ELSE "commit"
             q == [NoCall EXCEPT !.op = "cancel", !.txn = t, !.inv = txn[t].inv, !.pc = c,
                                 !.pay = txn[t].payment, !.was = txn[t].status]
  <2>1. req' = [req EXCEPT ![r] = q] /\ txn[t].provider_id # None /\ t \in PaymeTxns
    BY <1>8 DEF CancelTransactionRead, Starts
  <2>2. c = "delete" \/ ~Reverses(txn[t].status, txn[t].payment)
    OBVIOUS
  <2> HIDE DEF c
  <2>3. /\ q.op = "cancel" /\ q.txn = t /\ q.inv = txn[t].inv /\ q.pc = c
        /\ q.pay = txn[t].payment /\ q.was = txn[t].status
    BY DEF Call
  <2> HIDE DEF q
  <2>4. q.pc \notin {"recompute", "commit"} \/ ~Reverses(q.was, q.pay)
    BY <2>2, <2>3
  <2> QED BY <1>1, <1>2, <1>3, <2>1, <2>3, <2>4, ReadFits DEF Locking
<1>9. ASSUME CompleteFailedRead(r, t)
      PROVE  Still
  <2> DEFINE q == [NoCall EXCEPT !.op = "fail", !.pc = "commit", !.txn = t, !.was = txn[t].status]
  <2>1. q.op = "fail" /\ q.txn = t
    BY DEF Call
  <2>2. req' = [req EXCEPT ![r] = q] /\ txn[t].status # "absent"
    BY <1>9 DEF CompleteFailedRead, Starts
  <2> HIDE DEF q
  <2> QED BY <1>4, <2>1, <2>2
<1> QED BY <1>5, <1>6, <1>7, <1>8, <1>9 DEF ProviderCalls

LEMMA StaffStill ==
  ASSUME AdminOps \subseteq {"pay", "invoice_destroy"}, Bookkeeping,
         NEW r \in Requests, NEW i \in Invoices, StaffCalls(r, i)
  PROVE  Still
<1> USE NoCallTyped, NoCallFields
<1>1. PICK a \in Amounts : PayLock(r, i, a)
  BY DEF StaffCalls, PaymentCreateRead, PaymentUpdateRead, InvoiceUpdateRead
<1>2. PICK p \in Payments :
        Starts(r, [NoCall EXCEPT !.op = "pay", !.pc = "recompute", !.inv = i, !.pay = p, !.amount = a,
                                 !.total = inv[i].total, !.status = inv[i].status])
  BY <1>1 DEF PayLock
<1> DEFINE q == [NoCall EXCEPT !.op = "pay", !.pc = "recompute", !.inv = i, !.pay = p, !.amount = a,
                               !.total = inv[i].total, !.status = inv[i].status]
<1>3. /\ q.op = "pay" /\ q.pc = "recompute" /\ q.inv = i /\ q.amount = a /\ q.txn = None
      /\ q.total = inv[i].total /\ q.status = inv[i].status
  BY DEF Call
<1>4. req' = [req EXCEPT ![r] = q] /\ UNCHANGED <<inv, pay, txn>>
  BY <1>1, <1>2 DEF Starts, PayLock
<1> HIDE DEF q
<1> QED BY <1>3, <1>4, ReadFits DEF Bookkeeping

LEMMA ProceedsMoney ==
  ASSUME AdminOps \subseteq {"pay", "invoice_destroy"}, Bookkeeping,
         NEW r \in Requests, CallFits(r), Proceeds(r)
  PROVE  Still \/ Pays(r) \/ TakesBack(r)
<1> DEFINE t == req[r].txn
<1>1. /\ req \in [Requests -> Call] /\ req[r] \in Call /\ t \in Txns \cup {None} /\ TypeOK
  BY DEF Bookkeeping, TypeOK, Call
<1>2. req[r].op \notin {"create", "destroy", "update", "invoice_update"}
  BY UnlockedOps
<1>3. ASSUME Ends(r), UNCHANGED <<inv, pay>>, LinksKept
      PROVE  Still
  BY <1>1, <1>3, EndFits DEF Still, InvKept
<1>4. ASSUME NEW o \in {"pending", "failed", "cancelled"}, NEW p, Becomes(r, o, p)
      PROVE  LinksKept
  <2>1. t \in Txns => txn[t].status # "absent"
    BY NoneAssumption DEF CallFits
  <2>2. SUFFICES ASSUME NEW u \in Txns
                 PROVE  /\ txn'[u].inv = txn[u].inv /\ txn'[u].amount = txn[u].amount
                        /\ txn'[u].status # "absent" <=> txn[u].status # "absent"
                        /\ txn'[u].status = "success" =>
                             txn[u].status = "success" /\ txn'[u].payment = txn[u].payment
    BY DEF LinksKept
  <2>3. CASE u = t
    BY <1>4, <2>1, <2>3 DEF Becomes
  <2>4. CASE u # t
    BY <1>4, <2>4 DEF Becomes
  <2> QED BY <2>3, <2>4
<1>5. UNCHANGED txn => LinksKept
  BY DEF LinksKept
<1>6. CASE CreateTransactionSave(r) \/ PrepareSave(r) \/ CompleteFailedSave(r)
  <2>1. Ends(r) /\ UNCHANGED <<inv, pay>>
    BY <1>6 DEF CreateTransactionSave, PrepareSave, CompleteFailedSave
  <2>2. UNCHANGED txn \/ \E o \in {"pending", "failed"} : Becomes(r, o, txn[t].payment)
    BY <1>1, <1>6, SavesBecome
  <2>3. LinksKept
    BY <1>4, <1>5, <2>2
  <2> QED BY <1>3, <2>1, <2>3
<1>7. CASE PerformTransactionCommit(r) \/ CompleteCommit(r)
  <2>1. /\ req[r].op \in {"perform", "complete"} /\ req[r].pc = "commit"
        /\ Ends(r) /\ PaymentInserted(r, t) /\ StatusSaved(r)
    BY <1>7 DEF PerformTransactionCommit, CompleteCommit
  <2>2. Becomes(r, "success", req[r].pay)
    BY <1>1, <1>7, SavesBecome
  <2> QED BY <2>1, <2>2 DEF Pays, Settling, Locking, Becomes
<1>8. CASE PayCommit(r)
  BY <1>8 DEF PayCommit, Pays, Settling, Locking
<1>9. CASE CancelTransactionCommit(r)
  <2>1. /\ req[r].op = "cancel" /\ req[r].pc = "commit" /\ Ends(r)
        /\ \E p : Becomes(r, "cancelled", p)
    BY <1>1, <1>9, SavesBecome DEF CancelTransactionCommit
  <2>2. LinksKept
    BY <1>4, <2>1
  <2>3. CASE Reverses(req[r].was, req[r].pay)
    <3>1. PaymentSoftDeleted(r) /\ StatusSaved(r)
      BY <1>9, <2>3 DEF CancelTransactionCommit
    <3>2. t \in Txns => txn'[t].status = "cancelled"
      BY <2>1 DEF Becomes
    <3> QED BY <2>1, <2>2, <2>3, <3>1, <3>2 DEF TakesBack, Recounts
  <2>4. CASE ~Reverses(req[r].was, req[r].pay)
    <3>1. UNCHANGED <<pay, inv>>
      BY <1>9, <2>4 DEF CancelTransactionCommit
    <3> QED BY <1>3, <2>1, <2>2, <3>1
  <2> QED BY <2>3, <2>4
<1>10. ASSUME NEW q, req' = [req EXCEPT ![r] = q], UNCHANGED <<inv, pay, txn>>,
              q.op = req[r].op, q.txn = req[r].txn, q.inv = req[r].inv, q.amount = req[r].amount,
              q.pc = "recompute" /\ q.total = inv[q.inv].total /\ q.status = inv[q.inv].status
       PROVE  Still
  BY <1>1, <1>10, ReadFits DEF CallFits
<1>11. ASSUME req' = [req EXCEPT ![r].pc = "recompute", ![r].total = inv[req[r].inv].total,
                                 ![r].status = inv[req[r].inv].status],
              UNCHANGED <<inv, pay, txn>>
       PROVE  Still
  <2> DEFINE q == [req[r] EXCEPT !.pc = "recompute", !.total = inv[req[r].inv].total,
                                 !.status = inv[req[r].inv].status]
  <2>1. /\ q.op = req[r].op /\ q.txn = req[r].txn /\ q.inv = req[r].inv /\ q.amount = req[r].amount
        /\ q.pc = "recompute" /\ q.total = inv[req[r].inv].total /\ q.status = inv[req[r].inv].status
    BY <1>1 DEF Call
  <2>2. req' = [req EXCEPT ![r] = q]
    BY <1>11
  <2> HIDE DEF q
  <2> QED BY <1>10, <1>11, <2>1, <2>2
<1>12. CASE CancelTransactionDelete(r)
  BY <1>11, <1>12 DEF CancelTransactionDelete
<1>13. CASE SettleLock(r)
  <2>1. CASE inv[req[r].inv].alive /\ Covers(req[r].inv, req[r].amount)
    BY <1>11, <1>13, <2>1 DEF SettleLock
  <2>2. CASE ~(inv[req[r].inv].alive /\ Covers(req[r].inv, req[r].amount))
    <3>1. Ends(r) /\ UNCHANGED <<inv, pay, txn>>
      BY <1>13, <2>2 DEF SettleLock
    <3> QED BY <1>3, <1>5, <3>1
  <2> QED BY <2>1, <2>2
<1>14. CASE Recompute(r)
  <2> DEFINE s == StatusFor(OwnView(req[r]), req[r].total)
             w == IF s # req[r].status THEN s ELSE "none"
             q == [req[r] EXCEPT !.pc = "commit", !.write = w]
  <2>1. req[r].pc = "recompute" /\ UNCHANGED <<inv, pay, txn>> /\ req' = [req EXCEPT ![r] = q]
    BY <1>14 DEF Recompute
  <2>2. /\ q.op = req[r].op /\ q.txn = req[r].txn /\ q.inv = req[r].inv /\ q.amount = req[r].amount
        /\ q.total = req[r].total /\ q.status = req[r].status /\ q.pay = req[r].pay
        /\ q.was = req[r].was /\ q.pc = "commit" /\ q.write = w
    <3> HIDE DEF w
    <3> QED BY <1>1 DEF Call
  <2> HIDE DEF q
  <2>3. req'[r] = q /\ \A u \in Requests \ {r} : req'[u] = req[u]
    BY <1>1, <2>1
  <2>4. CallFits(r)'
    BY <2>1, <2>2, <2>3 DEF CallFits
  <2>5. Recounts(r)' => Recounts(r)
    BY <2>1, <2>2, <2>3 DEF Recounts, Settling
  <2>6. OwnView(req[r])' = OwnView(req[r])
    <3>1. PICK i \in Invoices \cup {None} : i = req[r].inv
      BY <1>1 DEF Call
    <3>2. PaidUnits(i)' = PaidUnits(i)
      BY <2>1 DEF PaidUnits
    <3> QED BY <2>2, <2>3, <3>1, <3>2, ViewKept
  <2>7. RecountHolds(r) => RecountHolds(r)'
    BY <2>1, <2>2, <2>3, <2>5, <2>6 DEF RecountHolds
  <2>8. ASSUME NEW u \in Requests, u = r PROVE Fits(u)
    BY <2>4, <2>7, <2>8 DEF Fits
  <2>9. MoversFit
    BY <2>3, <2>8 DEF MoversFit
  <2> QED BY <1>5, <2>1, <2>9 DEF Still, InvKept
<1>15. ~PaymentCreateCommit(r) /\ ~PaymentUpdateSave(r) /\ ~PaymentDestroyDelete(r)
       /\ ~PaymentDestroyCommit(r) /\ ~InvoiceUpdateSave(r)
  BY <1>2 DEF PaymentCreateCommit, PaymentUpdateSave, PaymentDestroyDelete, PaymentDestroyCommit,
       InvoiceUpdateSave
<1> QED BY <1>6, <1>7, <1>8, <1>9, <1>12, <1>13, <1>14, <1>15 DEF Proceeds

\* Every step leaves the money, makes a link, credits under the lock, or takes back.
LEMMA MoneySteps ==
  ASSUME AdminOps \subseteq {"pay", "invoice_destroy"}, IInvCalls, IInvLinks, [Next]_vars
  PROVE  \/ Still
         \/ \E t \in Txns, i \in Invoices : Checkout(t, i)
         \/ \E r \in Requests : Pays(r) \/ TakesBack(r)
<1>1. Bookkeeping /\ CreditsInStep /\ TypeOK
  BY DEF IInvCalls, Bookkeeping
<1>2. LinksAskAll /\ \A r \in Requests : CallFits(r)
  BY DEF IInvLinks
<1>3. ASSUME UNCHANGED <<pay, txn, req>>, InvKept PROVE Still
  BY <1>3 DEF Still, LinksKept, MoversFit
<1>4. CASE UNCHANGED vars
  BY <1>3, <1>4 DEF vars, InvKept
<1>5. ASSUME NEW i \in Invoices, InvoiceDestroy(i) PROVE Still
  <2>1. inv' = [inv EXCEPT ![i].alive = FALSE] /\ \A j \in Invoices : inv[j] \in InvoiceRow
    BY <1>1, <1>5 DEF InvoiceDestroy, TypeOK
  <2>2. InvKept
    BY <1>1, <2>1 DEF InvKept, InvoiceRow, TypeOK
  <2> QED BY <1>3, <1>5, <2>2 DEF InvoiceDestroy
<1>6. ASSUME NEW r \in Requests, Abort(r) PROVE Still
  BY <1>1, <1>6, EndFits DEF Abort, Still, InvKept, LinksKept
<1>7. ASSUME NEW r \in Requests, NEW p \in Payments PROVE ~PaymentDestroyRead(r, p)
  BY DEF PaymentDestroyRead
<1>8. ASSUME NEW r \in Requests, Proceeds(r) PROVE Still \/ Pays(r) \/ TakesBack(r)
  BY <1>1, <1>2, <1>8, ProceedsMoney
<1>9. ASSUME NEW r \in Requests, NEW t \in Txns, ProviderCalls(r, t) PROVE Still
  BY <1>1, <1>2, <1>9, ProviderStill
<1>10. ASSUME NEW r \in Requests, NEW i \in Invoices, StaffCalls(r, i) PROVE Still
  BY <1>1, <1>10, StaffStill
<1> QED BY <1>4, <1>5, <1>6, <1>7, <1>8, <1>9, <1>10 DEF Next

-----------------------------------------------------------------------------
(* One gateway credit on an invoice, which pays it in full *)

LEMMA CallKept ==
  ASSUME TypeOK, NEW r \in Requests, req'[r] = req[r], CallFits(r),
         \A t \in Txns : /\ txn'[t].inv = txn[t].inv /\ txn'[t].amount = txn[t].amount
                         /\ txn[t].status # "absent" => txn'[t].status # "absent",
         req[r].op \in {"perform", "complete"} => req[r].txn # None
  PROVE  CallFits(r)'
<1>1. req[r].txn \in Txns \cup {None}
  BY DEF TypeOK, Call
<1> QED BY <1>1 DEF CallFits, Txns

\* The calls that go on know of their links what they knew.
LEMMA CallsKept ==
  ASSUME Bookkeeping, CallsRead, \A s \in Requests : CallFits(s), MoversFit,
         \A t \in Txns : /\ txn'[t].inv = txn[t].inv /\ txn'[t].amount = txn[t].amount
                         /\ txn[t].status # "absent" => txn'[t].status # "absent"
  PROVE  \A s \in Requests : CallFits(s)'
<1>1. TypeOK
  BY DEF Bookkeeping
<1>2. \A s \in Requests : req[s].op \in {"perform", "complete"} => req[s].txn # None
  BY DEF CallsRead, Advancing
<1> QED BY <1>1, <1>2, CallKept DEF MoversFit, Fits

LEMMA SaveKeepsTotals ==
  ASSUME TypeOK, NEW r \in Requests, StatusSaved(r)
  PROVE  TotalsKept
<1>1. inv \in [Invoices -> InvoiceRow]
  BY DEF TypeOK
<1> QED BY <1>1 DEF StatusSaved, TotalsKept, InvoiceRow

\* A request past its balance check has something to credit, so no gateway's credit is there.
LEMMA SettlingAlone ==
  ASSUME IInv, IInvLinks, NEW r \in Requests, Settling(r)
  PROVE  /\ req[r].inv \in Invoices /\ req[r].amount \in Amounts /\ req[r].amount \in Nat
         /\ req[r].amount >= 1 /\ req[r].amount <= invoice_balance(req[r].inv)
         /\ \A p \in Payments : ~OnInvoice(p, req[r].inv)
<1>1. req[r].inv \in Invoices /\ req[r].amount \in Amounts
  BY DEF IInv, Bookkeeping, InvoiceNamed, IInvLinks, CallFits, Settling, Locking
<1>2. req[r].amount \in Nat /\ req[r].amount >= 1
  BY <1>1, DataAssumption DEF Amounts
<1>3. PICK i \in Invoices : i = req[r].inv
  BY <1>1
<1>4. req[r].amount <= invoice_balance(i)
  BY <1>3 DEF IInv, Headroom
<1>5. \A p \in Payments : ~OnInvoice(p, i)
  BY <1>2, <1>4 DEF IInvLinks, OneGatewayCredit
<1> QED BY <1>1, <1>2, <1>3, <1>4, <1>5

LEMMA StillLinks ==
  ASSUME IInvCalls, IInvLinks, Still
  PROVE  IInvLinks'
<1>1. /\ Bookkeeping /\ CallsRead /\ UNCHANGED pay /\ InvKept /\ LinksKept /\ MoversFit
      /\ OneGatewayCredit /\ LinksAskAll /\ \A r \in Requests : CallFits(r)
  BY DEF IInvCalls, IInvLinks, Still
<1>2. TotalsKept
  BY <1>1 DEF TotalsKept, InvKept
<1>3. \A i \in Invoices : invoice_balance(i)' = invoice_balance(i)
  BY <1>1, <1>2, BalanceKept
<1>4. OneGatewayCredit'
  BY <1>1, <1>3 DEF OneGatewayCredit, OnInvoice
<1>5. LinksAskAll'
  BY <1>1, <1>3 DEF LinksAskAll, OnInvoice, LinksKept
<1>6. \A r \in Requests : CallFits(r)'
  BY <1>1, CallsKept DEF LinksKept
<1> QED BY <1>4, <1>5, <1>6 DEF IInvLinks

\* A new link asks for what is owed, so nothing on its invoice is a gateway's.
LEMMA CheckoutLinks ==
  ASSUME IInvCalls, IInvLinks, NEW t \in Txns, NEW j \in Invoices, Checkout(t, j)
  PROVE  IInvLinks'
<1>1. /\ Bookkeeping /\ TypeOK /\ CallsRead
      /\ OneGatewayCredit /\ LinksAskAll /\ \A r \in Requests : CallFits(r)
      /\ \A r \in Requests : req[r].txn \in Txns \cup {None}
  BY DEF IInvCalls, IInvLinks, Bookkeeping, TypeOK, Call
<1> DEFINE row == [NoTxn EXCEPT !.status = "initiated", !.inv = j, !.amount = invoice_balance(j)]
<1>2. /\ row.status = "initiated" /\ row.inv = j /\ row.amount = invoice_balance(j)
  BY DEF NoTxn
<1>3. /\ txn' = [txn EXCEPT ![t] = row] /\ UNCHANGED <<inv, pay, rowLock, req>>
      /\ txn[t].status = "absent" /\ invoice_balance(j) > 0
  BY DEF Checkout
<1> HIDE DEF row
<1>4. \A u \in Txns : txn'[u] = IF u = t THEN row ELSE txn[u]
  BY <1>1, <1>3 DEF TypeOK
<1>5. TotalsKept /\ UNCHANGED pay
  BY <1>3 DEF TotalsKept
<1>6. \A i \in Invoices : invoice_balance(i)' = invoice_balance(i)
  BY <1>5, BalanceKept
<1>7. invoice_balance(j) \in Amounts /\ invoice_balance(j) \in Int
  <2>1. inv[j].total \in 0..MaxAmount /\ MaxAmount \in Nat
    BY <1>1, DataAssumption DEF TypeOK, InvoiceRow
  <2> QED BY <1>3, <2>1, PaidIsNat DEF invoice_balance, Amounts
<1>8. OneGatewayCredit'
  BY <1>1, <1>3, <1>6 DEF OneGatewayCredit, OnInvoice
<1>9. LinksAskAll'
  <2>1. \A p \in Payments : ~OnInvoice(p, j)
    BY <1>1, <1>3 DEF OneGatewayCredit
  <2>2. ASSUME NEW u \in Txns, NEW i \in Invoices, txn'[u].status # "absent", txn'[u].inv = i
        PROVE  /\ txn'[u].amount \in Amounts /\ invoice_balance(i)' <= txn'[u].amount
               /\ \A p \in Payments : OnInvoice(p, i)' => pay'[p].amount <= txn'[u].amount
    <3>1. CASE u = t
      BY <1>2, <1>3, <1>4, <1>6, <1>7, <2>1, <2>2, <3>1 DEF OnInvoice
    <3>2. CASE u # t
      BY <1>1, <1>3, <1>4, <1>6, <2>2, <3>2 DEF LinksAskAll, OnInvoice
    <3> QED BY <3>1, <3>2
  <2> QED BY <2>2 DEF LinksAskAll
<1>10. ASSUME NEW r \in Requests PROVE CallFits(r)'
  <2>1. CallFits(r) /\ req'[r] = req[r]
    BY <1>1, <1>3
  <2>2. req[r].txn # None => txn'[req[r].txn] = txn[req[r].txn]
    BY <1>1, <1>3, <1>4, <2>1 DEF CallFits
  <2>3. req[r].op \in {"perform", "complete", "cancel"} => req[r].txn # None
    BY <1>1 DEF CallsRead, Advancing
  <2> QED BY <2>1, <2>2, <2>3 DEF CallFits
<1> QED BY <1>8, <1>9, <1>10 DEF IInvLinks

\* The credit that commits, and the transaction it is for, if any.
LEMMA PaysCredit ==
  ASSUME IInv, IInvCalls, IInvLinks, NEW r \in Requests, Pays(r)
  PROVE  \E t \in Txns \cup {None}, i \in Invoices, p \in Payments, a \in Nat :
           /\ i = req[r].inv /\ a = req[r].amount /\ p = req[r].pay
           /\ Credited(r, t) /\ a >= 1 /\ a <= invoice_balance(i)
           /\ pay[p].state = "absent" /\ \A q \in Payments : ~OnInvoice(q, i)
           /\ pay'[p].state = "live" /\ pay'[p].inv = i /\ pay'[p].amount = a /\ pay'[p].txn = t
           /\ \A q \in Payments \ {p} : pay'[q] = pay[q]
           /\ \A u \in Txns \ {t} : txn'[u] = txn[u]
           /\ t # None =>
                /\ t = req[r].txn /\ txn[t].status # "absent" /\ txn[t].inv = i /\ txn[t].amount = a
                /\ txn'[t].inv = i /\ txn'[t].amount = a
                /\ txn'[t].status = "success" /\ txn'[t].payment = p
<1>1. /\ Bookkeeping /\ TypeOK /\ CallsRead /\ FreshReserved /\ CallFits(r)
      /\ req[r].txn \in Txns \cup {None} /\ req[r].pay \in Payments \cup {None}
      /\ pay \in [Payments -> PaymentRow]
  BY DEF IInv, IInvCalls, IInvLinks, Bookkeeping, TypeOK, Call
<1>2. /\ Settling(r) /\ Ends(r) /\ TotalsKept
      /\ req[r].op \in {"perform", "complete", "pay"} /\ req[r].op \in Crediting
  BY <1>1, SaveKeepsTotals DEF Pays, Crediting
<1>3. PICK i \in Invoices, a \in Nat, p \in Payments \cup {None} :
        i = req[r].inv /\ a = req[r].amount /\ p = req[r].pay
  BY <1>1, <1>2, SettlingAlone
<1>4. /\ a >= 1 /\ a <= invoice_balance(i) /\ p \in Payments /\ pay[p].state = "absent"
      /\ \A q \in Payments : ~OnInvoice(q, i)
  BY <1>1, <1>2, <1>3, SettlingAlone DEF FreshReserved
<1>5. PICK t \in Txns \cup {None} :
        /\ PaymentInserted(r, t)
        /\ \A u \in Txns \ {t} : txn'[u] = txn[u]
        /\ t # None =>
             /\ t = req[r].txn /\ txn[t].status # "absent" /\ txn[t].inv = i /\ txn[t].amount = a
             /\ txn'[t].inv = i /\ txn'[t].amount = a
             /\ txn'[t].status = "success" /\ txn'[t].payment = p
  <2>1. CASE req[r].op = "pay"
    BY <2>1 DEF Pays
  <2>2. CASE req[r].op \in {"perform", "complete"}
    <3>1. req[r].txn \in Txns /\ req[r].txn # None
      BY <1>1, <2>2 DEF CallsRead, Advancing
    <3>2. /\ txn[req[r].txn].status # "absent"
          /\ txn[req[r].txn].inv = i /\ txn[req[r].txn].amount = a
      BY <1>1, <1>3, <2>2, <3>1 DEF CallFits
    <3> QED BY <1>3, <2>2, <3>1, <3>2 DEF Pays
  <2> QED BY <1>2, <2>1, <2>2
<1>6. /\ pay'[p].state = "live" /\ pay'[p].inv = i /\ pay'[p].amount = a /\ pay'[p].txn = t
      /\ \A q \in Payments \ {p} : pay'[q] = pay[q]
  BY <1>1, <1>3, <1>4, <1>5 DEF PaymentInserted
<1>7. Credited(r, t)
  BY <1>2, <1>5 DEF Credited
<1> QED BY <1>3, <1>4, <1>5, <1>6, <1>7

\* A link asks for all that is owed, so its credit leaves nothing to owe.
LEMMA PaysLinks ==
  ASSUME IInv, IInv', IInvCalls, IInvLinks, NEW r \in Requests, Pays(r)
  PROVE  IInvLinks'
<1>1. /\ Bookkeeping /\ Bookkeeping' /\ TypeOK /\ CallsRead
      /\ OneGatewayCredit /\ LinksAskAll /\ \A s \in Requests : CallFits(s)
  BY DEF IInv, IInvCalls, IInvLinks, Bookkeeping
<1>2. PICK t \in Txns \cup {None}, i \in Invoices, p \in Payments, a \in Nat :
        /\ i = req[r].inv /\ a = req[r].amount
        /\ Credited(r, t) /\ a >= 1 /\ a <= invoice_balance(i)
        /\ pay[p].state = "absent" /\ \A q \in Payments : ~OnInvoice(q, i)
        /\ pay'[p].inv = i /\ pay'[p].amount = a /\ pay'[p].txn = t
        /\ \A q \in Payments \ {p} : pay'[q] = pay[q]
        /\ \A u \in Txns \ {t} : txn'[u] = txn[u]
        /\ t # None =>
             /\ txn[t].status # "absent" /\ txn[t].inv = i /\ txn[t].amount = a
             /\ txn'[t].inv = i /\ txn'[t].amount = a /\ txn'[t].status = "success"
  BY PaysCredit
<1>3. \A j \in Invoices :
        invoice_balance(j)' = IF j = i THEN invoice_balance(j) - a ELSE invoice_balance(j)
  BY <1>1, <1>2, BalanceAfterCredit
<1>4. \A u \in Txns : /\ txn'[u].inv = txn[u].inv /\ txn'[u].amount = txn[u].amount
                      /\ txn[u].status # "absent" <=> txn'[u].status # "absent"
  <2>1. t \in Txns => t # None
    BY NoneAssumption
  <2> QED BY <1>2, <2>1
<1>5. \A s \in Requests : CallFits(s)'
  <2>1. MoversFit
    BY <1>1, EndFits DEF Pays
  <2> QED BY <1>1, <1>4, <2>1, CallsKept
<1>6. \A q \in Payments, j \in Invoices :
        OnInvoice(q, j)' => (OnInvoice(q, j) /\ q # p /\ j # i) \/ (q = p /\ j = i /\ t # None)
  BY <1>2 DEF OnInvoice
<1>7. invoice_balance(i) \in Int
  BY <1>1, BalanceIsInt
<1>8. t # None => invoice_balance(i)' = 0
  <2>1. t # None => invoice_balance(i) <= a
    BY <1>1, <1>2 DEF LinksAskAll
  <2> QED BY <1>2, <1>3, <1>7, <2>1
<1>9. OneGatewayCredit'
  <2>1. ASSUME NEW j \in Invoices, NEW q \in Payments, OnInvoice(q, j)'
        PROVE  invoice_balance(j)' = 0 /\ \A o \in Payments : OnInvoice(o, j)' => o = q
    <3>1. CASE j = i
      BY <1>6, <1>8, <2>1, <3>1
    <3>2. CASE j # i
      BY <1>1, <1>3, <1>6, <2>1, <3>2 DEF OneGatewayCredit
    <3> QED BY <3>1, <3>2
  <2> QED BY <2>1 DEF OneGatewayCredit
<1>10. LinksAskAll'
  <2>1. ASSUME NEW u \in Txns, NEW j \in Invoices, txn'[u].status # "absent", txn'[u].inv = j
        PROVE  /\ txn'[u].amount \in Amounts /\ invoice_balance(j)' <= txn'[u].amount
               /\ \A q \in Payments : OnInvoice(q, j)' => pay'[q].amount <= txn'[u].amount
    <3>1. /\ txn[u].amount = txn'[u].amount /\ txn[u].amount \in Amounts
          /\ invoice_balance(j) <= txn[u].amount
          /\ \A q \in Payments : OnInvoice(q, j) => pay[q].amount <= txn[u].amount
      BY <1>1, <1>4, <2>1 DEF LinksAskAll
    <3>2. txn[u].amount \in Int /\ invoice_balance(j) \in Int
      BY <1>1, <3>1, BalanceIsInt DEF Amounts
    <3>3. invoice_balance(j)' <= txn'[u].amount
      BY <1>2, <1>3, <3>1, <3>2
    <3>4. ASSUME NEW q \in Payments, OnInvoice(q, j)'
          PROVE  pay'[q].amount <= txn'[u].amount
      <4>1. CASE OnInvoice(q, j) /\ q # p
        BY <1>2, <3>1, <4>1
      <4>2. CASE q = p /\ j = i
        <5>1. a <= txn[u].amount
          BY <1>2, <1>7, <3>1, <3>2, <4>2
        <5> QED BY <1>2, <3>1, <4>2, <5>1
      <4> QED BY <1>6, <3>4, <4>1, <4>2
    <3> QED BY <3>1, <3>3, <3>4
  <2> QED BY <2>1 DEF LinksAskAll
<1> QED BY <1>5, <1>9, <1>10 DEF IInvLinks

\* What is paid without a payment, and what the payment brought.
LEMMA PaidWithout ==
  ASSUME TypeOK, NEW p \in Payments, pay[p].amount \in Nat, NEW i
  PROVE  LET rest == {u \in PaidUnits(i) : u[1] # p}
         IN  IsFiniteSet(rest) /\ invoice_paid_amount(i) <= Cardinality(rest) + pay[p].amount
<1> DEFINE rest == {u \in PaidUnits(i) : u[1] # p}
           a == pay[p].amount
           own == {p} \X (1..a)
<1>1. rest \in SUBSET PaidUnits(i) /\ IsFiniteSet(PaidUnits(i)) /\ IsFiniteSet(rest)
  BY PaidIsNat, FS_Subset
<1>2. IsFiniteSet(own) /\ Cardinality(own) = a
  <2>1. IsFiniteSet(1..a) /\ Cardinality(1..a) = a
    <3>1. a \in Nat
      OBVIOUS
    <3> HIDE DEF a
    <3> QED BY <3>1, UnitsOfAmount
  <2>2. IsFiniteSet({p}) /\ Cardinality({p}) = 1
    BY FS_Singleton
  <2>3. IsFiniteSet(own) /\ Cardinality(own) = Cardinality({p}) * Cardinality(1..a)
    BY <2>1, <2>2, FS_Product
  <2> HIDE DEF own
  <2> QED BY <2>1, <2>2, <2>3
<1>3. PaidUnits(i) \subseteq rest \cup own
  <2>1. ASSUME NEW u \in PaidUnits(i), u[1] = p PROVE u \in own
    <3>1. u \in Payments \X Amounts /\ u[2] <= a
      BY <2>1 DEF PaidUnits
    <3>2. PICK n \in Amounts : u = <<p, n>>
      BY <2>1, <3>1
    <3> QED BY <3>1, <3>2 DEF Amounts
  <2> QED BY <2>1
<1> HIDE DEF own, rest
<1>4. IsFiniteSet(rest \cup own)
  BY <1>1, <1>2, FS_Union
<1>5. Cardinality(rest \cup own) = Cardinality(rest) + a - Cardinality(rest \cap own)
  BY <1>1, <1>2, FS_Union
<1>6. Cardinality(PaidUnits(i)) <= Cardinality(rest \cup own)
  BY <1>3, <1>4, FS_Subset
<1>7. /\ Cardinality(rest) \in Nat /\ Cardinality(rest \cap own) \in Nat
      /\ Cardinality(rest \cup own) \in Nat /\ Cardinality(PaidUnits(i)) \in Nat /\ a \in Nat
  <2>1. IsFiniteSet(rest \cap own)
    BY <1>1, <1>2, FS_Intersection
  <2> QED BY <1>1, <1>4, <2>1, FS_CardinalityType
<1>8. invoice_paid_amount(i) <= Cardinality(rest) + pay[p].amount
  BY <1>5, <1>6, <1>7 DEF invoice_paid_amount
<1> QED BY <1>1, <1>8 DEF rest

\* What is owed once a payment of an invoice that owed nothing is deleted.
LEMMA OwedAfterDelete ==
  ASSUME Bookkeeping, Bookkeeping', NEW r \in Requests, Reversed(r),
         NEW p \in Payments, p = req[r].pay, NEW i \in Invoices,
         pay[p].state = "live", pay[p].inv = i, invoice_balance(i) = 0
  PROVE  invoice_balance(i)' <= pay[p].amount
<1>1. TypeOK /\ PaymentSoftDeleted(r) /\ inv'[i].total = inv[i].total
  BY DEF Bookkeeping, Reversed, TotalsKept
<1>2. pay[p].amount \in Nat
  BY <1>1, DataAssumption DEF TypeOK, PaymentRow
<1> DEFINE rest == {u \in PaidUnits(i) : u[1] # p}
<1>3. PaidUnits(i)' = rest
  <2>1. /\ pay'[p].state = "deleted"
        /\ \A q \in Payments : q # p => pay'[q] = pay[q]
    BY <1>1 DEF PaymentSoftDeleted, TypeOK, PaymentRow
  <2> QED BY <2>1 DEF PaidUnits
<1>4. invoice_paid_amount(i) <= Cardinality(rest) + pay[p].amount
  BY <1>1, <1>2, PaidWithout
<1>5. invoice_paid_amount(i)' = Cardinality(rest)
  BY <1>3 DEF invoice_paid_amount
<1> HIDE DEF rest
<1>6. inv[i].total = invoice_paid_amount(i)
  BY BalanceIsInt DEF invoice_balance
<1>7. invoice_balance(i)' = inv'[i].total - invoice_paid_amount(i)'
  BY DEF invoice_balance
<1>8. invoice_paid_amount(i)' \in Nat /\ invoice_paid_amount(i) \in Nat
  BY BalanceIsInt
<1> QED BY <1>1, <1>2, <1>4, <1>5, <1>6, <1>7, <1>8

\* A reversal leaves its invoice owing no more than what it took back, and that no more than
\* any of its links asks for.
LEMMA TakesBackLinks ==
  ASSUME IInv, IInv', IInvCalls, IInvLinks, LinksAreOwn, NEW r \in Requests, TakesBack(r)
  PROVE  IInvLinks'
<1>1. /\ Bookkeeping /\ Bookkeeping' /\ TypeOK /\ CallsRead /\ FreshReserved
      /\ OneGatewayCredit /\ LinksAskAll /\ \A s \in Requests : CallFits(s)
      /\ pay \in [Payments -> PaymentRow]
  BY DEF IInv, IInvCalls, IInvLinks, Bookkeeping, TypeOK
<1>2. /\ PaymentSoftDeleted(r) /\ Ends(r) /\ LinksKept /\ Reversed(r)
  BY <1>1, SaveKeepsTotals DEF TakesBack, Reversed
<1>3. PICK p \in Payments : p = req[r].pay /\ pay[p].state # "absent"
  <2>1. req[r].pay \in Payments
    BY DEF TakesBack, Reverses, LinksAreOwn, CreditsOf
  <2>2. req[r].op \notin Crediting /\ req[r].pay # None
    BY DEF TakesBack, Reverses, Crediting
  <2> QED BY <1>1, <2>1, <2>2 DEF FreshReserved
<1>4. PICK i \in Invoices : i = pay[p].inv
  BY <1>1, <1>3 DEF Bookkeeping, InvoiceNamed
<1>5. pay[p].txn # None
  <2>1. req[r].txn \in Txns
    BY <1>1 DEF TakesBack, CallFits, Txns
  <2>2. pay[p].txn = req[r].txn
    BY <1>3 DEF TakesBack, Reverses, LinksAreOwn, CreditsOf
  <2> QED BY <2>1, <2>2, NoneAssumption
<1>6. /\ pay'[p].state = "deleted"
      /\ \A q \in Payments : /\ q # p => pay'[q] = pay[q]
                             /\ pay'[q].inv = pay[q].inv /\ pay'[q].amount = pay[q].amount
                             /\ pay'[q].txn = pay[q].txn
  BY <1>1, <1>2, <1>3 DEF PaymentSoftDeleted, PaymentRow
<1>7. \A q \in Payments, j \in Invoices : OnInvoice(q, j)' => OnInvoice(q, j) /\ q # p
  BY <1>6 DEF OnInvoice
<1>8. ASSUME NEW j \in Invoices
      PROVE  \/ invoice_balance(j)' = invoice_balance(j)
             \/ j = i /\ OnInvoice(p, i) /\ invoice_balance(i)' <= pay[p].amount
  <2>1. CASE j # i
    <3>1. invoice_paid_amount(j)' = invoice_paid_amount(j)
      BY <1>1, <1>2, <1>3, <1>4, <2>1, BalanceAfterReversal
    <3> QED BY <1>2, <3>1 DEF Reversed, TotalsKept, invoice_balance
  <2>2. CASE j = i /\ pay[p].state = "live"
    <3>1. OnInvoice(p, i)
      BY <1>4, <1>5, <2>2 DEF OnInvoice
    <3>2. invoice_balance(i) = 0
      BY <1>1, <3>1 DEF OneGatewayCredit
    <3> QED BY <1>1, <1>2, <1>3, <1>4, <2>2, <3>1, <3>2, OwedAfterDelete
  <2>3. CASE pay[p].state # "live"
    <3>1. pay' = pay
      <4>1. pay[p].state = "deleted" /\ pay[p] \in PaymentRow
        BY <1>1, <1>3, <2>3 DEF PaymentRow
      <4>2. [pay[p] EXCEPT !.state = "deleted"] = pay[p]
        BY <4>1 DEF PaymentRow
      <4> QED BY <1>1, <1>2, <1>3, <4>2 DEF PaymentSoftDeleted
    <3> QED BY <1>2, <3>1, BalanceKept DEF Reversed
  <2> QED BY <2>1, <2>2, <2>3
<1>9. OneGatewayCredit'
  <2>1. ASSUME NEW j \in Invoices, NEW q \in Payments, OnInvoice(q, j)'
        PROVE  invoice_balance(j)' = 0 /\ \A o \in Payments : OnInvoice(o, j)' => o = q
    <3>1. /\ OnInvoice(q, j) /\ q # p /\ invoice_balance(j) = 0
          /\ \A o \in Payments : OnInvoice(o, j) => o = q
      BY <1>1, <1>7, <2>1 DEF OneGatewayCredit
    <3>2. invoice_balance(j)' = invoice_balance(j)
      BY <1>8, <3>1
    <3> QED BY <1>7, <3>1, <3>2
  <2> QED BY <2>1 DEF OneGatewayCredit
<1>10. LinksAskAll'
  <2>1. ASSUME NEW u \in Txns, NEW j \in Invoices, txn'[u].status # "absent", txn'[u].inv = j
        PROVE  /\ txn'[u].amount \in Amounts /\ invoice_balance(j)' <= txn'[u].amount
               /\ \A q \in Payments : OnInvoice(q, j)' => pay'[q].amount <= txn'[u].amount
    <3>1. /\ txn[u].amount = txn'[u].amount /\ txn[u].amount \in Amounts
          /\ invoice_balance(j) <= txn[u].amount
          /\ \A q \in Payments : OnInvoice(q, j) => pay[q].amount <= txn[u].amount
      BY <1>1, <1>2, <2>1 DEF LinksAskAll, LinksKept
    <3>2. invoice_balance(j)' <= txn'[u].amount
      <4>1. CASE j = i /\ OnInvoice(p, i) /\ invoice_balance(i)' <= pay[p].amount
        <5>1. /\ pay[p].amount <= txn[u].amount /\ pay[p].amount \in Int
              /\ txn[u].amount \in Int /\ invoice_balance(i)' \in Int
          BY <1>1, <3>1, <4>1, BalanceIsInt DEF Amounts, PaymentRow
        <5> QED BY <3>1, <4>1, <5>1
      <4>2. CASE invoice_balance(j)' = invoice_balance(j)
        BY <3>1, <4>2
      <4> QED BY <1>8, <4>1, <4>2
    <3> QED BY <1>6, <1>7, <3>1, <3>2
  <2> QED BY <2>1 DEF LinksAskAll
<1>11. \A s \in Requests : CallFits(s)'
  <2>1. MoversFit
    BY <1>1, <1>2, EndFits
  <2> QED BY <1>1, <1>2, <2>1, CallsKept DEF LinksKept
<1> QED BY <1>9, <1>10, <1>11 DEF IInvLinks

LEMMA LinksInitially == Init => IInvLinks
<1> SUFFICES ASSUME Init PROVE IInvLinks
  OBVIOUS
<1>1. /\ \A p \in Payments : pay[p] = NoPayment
      /\ \A t \in Txns : txn[t] = NoTxn
      /\ \A r \in Requests : req[r] = NoCall
  BY DEF Init
<1>2. OneGatewayCredit /\ LinksAskAll
  BY <1>1 DEF OneGatewayCredit, LinksAskAll, OnInvoice, NoPayment, NoTxn
<1>3. \A r \in Requests : CallFits(r)
  BY <1>1, NoCallFields DEF CallFits, Locking
<1> QED BY <1>2, <1>3 DEF IInvLinks

LEMMA LinksFitStep ==
  ASSUME AdminOps \subseteq {"pay", "invoice_destroy"}
  PROVE  IInv /\ IInv' /\ IInvCalls /\ LinksAreOwn /\ IInvLinks /\ [Next]_vars => IInvLinks'
BY MoneySteps, StillLinks, CheckoutLinks, PaysLinks, TakesBackLinks

(***************************************************************************)
(* Where staff record money only through pay(), a link asks for all that   *)
(* its invoice owes (build_checkout_url), and one credit at most is there  *)
(* at a time, whatever the calls that are under way still do.              *)
(***************************************************************************)
THEOREM LinksAskForAll ==
  ASSUME AdminOps \subseteq {"pay", "invoice_destroy"}
  PROVE  Spec => [](IInv /\ IInvCalls /\ LinksAreOwn /\ IInvLinks)
<1>1. "update" \notin AdminOps
  OBVIOUS
<1>2. Spec => []IInv
  BY <1>1, BalanceStaysChecked
<1>3. Init => IInvLinks
  BY LinksInitially
<1>4. IInv /\ IInv' /\ IInvCalls /\ LinksAreOwn /\ IInvLinks /\ [Next]_vars => IInvLinks'
  BY LinksFitStep
<1> QED BY <1>2, <1>3, <1>4, OutcomesInStep, LinksHold, PTL DEF Spec

(***************************************************************************)
(* However many links a student has opened, and however the calls about    *)
(* them overlap, at most one gateway's credit is on an invoice, and the    *)
(* invoice owes nothing then: "whichever gateway settles second is         *)
(* rejected".  No provider has to wait for our answers.  Where staff use   *)
(* the unlocked endpoints it is not so: a payment they delete beside it    *)
(* makes room for a second credit.                                         *)
(***************************************************************************)
THEOREM OneCreditPerInvoice ==
  ASSUME AdminOps \subseteq {"pay", "invoice_destroy"}
  PROVE  Spec => []OneGatewayCredit
<1>1. IInvLinks => OneGatewayCredit
  BY DEF IInvLinks
<1>2. Spec => []IInvLinks
  BY LinksAskForAll, PTL
<1> QED BY <1>1, <1>2, PTL

-----------------------------------------------------------------------------
(* Statuses there: whoever recounts an invoice does so alone *)

\* A request that takes a credit back names one that is still there.
LEMMA TakesOwn ==
  ASSUME IInvSerial, IInvLinks, IInvStatus, NEW r \in Requests,
         Recounts(r), req[r].op = "cancel"
  PROVE  /\ req[r].pay \in Payments /\ req[r].inv \in Invoices /\ req[r].txn \in PaymeTxns
         /\ pay[req[r].pay].txn = req[r].txn /\ txn[req[r].txn].status = "success"
         /\ txn[req[r].txn].payment = req[r].pay
         /\ OnInvoice(req[r].pay, req[r].inv)
<1>1. Reverses(req[r].was, req[r].pay)
  BY DEF Recounts, Settling, Locking
<1>2. /\ req[r].txn \in PaymeTxns /\ req[r].txn \in Txns /\ req[r].txn # None
      /\ req[r].inv = txn[req[r].txn].inv
  BY NoneAssumption DEF IInvLinks, CallFits, Txns
<1>3. txn[req[r].txn].status = "success" /\ txn[req[r].txn].payment = req[r].pay
  BY <1>1, <1>2 DEF IInvSerial, ReadsHold, Reverses
<1>4. CreditsOf(req[r].txn) = {req[r].pay} /\ pay[req[r].pay].state = "live"
  BY <1>2, <1>3 DEF IInvSerial, ReadsHold, IInvCalls, CreditsInStep, IInvStatus, CreditsFitLinks
<1>5. req[r].pay \in Payments /\ pay[req[r].pay].txn = req[r].txn
  BY <1>4 DEF CreditsOf
<1>6. req[r].inv \in Invoices
  BY <1>2 DEF IInvSerial, IInvCalls, Bookkeeping, InvoiceNamed
<1>7. pay[req[r].pay].inv = req[r].inv
  BY <1>2, <1>5 DEF IInvStatus, CreditsFitLinks
<1> QED BY <1>2, <1>3, <1>4, <1>5, <1>6, <1>7 DEF OnInvoice

LEMMA RecountsAlone ==
  ASSUME IInv, IInvSerial, IInvLinks, IInvStatus, NEW r \in Requests, NEW s \in Requests,
         Recounts(r), Recounts(s), req[r].inv = req[s].inv
  PROVE  r = s
<1>1. CASE Settling(r) /\ Settling(s)
  BY <1>1 DEF IInv, Bookkeeping, LockHeld
<1>2. CASE Settling(r) /\ ~Settling(s)
  BY <1>2, SettlingAlone, TakesOwn DEF Recounts
<1>3. CASE ~Settling(r) /\ Settling(s)
  BY <1>3, SettlingAlone, TakesOwn DEF Recounts
<1>4. CASE ~Settling(r) /\ ~Settling(s)
  <2>1. req[r].op = "cancel" /\ req[s].op = "cancel"
    BY <1>4 DEF Recounts
  <2>2. req[r].pay = req[s].pay
    BY <2>1, TakesOwn DEF IInvLinks, OneGatewayCredit
  <2>3. req[r].txn = req[s].txn /\ req[r].txn # None
    BY <2>1, <2>2, TakesOwn, NoneAssumption DEF Txns
  <2> QED BY <2>3 DEF IInvSerial, OneCallEach
<1> QED BY <1>1, <1>2, <1>3, <1>4

LEMMA RecountKept ==
  ASSUME Bookkeeping, NEW r \in Requests, req'[r] = req[r], RecountHolds(r),
         \A i \in Invoices : Recounts(r) /\ req[r].inv = i =>
           /\ inv'[i].total = inv[i].total /\ inv'[i].status = inv[i].status
           /\ PaidUnits(i)' = PaidUnits(i)
  PROVE  RecountHolds(r)'
<1> SUFFICES ASSUME Recounts(r)'
             PROVE  RecountHolds(r)'
  BY DEF RecountHolds
<1>1. Recounts(r)
  BY DEF Recounts, Settling
<1>2. req[r].inv \in Invoices
  BY <1>1 DEF Bookkeeping, InvoiceNamed, Recounts, Settling, Locking
<1>3. PICK i \in Invoices : i = req[r].inv
  BY <1>2
<1>4. OwnView(req[r])' = OwnView(req[r])
  BY <1>1, <1>3, ViewKept
<1> QED BY <1>1, <1>3, <1>4 DEF RecountHolds

LEMMA StillStatus ==
  ASSUME IInvSerial, IInvStatus, Still
  PROVE  IInvStatus'
<1>1. /\ Bookkeeping /\ TypeOK /\ UNCHANGED pay /\ InvKept /\ LinksKept /\ MoversFit
      /\ CreditsFitLinks /\ StatusInSync /\ \A r \in Requests : RecountHolds(r)
  BY DEF IInvSerial, IInvCalls, IInvStatus, Still, Bookkeeping
<1>2. TotalsKept
  BY <1>1 DEF TotalsKept, InvKept
<1>3. \A i \in Invoices : invoice_paid_amount(i)' = invoice_paid_amount(i)
  BY <1>1, <1>2, BalanceKept
<1>4. \A i : PaidUnits(i)' = PaidUnits(i)
  BY <1>1 DEF PaidUnits
<1>5. StatusInSync'
  BY <1>1, <1>3 DEF StatusInSync, InvKept
<1>6. ASSUME NEW r \in Requests PROVE RecountHolds(r)'
  <2>1. CASE Fits(r)
    BY <1>1, <2>1 DEF Fits
  <2>2. CASE req'[r] = req[r]
    BY <1>1, <1>4, <2>2, RecountKept DEF InvKept
  <2> QED BY <1>1, <2>1, <2>2 DEF MoversFit
<1>7. CreditsFitLinks'
  <2>1. ASSUME NEW p \in Payments, pay'[p].txn # None PROVE pay'[p].inv = txn'[pay'[p].txn].inv
    <3>1. pay[p].txn \in Txns
      BY <1>1, <2>1 DEF TypeOK, PaymentRow
    <3> QED BY <1>1, <2>1, <3>1 DEF CreditsFitLinks, LinksKept
  <2>2. ASSUME NEW t \in Txns, txn'[t].status = "success" PROVE pay'[txn'[t].payment].state = "live"
    BY <1>1, <2>2 DEF CreditsFitLinks, LinksKept
  <2> QED BY <2>1, <2>2 DEF CreditsFitLinks
<1> QED BY <1>5, <1>6, <1>7 DEF IInvStatus

\* A new link: nothing has been credited for it.
LEMMA CheckoutStatus ==
  ASSUME IInvSerial, IInvStatus, NEW t \in Txns, NEW j \in Invoices, Checkout(t, j)
  PROVE  IInvStatus'
<1>1. /\ Bookkeeping /\ TypeOK /\ CreditsInStep /\ ReadsHold
      /\ CreditsFitLinks /\ StatusInSync /\ \A r \in Requests : RecountHolds(r)
  BY DEF IInvSerial, IInvCalls, IInvStatus, Bookkeeping
<1> DEFINE row == [NoTxn EXCEPT !.status = "initiated", !.inv = j, !.amount = invoice_balance(j)]
<1>2. row.status = "initiated"
  BY DEF NoTxn
<1>3. /\ txn' = [txn EXCEPT ![t] = row] /\ UNCHANGED <<inv, pay, rowLock, req>>
      /\ txn[t].status = "absent"
  BY DEF Checkout
<1> HIDE DEF row
<1>4. \A u \in Txns : txn'[u] = IF u = t THEN row ELSE txn[u]
  BY <1>1, <1>3 DEF TypeOK
<1>5. \A i \in Invoices : invoice_paid_amount(i)' = invoice_paid_amount(i)
  BY <1>3, PaidUnchanged
<1>6. \A i : PaidUnits(i)' = PaidUnits(i)
  BY <1>3 DEF PaidUnits
<1>7. StatusInSync'
  BY <1>1, <1>3, <1>5 DEF StatusInSync
<1>8. \A r \in Requests : RecountHolds(r)'
  BY <1>1, <1>3, <1>6, RecountKept
<1>9. CreditsFitLinks'
  <2>1. ASSUME NEW p \in Payments, pay'[p].txn # None PROVE pay'[p].inv = txn'[pay'[p].txn].inv
    <3>1. pay[p].txn \in Txns
      BY <1>1, <1>3, <2>1 DEF TypeOK, PaymentRow
    <3>2. pay[p].txn # t
      BY <1>1, <1>3, <2>1 DEF CreditsInStep, ReadsHold, CreditsOf, Unsettled
    <3> QED BY <1>1, <1>3, <1>4, <2>1, <3>1, <3>2 DEF CreditsFitLinks
  <2>2. ASSUME NEW u \in Txns, txn'[u].status = "success" PROVE pay'[txn'[u].payment].state = "live"
    BY <1>1, <1>2, <1>3, <1>4, <2>2 DEF CreditsFitLinks
  <2> QED BY <2>1, <2>2 DEF CreditsFitLinks
<1> QED BY <1>7, <1>8, <1>9 DEF IInvStatus

\* What the last step of a recount saves is the status of the sum it leaves.
LEMMA SavedInSync ==
  ASSUME Bookkeeping, StatusInSync, NEW r \in Requests, RecountHolds(r), Recounts(r),
         req[r].pc = "commit", StatusSaved(r), NEW i \in Invoices, i = req[r].inv,
         invoice_paid_amount(i)' = OwnView(req[r]),
         \A j \in Invoices : j # i => invoice_paid_amount(j)' = invoice_paid_amount(j)
  PROVE  /\ StatusInSync' /\ TotalsKept
         /\ \A j \in Invoices : j # i => inv'[j] = inv[j]
<1>1. /\ inv \in [Invoices -> InvoiceRow]
      /\ req[r].total = inv[i].total /\ req[r].status = inv[i].status
      /\ req[r].write = IF StatusFor(OwnView(req[r]), req[r].total) # req[r].status
                        THEN StatusFor(OwnView(req[r]), req[r].total) ELSE "none"
  BY DEF RecountHolds, Bookkeeping, TypeOK
<1> DEFINE s == StatusFor(OwnView(req[r]), inv[i].total)
<1>2. s # "none"
  BY DEF StatusFor
<1>3. req[r].write = IF s # inv[i].status THEN s ELSE "none"
  BY <1>1
<1> HIDE DEF s
<1>4. CASE req[r].write = "none"
  <2>1. inv' = inv /\ s = inv[i].status
    BY <1>2, <1>3, <1>4 DEF StatusSaved
  <2> QED BY <2>1 DEF StatusInSync, TotalsKept, s
<1>5. CASE req[r].write # "none"
  <2>1. inv' = [inv EXCEPT ![i].status = s]
    BY <1>3, <1>5 DEF StatusSaved
  <2>2. /\ inv'[i].status = s /\ inv'[i].total = inv[i].total
        /\ \A j \in Invoices : j # i => inv'[j] = inv[j]
    BY <1>1, <2>1 DEF InvoiceRow
  <2> QED BY <2>2 DEF StatusInSync, TotalsKept, s
<1> QED BY <1>4, <1>5

\* The others know what they knew of their invoices.
LEMMA OthersRecount ==
  ASSUME IInv, IInvSerial, IInvLinks, IInvStatus, NEW r \in Requests, Recounts(r), Ends(r),
         NEW i \in Invoices, i = req[r].inv,
         \A j \in Invoices : j # i => inv'[j] = inv[j] /\ PaidUnits(j)' = PaidUnits(j)
  PROVE  \A s \in Requests : RecountHolds(s)'
<1>1. Bookkeeping /\ TypeOK /\ \A s \in Requests : RecountHolds(s)
  BY DEF IInvSerial, IInvCalls, IInvStatus, Bookkeeping
<1>2. MoversFit /\ \A s \in Requests \ {r} : req'[s] = req[s]
  BY <1>1, EndFits
<1>3. ASSUME NEW s \in Requests PROVE RecountHolds(s)'
  <2>1. CASE Fits(s)
    BY <1>1, <2>1 DEF Fits
  <2>2. CASE s # r
    <3>1. Recounts(s) => req[s].inv # i
      BY <2>2, RecountsAlone
    <3> QED BY <1>1, <1>2, <2>2, <3>1, RecountKept
  <2>3. CASE s = r
    <3>1. req[r].op # "none" /\ req'[r] = NoCall
      BY <1>1 DEF Recounts, Settling, Locking, Ends, TypeOK
    <3>2. req'[s] # req[s]
      BY <2>3, <3>1, NoCallFields
    <3> QED BY <1>2, <2>1, <3>2 DEF MoversFit
  <2> QED BY <2>2, <2>3
<1> QED BY <1>3

\* A credit under the lock.
LEMMA PaysStatus ==
  ASSUME IInv, IInv', IInvSerial, IInvLinks, IInvStatus, NEW r \in Requests, Pays(r)
  PROVE  IInvStatus'
<1>1. /\ Bookkeeping /\ Bookkeeping' /\ TypeOK /\ CreditsInStep /\ ReadsHold
      /\ CreditsFitLinks /\ StatusInSync /\ RecountHolds(r)
  BY DEF IInv, IInvSerial, IInvCalls, IInvStatus, Bookkeeping
<1>2. Recounts(r) /\ req[r].pc = "commit" /\ Ends(r) /\ StatusSaved(r) /\ req[r].op \in Crediting
  BY DEF Pays, Recounts, Crediting
<1>3. PICK t \in Txns \cup {None}, i \in Invoices, p \in Payments, a \in Nat :
        /\ i = req[r].inv /\ a = req[r].amount
        /\ Credited(r, t) /\ pay[p].state = "absent"
        /\ pay'[p].state = "live" /\ pay'[p].inv = i /\ pay'[p].txn = t
        /\ \A q \in Payments \ {p} : pay'[q] = pay[q]
        /\ \A u \in Txns \ {t} : txn'[u] = txn[u]
        /\ t # None =>
             /\ txn[t].inv = i /\ txn'[t].inv = i
             /\ txn'[t].status = "success" /\ txn'[t].payment = p
  BY PaysCredit DEF IInvSerial
<1>4. \A j \in Invoices : invoice_paid_amount(j)' = IF j = i THEN invoice_paid_amount(j) + a
                                                     ELSE invoice_paid_amount(j)
  BY <1>1, <1>3, BalanceAfterCredit
<1>5. \A j \in Invoices : j # i => PaidUnits(j)' = PaidUnits(j)
  <2>1. ASSUME NEW j \in Invoices, j # i PROVE PaidUnits(j)' = PaidUnits(j)
    BY <1>3, <2>1 DEF PaidUnits
  <2> QED BY <2>1
<1>6. OwnView(req[r]) = invoice_paid_amount(i) + a
  BY <1>2, <1>3 DEF OwnView
<1>7. StatusInSync' /\ \A j \in Invoices : j # i => inv'[j] = inv[j]
  BY <1>1, <1>2, <1>3, <1>4, <1>6, SavedInSync
<1>8. \A s \in Requests : RecountHolds(s)'
  BY <1>2, <1>3, <1>5, <1>7, OthersRecount
<1>9. \A u \in Txns : txn'[u].inv = txn[u].inv
  <2>1. t \in Txns => t # None
    BY NoneAssumption
  <2> QED BY <1>3, <2>1
<1>10. CreditsFitLinks'
  <2>1. ASSUME NEW q \in Payments, pay'[q].txn # None PROVE pay'[q].inv = txn'[pay'[q].txn].inv
    <3>1. CASE q = p
      BY <1>3, <2>1, <3>1
    <3>2. CASE q # p
      <4>1. pay'[q] = pay[q] /\ pay[q].txn \in Txns
        BY <1>1, <1>3, <2>1, <3>2 DEF TypeOK, PaymentRow
      <4> QED BY <1>1, <1>9, <2>1, <4>1 DEF CreditsFitLinks
    <3> QED BY <3>1, <3>2
  <2>2. ASSUME NEW u \in Txns, txn'[u].status = "success" PROVE pay'[txn'[u].payment].state = "live"
    <3>1. CASE u = t
      BY <1>3, <2>2, <3>1, NoneAssumption
    <3>2. CASE u # t
      <4>1. txn'[u] = txn[u]
        BY <1>3, <3>2
      <4>2. pay[txn[u].payment].state = "live" /\ txn[u].payment \in CreditsOf(u)
        BY <1>1, <2>2, <4>1 DEF CreditsFitLinks, CreditsInStep, ReadsHold
      <4>3. txn[u].payment \in Payments /\ txn[u].payment # p
        BY <1>3, <4>2 DEF CreditsOf
      <4> QED BY <1>3, <4>1, <4>2, <4>3
    <3> QED BY <3>1, <3>2
  <2> QED BY <2>1, <2>2 DEF CreditsFitLinks
<1> QED BY <1>7, <1>8, <1>10 DEF IInvStatus

\* A reversal recounts the invoice alone, and its link no longer counts as paid.
LEMMA TakesBackStatus ==
  ASSUME IInv, IInv', IInvSerial, IInvLinks, IInvStatus, NEW r \in Requests, TakesBack(r)
  PROVE  IInvStatus'
<1>1. /\ Bookkeeping /\ TypeOK /\ CreditsInStep /\ ReadsHold
      /\ CreditsFitLinks /\ StatusInSync /\ RecountHolds(r)
  BY DEF IInv, IInvSerial, IInvCalls, IInvStatus, Bookkeeping
<1>2. /\ Recounts(r) /\ req[r].op = "cancel" /\ req[r].pc = "commit" /\ Ends(r) /\ StatusSaved(r)
      /\ PaymentSoftDeleted(r) /\ LinksKept /\ (req[r].txn \in Txns => txn'[req[r].txn].status = "cancelled")
  BY DEF TakesBack
<1>3. PICK i \in Invoices, p \in Payments, t \in Txns :
        /\ i = req[r].inv /\ p = req[r].pay /\ t = req[r].txn
        /\ pay[p].txn = t /\ pay[p].inv = i
  BY <1>2, TakesOwn DEF Txns, OnInvoice
<1>4. /\ pay'[p].state = "deleted"
      /\ \A q \in Payments : /\ q # p => pay'[q] = pay[q]
                             /\ pay'[q].inv = pay[q].inv /\ pay'[q].txn = pay[q].txn
  BY <1>1, <1>2, <1>3 DEF PaymentSoftDeleted, TypeOK, PaymentRow
<1>5. \A j \in Invoices : j # i => PaidUnits(j)' = PaidUnits(j)
  <2>1. ASSUME NEW j \in Invoices, j # i PROVE PaidUnits(j)' = PaidUnits(j)
    BY <1>3, <1>4, <2>1 DEF PaidUnits
  <2> QED BY <2>1
<1> DEFINE rest == {u \in PaidUnits(i) : u[1] # p}
<1>6. PaidUnits(i)' = rest
  <2>1. \A q \in Payments : q # p => pay'[q] = pay[q]
    BY <1>4
  <2> QED BY <1>4, <2>1 DEF PaidUnits
<1>7. OwnView(req[r]) = Cardinality(rest)
  BY <1>2, <1>3 DEF OwnView, Crediting
<1>8. invoice_paid_amount(i)' = Cardinality(rest)
  BY <1>6 DEF invoice_paid_amount
<1> HIDE DEF rest
<1>9. \A j \in Invoices : j # i => invoice_paid_amount(j)' = invoice_paid_amount(j)
  BY <1>5 DEF invoice_paid_amount
<1>10. StatusInSync' /\ \A j \in Invoices : j # i => inv'[j] = inv[j]
  BY <1>1, <1>2, <1>3, <1>7, <1>8, <1>9, SavedInSync
<1>11. \A s \in Requests : RecountHolds(s)'
  BY <1>2, <1>3, <1>5, <1>10, OthersRecount
<1>12. CreditsFitLinks'
  <2>1. ASSUME NEW q \in Payments, pay'[q].txn # None PROVE pay'[q].inv = txn'[pay'[q].txn].inv
    <3>1. pay[q].txn \in Txns
      BY <1>1, <1>4, <2>1 DEF TypeOK, PaymentRow
    <3> QED BY <1>1, <1>2, <1>4, <2>1, <3>1 DEF CreditsFitLinks, LinksKept
  <2>2. ASSUME NEW u \in Txns, txn'[u].status = "success" PROVE pay'[txn'[u].payment].state = "live"
    <3>1. txn[u].status = "success" /\ txn'[u].payment = txn[u].payment /\ u # t
      BY <1>2, <1>3, <2>2 DEF LinksKept
    <3>2. txn[u].payment \in CreditsOf(u) /\ pay[txn[u].payment].state = "live"
      BY <1>1, <3>1 DEF CreditsInStep, ReadsHold, CreditsFitLinks
    <3>3. txn[u].payment # p
      BY <1>3, <3>1, <3>2 DEF CreditsOf
    <3> QED BY <1>4, <3>1, <3>2, <3>3 DEF CreditsOf
  <2> QED BY <2>1, <2>2 DEF CreditsFitLinks
<1> QED BY <1>10, <1>11, <1>12 DEF IInvStatus

LEMMA StatusInit ==
  ASSUME 0 \notin Totals, Init
  PROVE  IInvStatus
<1>1. /\ \A p \in Payments : pay[p] = NoPayment
      /\ \A t \in Txns : txn[t] = NoTxn
      /\ \A r \in Requests : req[r] = NoCall
  BY DEF Init
<1>2. CreditsFitLinks
  BY <1>1 DEF CreditsFitLinks, NoPayment, NoTxn
<1>3. \A r \in Requests : RecountHolds(r)
  BY <1>1, NoCallFields DEF RecountHolds, Recounts, Settling, Locking
<1>4. ASSUME NEW i \in Invoices
      PROVE  inv[i].status = StatusFor(invoice_paid_amount(i), inv[i].total)
  <2>1. inv[i].status = "pending" /\ inv[i].total \in Totals
    BY DEF Init
  <2>2. inv[i].total \in Nat /\ inv[i].total # 0
    <3>1. PICK n \in Totals : n = inv[i].total
      BY <2>1
    <3>2. n # 0
      OBVIOUS
    <3>3. n \in 0..MaxAmount /\ MaxAmount \in Nat
      BY DataAssumption
    <3> QED BY <3>1, <3>2, <3>3
  <2>3. invoice_paid_amount(i) = 0
    BY NothingPaidInitially
  <2> QED BY <2>1, <2>2, <2>3 DEF StatusFor
<1> QED BY <1>2, <1>3, <1>4 DEF IInvStatus, StatusInSync

LEMMA StatusStep ==
  ASSUME AdminOps \subseteq {"pay", "invoice_destroy"}
  PROVE  IInv /\ IInv' /\ IInvSerial /\ IInvLinks /\ IInvStatus /\ [Next]_vars => IInvStatus'
<1>1. IInvSerial => IInvCalls
  BY DEF IInvSerial
<1> QED BY <1>1, MoneySteps, StillStatus, CheckoutStatus, PaysStatus, TakesBackStatus

(***************************************************************************)
(* Where staff record payments only under the lock and a provider waits    *)
(* for our answers, an invoice's status is always that of its payments: a  *)
(* credit that Payme may take back has paid all that was owed, so nobody   *)
(* else can be about to save that invoice's status when it is taken back   *)
(* without the lock.  A total of 0 is left out: such an invoice starts as  *)
(* pending, and no payment ever recounts it.                               *)
(***************************************************************************)
THEOREM StatusesInSync ==
  ASSUME SerialProvider, AdminOps \subseteq {"pay", "invoice_destroy"}, 0 \notin Totals
  PROVE  Spec => []StatusInSync
<1>1. "update" \notin AdminOps
  OBVIOUS
<1>2. Spec => []IInv
  BY <1>1, BalanceStaysChecked
<1>3. Spec => []IInvSerial
  BY CallsReadTrue
<1>4. Init => IInvStatus
  BY StatusInit
<1>5. IInv /\ IInv' /\ IInvSerial /\ IInvLinks /\ IInvStatus /\ [Next]_vars => IInvStatus'
  BY StatusStep
<1>6. IInvStatus => StatusInSync
  BY DEF IInvStatus
<1>7. Spec => []IInvLinks
  BY LinksAskForAll, PTL
<1> QED BY <1>2, <1>3, <1>4, <1>5, <1>6, <1>7, PTL DEF Spec

-----------------------------------------------------------------------------
(* Waiting                                                                  *)

\* A step of one request keeps every row lock with the request that settles the invoice.
Moves(r) ==
  /\ \A s \in Requests \ {r} : req'[s] = req[s]
  /\ req'[r].pc = "lock" => req'[r].op \in Locking
  /\ \A i \in Invoices : rowLock'[i] # None =>
       \/ rowLock'[i] = rowLock[i] /\ rowLock[i] # r
       \/ rowLock'[i] = r /\ Settling(r)' /\ req'[r].inv = i

\* A request that is not past a balance check has no row.
LEMMA NoRows ==
  ASSUME RowsOwned, NEW r \in Requests, ~Settling(r)
  PROVE  \A i \in Invoices : rowLock[i] # r
BY NoneAssumption DEF RowsOwned

LEMMA StartMoves ==
  ASSUME TypeOK, RowsOwned, NEW r \in Requests, NEW q, Starts(r, q), UNCHANGED rowLock,
         q.pc = "lock" => q.op \in Locking
  PROVE  Moves(r)
<1>1. req'[r] = q /\ \A s \in Requests \ {r} : req'[s] = req[s]
  BY DEF TypeOK, Starts
<1>2. ~Settling(r)
  BY DEF Starts, Idle, Settling
<1> QED BY <1>1, <1>2, NoRows DEF Moves

LEMMA EndMoves ==
  ASSUME Bookkeeping, RowsOwned, NEW r \in Requests, Ends(r),
         \/ UNCHANGED rowLock /\ ~Settling(r)
         \/ Releases(r)
         \/ rowLock' = [i \in Invoices |-> IF rowLock[i] = r THEN None ELSE rowLock[i]]
  PROVE  Moves(r)
<1>1. /\ req'[r] = NoCall /\ \A s \in Requests \ {r} : req'[s] = req[s]
      /\ rowLock \in [Invoices -> Requests \cup {None}]
  BY DEF Bookkeeping, TypeOK, Ends
<1>2. ASSUME NEW i \in Invoices, rowLock'[i] # None
      PROVE  rowLock'[i] = rowLock[i] /\ rowLock[i] # r
  <2>1. CASE UNCHANGED rowLock /\ ~Settling(r)
    BY <2>1, NoRows
  <2>2. CASE Releases(r)
    BY <1>1, <1>2, <2>2, NoneAssumption DEF Releases, RowsOwned
  <2>3. CASE rowLock' = [j \in Invoices |-> IF rowLock[j] = r THEN None ELSE rowLock[j]]
    BY <1>2, <2>3
  <2> QED BY <2>1, <2>2, <2>3
<1> QED BY <1>1, <1>2, NoCallFields DEF Moves

\* A request that goes on without a lock of its own, or with the one it has.
LEMMA GoesOnMoves ==
  ASSUME Bookkeeping, RowsOwned, NEW r \in Requests, NEW q, req' = [req EXCEPT ![r] = q],
         UNCHANGED rowLock, q.pc \in {"recompute", "commit"},
         q.op = req[r].op, q.inv = req[r].inv
  PROVE  Moves(r)
<1>1. req'[r] = q /\ \A s \in Requests \ {r} : req'[s] = req[s]
  BY DEF Bookkeeping, TypeOK
<1>2. ASSUME NEW i \in Invoices, rowLock[i] = r
      PROVE  Settling(r)' /\ req'[r].inv = i
  BY <1>1, <1>2, NoneAssumption DEF RowsOwned, Settling
<1> QED BY <1>1, <1>2 DEF Moves

LEMMA LockMoves ==
  ASSUME Bookkeeping, RowsOwned, NEW r \in Requests, NEW q, req' = [req EXCEPT ![r] = q],
         ~Settling(r), q.op \in Locking, q.pc = "recompute", q.inv \in Invoices,
         rowLock' = [rowLock EXCEPT ![q.inv] = r]
  PROVE  Moves(r)
<1>1. /\ req'[r] = q /\ \A s \in Requests \ {r} : req'[s] = req[s]
      /\ rowLock \in [Invoices -> Requests \cup {None}]
  BY DEF Bookkeeping, TypeOK
<1>2. Settling(r)'
  BY <1>1 DEF Settling
<1>3. ASSUME NEW i \in Invoices
      PROVE  IF i = q.inv THEN rowLock'[i] = r ELSE rowLock'[i] = rowLock[i] /\ rowLock[i] # r
  BY <1>1, NoRows
<1> QED BY <1>1, <1>2, <1>3 DEF Moves

LEMMA ProviderMoves ==
  ASSUME Bookkeeping, RowsOwned, NEW r \in Requests, NEW t \in Txns, ProviderCalls(r, t)
  PROVE  Moves(r)
<1> USE NoCallTyped DEF Locking
<1>1. TypeOK /\ UNCHANGED rowLock
  BY DEF Bookkeeping, ProviderCalls, CreateTransactionRead, PrepareRead, PerformTransactionRead,
         CancelTransactionRead, CompleteRead, CompleteFailedRead
<1>2. ASSUME NEW id \in ProviderIds, CreateTransactionRead(r, t, id) \/ PrepareRead(r, t, id)
      PROVE  Moves(r)
  <2>1. PICK o \in {"create_txn", "prepare"} :
          Starts(r, [NoCall EXCEPT !.op = o, !.pc = "commit", !.txn = t, !.id = id, !.was = txn[t].status])
    BY <1>2 DEF CreateTransactionRead, PrepareRead
  <2> DEFINE q == [NoCall EXCEPT !.op = o, !.pc = "commit", !.txn = t, !.id = id, !.was = txn[t].status]
  <2>2. q.pc = "commit"
    BY DEF Call
  <2>3. Starts(r, q)
    BY <2>1
  <2> HIDE DEF q
  <2> QED BY <1>1, <2>2, <2>3, StartMoves
<1>3. ASSUME PerformTransactionRead(r, t) \/ CompleteRead(r, t)
      PROVE  Moves(r)
  <2>1. PICK p \in Payments, o \in {"perform", "complete"} :
          Starts(r, [NoCall EXCEPT !.op = o, !.pc = "lock", !.txn = t, !.pay = p,
                                   !.inv = txn[t].inv, !.amount = txn[t].amount,
                                   !.was = txn[t].status])
    BY <1>3 DEF PerformTransactionRead, CompleteRead
  <2> DEFINE q == [NoCall EXCEPT !.op = o, !.pc = "lock", !.txn = t, !.pay = p,
                                 !.inv = txn[t].inv, !.amount = txn[t].amount,
                                 !.was = txn[t].status]
  <2>2. q.op \in Locking
    BY DEF Call
  <2>3. Starts(r, q)
    BY <2>1
  <2> HIDE DEF q
  <2> QED BY <1>1, <2>2, <2>3, StartMoves
<1>4. ASSUME CancelTransactionRead(r, t)
      PROVE  Moves(r)
  <2>1. PICK c \in {"delete", "commit"} :
          c = IF Reverses(txn[t].status, txn[t].payment) THEN "delete" ELSE "commit"
    OBVIOUS
  <2> DEFINE q == [NoCall EXCEPT !.op = "cancel", !.txn = t, !.inv = txn[t].inv, !.pc = c,
                                 !.pay = txn[t].payment, !.was = txn[t].status]
  <2>2. q.pc # "lock"
    BY DEF Call
  <2>3. Starts(r, q)
    BY <1>4, <2>1 DEF CancelTransactionRead
  <2> HIDE DEF q
  <2> QED BY <1>1, <2>2, <2>3, StartMoves
<1>5. ASSUME CompleteFailedRead(r, t)
      PROVE  Moves(r)
  <2> DEFINE q == [NoCall EXCEPT !.op = "fail", !.pc = "commit", !.txn = t, !.was = txn[t].status]
  <2>1. q.pc = "commit" /\ Starts(r, q)
    BY <1>5 DEF CompleteFailedRead, Call
  <2> HIDE DEF q
  <2> QED BY <1>1, <2>1, StartMoves
<1> QED BY <1>2, <1>3, <1>4, <1>5 DEF ProviderCalls

LEMMA StaffMoves ==
  ASSUME Bookkeeping, RowsOwned, NEW r \in Requests,
         \/ \E i \in Invoices : StaffCalls(r, i)
         \/ \E p \in Payments : PaymentDestroyRead(r, p)
  PROVE  Moves(r)
<1> USE NoCallTyped DEF Locking
<1>1. TypeOK
  BY DEF Bookkeeping
<1>2. ASSUME NEW i \in Invoices, NEW a \in Amounts, PaymentCreateRead(r, i, a) \/ PayLock(r, i, a)
      PROVE  Moves(r)
  <2>1. PICK p \in Payments, o \in {"create", "pay"} :
          /\ Starts(r, [NoCall EXCEPT !.op = o, !.pc = "recompute", !.inv = i, !.pay = p,
                                      !.amount = a, !.total = inv[i].total,
                                      !.status = inv[i].status])
          /\ \/ UNCHANGED rowLock
             \/ o = "pay" /\ rowLock' = [rowLock EXCEPT ![i] = r]
    BY <1>2 DEF PaymentCreateRead, PayLock
  <2> DEFINE q == [NoCall EXCEPT !.op = o, !.pc = "recompute", !.inv = i, !.pay = p,
                                 !.amount = a, !.total = inv[i].total, !.status = inv[i].status]
  <2>2. q.op = o /\ q.inv = i /\ q.pc = "recompute"
    BY DEF Call
  <2>3. Starts(r, q)
    BY <2>1
  <2> HIDE DEF q
  <2>4. CASE UNCHANGED rowLock
    BY <1>1, <2>2, <2>3, <2>4, StartMoves
  <2>5. CASE o = "pay" /\ rowLock' = [rowLock EXCEPT ![i] = r]
    <3>1. ~Settling(r) /\ req' = [req EXCEPT ![r] = q]
      BY <2>3 DEF Starts, Idle, Settling
    <3> QED BY <2>2, <2>5, <3>1, LockMoves
  <2> QED BY <2>1, <2>4, <2>5
<1>3. ASSUME NEW i \in Invoices, NEW a \in Amounts, NEW p \in Payments,
             PaymentUpdateRead(r, p, i, a)
      PROVE  Moves(r)
  <2> DEFINE q == [NoCall EXCEPT !.op = "update", !.pc = "commit", !.inv = i, !.pay = p,
                                 !.amount = a]
  <2>1. q.pc = "commit"
    BY DEF Call
  <2>2. Starts(r, q) /\ UNCHANGED rowLock
    BY <1>3 DEF PaymentUpdateRead
  <2> HIDE DEF q
  <2> QED BY <1>1, <2>1, <2>2, StartMoves
<1>4. ASSUME NEW i \in Invoices, NEW n \in Totals, InvoiceUpdateRead(r, i, n)
      PROVE  Moves(r)
  <2> DEFINE q == [NoCall EXCEPT !.op = "invoice_update", !.pc = "commit", !.inv = i, !.total = n,
                                 !.status = inv[i].status]
  <2>1. q.pc = "commit"
    BY DEF Call
  <2>2. Starts(r, q) /\ UNCHANGED rowLock
    BY <1>4 DEF InvoiceUpdateRead
  <2> HIDE DEF q
  <2> QED BY <1>1, <2>1, <2>2, StartMoves
<1>5. ASSUME NEW p \in Payments, PaymentDestroyRead(r, p)
      PROVE  Moves(r)
  <2> DEFINE i == pay[p].inv
             q == [NoCall EXCEPT !.op = "destroy", !.pc = "delete", !.inv = i, !.pay = p,
                                 !.total = inv[i].total, !.status = inv[i].status]
  <2>1. q.pc = "delete"
    BY DEF Call
  <2>2. Starts(r, q) /\ UNCHANGED rowLock
    BY <1>5 DEF PaymentDestroyRead
  <2> HIDE DEF q
  <2> QED BY <1>1, <2>1, <2>2, StartMoves
<1> QED BY <1>2, <1>3, <1>4, <1>5 DEF StaffCalls

LEMMA ProceedsMoves ==
  ASSUME Bookkeeping, RowsOwned, NEW r \in Requests, Proceeds(r)
  PROVE  Moves(r)
<1> DEFINE c == req[r]
<1>1. req \in [Requests -> Call] /\ c \in Call
  BY DEF Bookkeeping, TypeOK
<1>2. CASE CreateTransactionSave(r) \/ PrepareSave(r) \/ CompleteFailedSave(r)
           \/ CancelTransactionCommit(r) \/ PaymentDestroyCommit(r) \/ PaymentCreateCommit(r)
           \/ PaymentUpdateSave(r) \/ InvoiceUpdateSave(r)
  <2>1. Ends(r) /\ UNCHANGED rowLock /\ c.op \notin Locking
    BY <1>2 DEF CreateTransactionSave, PrepareSave, CompleteFailedSave, CancelTransactionCommit,
      PaymentDestroyCommit, PaymentCreateCommit, PaymentUpdateSave, InvoiceUpdateSave, Locking
  <2> QED BY <2>1, EndMoves DEF Settling
<1>3. CASE PerformTransactionCommit(r) \/ CompleteCommit(r) \/ PayCommit(r)
  <2>1. Ends(r) /\ Releases(r)
    BY <1>3 DEF PerformTransactionCommit, CompleteCommit, PayCommit
  <2> QED BY <2>1, EndMoves
<1>4. CASE CancelTransactionDelete(r) \/ PaymentDestroyDelete(r) \/ Recompute(r)
  <2>1. UNCHANGED rowLock /\ req' = [req EXCEPT ![r] = req'[r]]
    BY <1>1, <1>4 DEF CancelTransactionDelete, PaymentDestroyDelete, Recompute
  <2>2. req'[r].op = c.op /\ req'[r].inv = c.inv /\ req'[r].pc \in {"recompute", "commit"}
    BY <1>1, <1>4 DEF CancelTransactionDelete, PaymentDestroyDelete, Recompute, Call
  <2> QED BY <2>1, <2>2, GoesOnMoves
<1>5. CASE SettleLock(r)
  <2>1. c.pc = "lock" /\ ~Settling(r) /\ c.op \in Locking /\ c.inv \in Invoices
    BY <1>5 DEF SettleLock, Settling, RowsOwned, Bookkeeping, InvoiceNamed
  <2>2. CASE Ends(r) /\ UNCHANGED rowLock
    BY <2>1, <2>2, EndMoves
  <2>3. CASE /\ rowLock' = [rowLock EXCEPT ![c.inv] = r]
             /\ req' = [req EXCEPT ![r].pc = "recompute", ![r].total = inv[c.inv].total,
                                   ![r].status = inv[c.inv].status]
    <3>1. /\ req' = [req EXCEPT ![r] = req'[r]] /\ req'[r].pc = "recompute"
          /\ req'[r].op = c.op /\ req'[r].inv = c.inv
      BY <1>1, <2>3 DEF Call
    <3> QED BY <2>1, <2>3, <3>1, LockMoves
  <2> QED BY <1>5, <2>2, <2>3 DEF SettleLock
<1> QED BY <1>2, <1>3, <1>4, <1>5 DEF Proceeds

LEMMA MovesKeepRows ==
  ASSUME Bookkeeping, RowsOwned, NEW r \in Requests, Moves(r)
  PROVE  RowsOwned'
<1>1. rowLock \in [Invoices -> Requests \cup {None}]
  BY DEF Bookkeeping, TypeOK
<1>2. ASSUME NEW i \in Invoices, NEW s \in Requests, rowLock'[i] = s
      PROVE  Settling(s)' /\ req'[s].inv = i
  <2>1. CASE rowLock'[i] = rowLock[i] /\ rowLock[i] # r
    <3>1. Settling(s) /\ req[s].inv = i /\ req'[s] = req[s]
      BY <1>2, <2>1, NoneAssumption DEF Moves, RowsOwned
    <3> QED BY <3>1 DEF Settling
  <2>2. CASE rowLock'[i] = r /\ Settling(r)' /\ req'[r].inv = i
    BY <1>2, <2>2
  <2> QED BY <1>2, <2>1, <2>2, NoneAssumption DEF Moves
<1>3. ASSUME NEW s \in Requests, req'[s].pc = "lock"
      PROVE  req'[s].op \in Locking
  BY <1>3 DEF Moves, RowsOwned
<1>4. ASSUME NEW i \in Invoices
      PROVE  rowLock'[i] \in Requests \cup {None}
  BY <1>1, <1>4 DEF Moves
<1> QED BY <1>2, <1>3, <1>4 DEF RowsOwned, Settling

LEMMA RowsInit == Init => RowsOwned
BY NoCallFields DEF Init, RowsOwned

LEMMA RowsStep == Bookkeeping /\ RowsOwned /\ [Next]_vars => RowsOwned'
<1> SUFFICES ASSUME Bookkeeping, RowsOwned, [Next]_vars PROVE RowsOwned'
  OBVIOUS
<1>1. CASE \E r \in Requests : Moves(r)
  BY <1>1, MovesKeepRows
<1>2. CASE UNCHANGED <<rowLock, req>>
  BY <1>2 DEF RowsOwned, Settling
<1>3. ASSUME NEW r \in Requests, Abort(r)
      PROVE  Moves(r)
  BY <1>3, EndMoves DEF Abort
<1> QED BY <1>1, <1>2, <1>3, ProviderMoves, StaffMoves, ProceedsMoves
        DEF Next, vars, Checkout, InvoiceDestroy

(***************************************************************************)
(* A row lock is kept by a request that has passed its balance check, on   *)
(* the invoice it settles, and by nobody else: select_for_update() is the  *)
(* only statement that takes one, and commit and rollback give it back.    *)
(***************************************************************************)
THEOREM RowLocksAreOwned == Spec => [](Bookkeeping /\ RowsOwned)
<1>1. Spec => []Bookkeeping
  BY BookkeepingHolds
<1> QED BY <1>1, RowsInit, RowsStep, PTL DEF Spec

\* Who is past its balance check has all it needs.
LEMMA SettlersWaitForNobody ==
  ASSUME Bookkeeping, NEW r \in Requests, Settling(r)
  PROVE  \A s \in Requests : ~WaitsFor(r, s)
<1>1. rowLock[req[r].inv] = r
  BY DEF Bookkeeping, LockHeld
<1>2. ~NeedsPayment(r)
  BY DEF Settling, Locking, NeedsPayment
<1> QED BY <1>1, <1>2 DEF WaitsFor

\* Who keeps an invoice's row settles the invoice.
LEMMA RowOwnerSettles ==
  ASSUME Bookkeeping, RowsOwned, NEW r \in Requests, NEW s \in Requests,
         NeedsInvoice(r), rowLock[req[r].inv] = s
  PROVE  Settling(s)
<1>1. req[r].inv \in Invoices
  BY DEF NeedsInvoice, Bookkeeping, InvoiceNamed, Crediting, Reversing
<1> QED BY <1>1, NoneAssumption DEF RowsOwned

\* Who is in the way has an invoice, and waits for nobody, or a payment.
LEMMA InTheWay ==
  ASSUME Bookkeeping, RowsOwned, NEW r \in Requests, NEW s \in Requests, WaitsFor(r, s)
  PROVE  ~Idle(s) /\ (Settling(s) \/ ~NeedsPayment(s))
<1>1. CASE NeedsInvoice(r) /\ rowLock[req[r].inv] = s
  BY <1>1, RowOwnerSettles DEF Settling, Idle
<1>2. CASE HoldsPayment(s, req[r].pay)
  BY <1>2 DEF HoldsPayment, Reversing, Idle, NeedsPayment
<1> QED BY <1>1, <1>2 DEF WaitsFor

(***************************************************************************)
(* Requests never deadlock, whichever staff endpoints are in use and how-  *)
(* ever many calls overlap: every chain of waits ends after two requests   *)
(* at most, in one that waits for nobody.  This is what EveryCallEnds      *)
(* rests on: PostgreSQL has no circle to find, and no call fails for it.   *)
(***************************************************************************)
THEOREM NoDeadlock == Spec => []WaitsEnd
<1>1. Spec => [](Bookkeeping /\ RowsOwned)
  BY RowLocksAreOwned
<1>2. Bookkeeping /\ RowsOwned => WaitsEnd
  <2> SUFFICES ASSUME Bookkeeping, RowsOwned,
                      NEW r \in Requests, NEW s \in Requests, WaitsFor(r, s)
               PROVE  /\ ~Idle(s)
                      /\ \A u \in Requests : WaitsFor(s, u) =>
                           ~Idle(u) /\ \A v \in Requests : ~WaitsFor(u, v)
    BY DEF WaitsEnd
  <2>1. ASSUME NEW u \in Requests, WaitsFor(s, u)
        PROVE  Settling(u)
    <3>1. ~Settling(s) /\ ~NeedsPayment(s)
      BY <2>1, SettlersWaitForNobody, InTheWay
    <3> QED BY <2>1, <3>1, RowOwnerSettles DEF WaitsFor
  <2> QED BY <2>1, InTheWay, SettlersWaitForNobody
<1> QED BY <1>1, <1>2, PTL
=============================================================================

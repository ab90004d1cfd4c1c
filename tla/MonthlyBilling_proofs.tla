------------------------ MODULE MonthlyBilling_proofs ------------------------
(***************************************************************************)
(* Proofs about MonthlyBilling: nobody is billed twice for a month but by   *)
(* writers that did not see each other's bills, or by moving a bill.        *)
(*                                                                         *)
(* The argument: what a writer has seen of a bill stays true of it until it *)
(* is edited (Forward), so a bill written after a look cannot meet one that *)
(* the look has met.                                                        *)
(*                                                                         *)
(* And a number clashes only with one committed since the last number was   *)
(* looked for, while all have the same width: the greatest as text is then  *)
(* the greatest (BeforeIsLess), and the next is above them all (Ahead).     *)
(*                                                                          *)
(* And a lock or a row not committed yet is that of a transaction past the  *)
(* wait it keeps others in (RowsInHand), save between payments that lock    *)
(* the bills of a month one by one: they go by due date (BillsInOrder), and *)
(* an edit may change that.                                                 *)
(***************************************************************************)
EXTENDS MonthlyBilling, TLAPS

\* Committed rows stay, and are the same unless they have been edited.
Advance ==
  \A i \in Invoice : i \in Rows =>
    /\ i \in Rows' /\ invoice[i].edits <= invoice'[i].edits
    /\ invoice'[i].edits = invoice[i].edits =>
         invoice'[i].place = invoice[i].place /\ invoice'[i].period = invoice[i].period /\ invoice'[i].due = invoice[i].due

\* A row that the step leaves alone, or takes back.
Kept(i) ==
  /\ invoice'[i].seen \subseteq invoice[i].seen
  /\ invoice'[i].state # "absent" =>
       /\ invoice[i].state # "absent" /\ invoice'[i].edits = invoice[i].edits
       /\ invoice'[i].place = invoice[i].place /\ invoice'[i].period = invoice[i].period /\ invoice'[i].due = invoice[i].due

LEMMA PastForward ==
  ASSUME TypeOK, TypeOK', Advance, NEW s \in Invoice \X Nat, Past(s)
  PROVE  Past(s)'
  BY DEF Past, Advance, Rows, Committed, TypeOK, Bill

\* What a writer has seen stays sound.
LEMMA SoundForward ==
  ASSUME TypeOK, TypeOK', Advance, NEW w \in Work, Sound(w)
  PROVE  Sound(w)'
<1>1. \A s \in w.seen : s \in Invoice \X Nat
  BY DEF Work
<1>2. \A s \in w.seen : Past(s)'
  BY <1>1, PastForward DEF Sound
<1>3. \A i \in Rows : i \in Rows'
  BY DEF Advance, Rows
<1>4. ASSUME w.pc \in {"number", "lock", "insert", "save"}, NEW j \in Invoice, <<j, invoice'[j].edits>> \in w.seen
      PROVE  ~Bills(j, w.place, Target(w))' \/ (w.pc = "save" /\ j = w.invoice)
  <2>1. Past(<<j, invoice'[j].edits>>)
    BY <1>4 DEF Sound
  <2>2. j \in Rows /\ invoice'[j].edits <= invoice[j].edits
    BY <2>1 DEF Past
  <2>a. invoice[j].edits \in Nat /\ invoice'[j].edits \in Nat
    BY DEF TypeOK, Bill
  <2>b. invoice[j].edits <= invoice'[j].edits
    BY <2>2 DEF Advance
  <2>3. invoice'[j].edits = invoice[j].edits
    BY <2>2, <2>a, <2>b
  <2>4. invoice'[j].place = invoice[j].place /\ invoice'[j].period = invoice[j].period /\ invoice'[j].due = invoice[j].due
    BY <2>2, <2>3 DEF Advance
  <2>5. ~Bills(j, w.place, Target(w)) \/ (w.pc = "save" /\ j = w.invoice)
    BY <1>4, <2>3 DEF Sound
  <2> QED
    BY <2>4, <2>5 DEF Bills, Target
<1> QED
  BY <1>2, <1>3, <1>4 DEF Sound, Target

LEMMA UnseenForward ==
  ASSUME TypeOK, TypeOK', Advance, NEW i \in Invoice, Kept(i), Unseen(i), \A s \in invoice[i].seen : Past(s)
  PROVE  Unseen(i)'
<1>1. SUFFICES ASSUME invoice'[i].state # "absent", NEW j \in Invoice, BothBill(i, j)', Saw(i, j)'
               PROVE  Moved(i)' \/ Moved(j)'
  BY DEF Unseen
<1>2. /\ invoice[i].state # "absent"
      /\ invoice'[i].place = invoice[i].place /\ invoice'[i].period = invoice[i].period /\ invoice'[i].due = invoice[i].due
      /\ invoice'[i].edits = invoice[i].edits /\ invoice'[i].seen \subseteq invoice[i].seen
  BY <1>1 DEF Kept
<1>3. Past(<<j, invoice'[j].edits>>)
  BY <1>1, <1>2 DEF Saw
<1>a. invoice[j].edits \in Nat /\ invoice'[j].edits \in Nat
  BY DEF TypeOK, Bill
<1>b. j \in Rows /\ invoice'[j].edits <= invoice[j].edits
  BY <1>3 DEF Past
<1>4. j \in Rows /\ invoice'[j].edits = invoice[j].edits
  BY <1>a, <1>b DEF Advance
<1>5. invoice'[j].place = invoice[j].place /\ invoice'[j].period = invoice[j].period /\ invoice'[j].due = invoice[j].due
  BY <1>4 DEF Advance
<1>6. BothBill(i, j) /\ Saw(i, j)
  BY <1>1, <1>2, <1>4, <1>5 DEF BothBill, Bills, Saw
<1>7. Moved(i) \/ Moved(j)
  BY <1>2, <1>6 DEF Unseen
<1> QED
  BY <1>2, <1>4, <1>5, <1>7 DEF Moved

-----------------------------------------------------------------------------
(* The steps *)

LEMMA NoWriterType == NoWriter \in Work
<1>1. 1 \in Months /\ 1 \in DueMonths
  BY BillingAssumption DEF Months, DueMonths
<1> QED
  BY <1>1 DEF NoWriter, Work

\* A writer's fields, one at a time.
LEMMA FieldType ==
  ASSUME NEW x \in Work
  PROVE  /\ \A v \in {"enroll", "self", "pay", "run", "hand", "edit"} : [x EXCEPT !.op = v] \in Work
         /\ \A v \in {"idle", "member", "members", "bills", "rows", "look", "number", "save", "commit", "done"} : [x EXCEPT !.pc = v] \in Work
         /\ \A v \in SUBSET Place : [x EXCEPT !.todo = v] \in Work
         /\ \A v \in Place : [x EXCEPT !.place = v] \in Work
         /\ \A v \in Months : [x EXCEPT !.month = v] \in Work
         /\ \A v \in DueMonths : [x EXCEPT !.due = v] \in Work
         /\ \A v \in BOOLEAN : [x EXCEPT !.billing = v] \in Work
         /\ \A v \in Invoice : [x EXCEPT !.invoice = v] \in Work
         /\ \A v \in SUBSET (Invoice \X Nat) : [x EXCEPT !.seen = v] \in Work
<1>1. \A v \in {"enroll", "self", "pay", "run", "hand", "edit"} : [x EXCEPT !.op = v] \in Work
  BY DEF Work
<1>2. \A v \in {"idle", "member", "members", "bills", "rows", "look", "number", "save", "commit", "done"} : [x EXCEPT !.pc = v] \in Work
  BY DEF Work
<1>3. \A v \in SUBSET Place : [x EXCEPT !.todo = v] \in Work
  BY DEF Work
<1>4. \A v \in Place : [x EXCEPT !.place = v] \in Work
  BY DEF Work
<1>5. \A v \in Months : [x EXCEPT !.month = v] \in Work
  BY DEF Work
<1>6. \A v \in DueMonths : [x EXCEPT !.due = v] \in Work
  BY DEF Work
<1>7. \A v \in BOOLEAN : [x EXCEPT !.billing = v] \in Work
  BY DEF Work
<1>8. \A v \in Invoice : [x EXCEPT !.invoice = v] \in Work
  BY DEF Work
<1>9. \A v \in SUBSET (Invoice \X Nat) : [x EXCEPT !.seen = v] \in Work
  BY DEF Work
<1> QED
  BY <1>1, <1>2, <1>3, <1>4, <1>5, <1>6, <1>7, <1>8, <1>9

\* A writer that has seen nothing and asked for nothing by hand is sound.
LEMMA UnseenSound ==
  ASSUME NEW w \in Work, w.seen = {}, w.pc # "save", w.op \notin {"hand", "edit"}
  PROVE  Sound(w)
  BY DEF Sound

\* So is one that keeps what it is told to keep, and starts afresh otherwise.
LEMMA BlankSound ==
  ASSUME NEW c \in {"idle", "members", "commit", "done"}, NEW S \in SUBSET Place, NEW m \in Months
  PROVE  LET v == [NoWriter EXCEPT !.pc = c]
             w == [NoWriter EXCEPT !.op = "run", !.pc = c, !.todo = S, !.month = m]
         IN  v \in Work /\ Sound(v) /\ w \in Work /\ Sound(w)
<1> DEFINE v == [NoWriter EXCEPT !.pc = c]
           w == [NoWriter EXCEPT !.op = "run", !.pc = c, !.todo = S, !.month = m]
<1>1. v \in Work /\ w \in Work
  BY NoWriterType, FieldType
<1>2. NoWriter.op = "none" /\ NoWriter.seen = {}
  BY DEF NoWriter
<1>3. v.pc = c /\ v.op = "none" /\ v.seen = {} /\ w.pc = c /\ w.op = "run" /\ w.seen = {}
  BY <1>2, NoWriterType DEF Work
<1> HIDE DEF v, w
<1>4. Sound(v) /\ Sound(w)
  BY <1>1, <1>3, UnseenSound
<1> QED
  BY <1>1, <1>4 DEF v, w

LEMMA RestSound ==
  ASSUME TypeOK, NEW r \in Writers, NEW failed \in BOOLEAN
  PROVE  Rest(r, failed) \in Work /\ Sound(Rest(r, failed))
<1>1. writer[r].todo \in SUBSET Place /\ writer[r].month \in Months
  BY DEF TypeOK, Work
<1>2. NoWriter \in Work /\ Sound(NoWriter)
  <2>1. NoWriter.pc = "idle" /\ NoWriter.op = "none" /\ NoWriter.seen = {}
    BY DEF NoWriter
  <2> QED
    BY <2>1, NoWriterType, UnseenSound
<1>3. CASE r # Job
  BY <1>1, <1>3, BlankSound DEF Rest
<1>4. CASE r = Job /\ failed
  BY <1>2, <1>4 DEF Rest
<1>5. CASE r = Job /\ ~failed
  BY <1>1, <1>5, BlankSound DEF Rest
<1> QED
  BY <1>3, <1>4, <1>5

LEMMA ReadySound ==
  ASSUME TypeOK, NEW r \in Writers
  PROVE  Ready(r) \in Work /\ Sound(Ready(r))
<1>1. writer[r].todo \in SUBSET Place /\ writer[r].month \in Months
  BY DEF TypeOK, Work
<1>2. CASE r # Job
  BY <1>1, <1>2, BlankSound DEF Ready
<1>3. CASE r = Job
  BY <1>1, <1>3, BlankSound DEF Ready
<1> QED
  BY <1>2, <1>3

\* A step that leaves the bills alone, and after which the writer is sound.
LEMMA WriterStep ==
  ASSUME IInv, UNCHANGED invoice, NEW r \in Writers, NEW w \in Work, Sound(w), writer' = [writer EXCEPT ![r] = w],
         month' \in Months, member' \in [Place -> Members], held' \in [Invoice -> Writers \cup {None}]
  PROVE  IInv'
<1>1. TypeOK'
  BY DEF IInv, TypeOK
<1>2. Rows' = Rows
  BY DEF Rows, Committed
<1>3. \A s : Past(s) <=> Past(s)'
  BY <1>2 DEF Past
<1>4. \A v \in Work : Sound(v) => Sound(v)'
  BY <1>2, <1>3 DEF Sound, Bills, Target
<1>5. \A q \in Writers : writer'[q] \in Work /\ Sound(writer'[q])
  BY DEF IInv, TypeOK
<1>6. \A i \in Invoice : Unseen(i)' /\ \A s \in invoice'[i].seen : Past(s)'
  BY <1>3 DEF IInv, Unseen, BothBill, Bills, Saw, Moved
<1> QED
  BY <1>1, <1>4, <1>5, <1>6 DEF IInv

\* A step that only commits, takes back or deletes rows.
LEMMA RowsStep ==
  ASSUME IInv, TypeOK', Advance, \A i \in Invoice : Kept(i), NEW r \in Writers, NEW w \in Work, Sound(w),
         writer' = [writer EXCEPT ![r] = w]
  PROVE  IInv'
<1>1. \A i \in Invoice : Unseen(i)'
  BY UnseenForward DEF IInv
<1>2. ASSUME NEW i \in Invoice, NEW s \in invoice'[i].seen PROVE Past(s)'
  <2>1. s \in invoice[i].seen
    BY <1>2 DEF Kept
  <2>2. s \in Invoice \X Nat
    BY <1>2 DEF TypeOK, Bill
  <2> QED
    BY <1>2, <2>1, <2>2, PastForward DEF IInv
<1>3. \A q \in Writers : writer'[q] \in Work /\ Sound(writer'[q])
  BY DEF IInv, TypeOK
<1>4. \A v \in Work : Sound(v) => Sound(v)'
  BY SoundForward DEF IInv
<1> QED
  BY <1>1, <1>2, <1>3, <1>4 DEF IInv

LEMMA RollBackStep ==
  ASSUME IInv, NEW r \in Writers, RollBack(r), writer' = [writer EXCEPT ![r] = Rest(r, TRUE)]
  PROVE  IInv'
<1>1. TypeOK /\ Rest(r, TRUE) \in Work /\ Sound(Rest(r, TRUE))
  BY RestSound DEF IInv
<1>2. NoInvoice \in Bill
  BY BillingAssumption DEF NoInvoice, Bill, DueMonths
<1>a. invoice' = [i \in Invoice |-> IF i \in Own(r) THEN NoInvoice ELSE invoice[i]]
  BY DEF RollBack
<1>b. invoice \in [Invoice -> Bill]
  BY <1>1 DEF TypeOK
<1>3. invoice' \in [Invoice -> Bill]
  BY <1>2, <1>a, <1>b
<1>4. member' \in [Place -> Members]
  BY <1>1 DEF RollBack, TypeOK, Members
<1>5. held' \in [Invoice -> Writers \cup {None}]
  BY <1>1 DEF RollBack, TypeOK, Unlocked
<1>6. TypeOK'
  BY <1>1, <1>3, <1>4, <1>5 DEF TypeOK, RollBack
<1>7. Advance
  <2>1. ASSUME NEW i \in Invoice, i \in Rows PROVE invoice'[i] = invoice[i] /\ invoice[i].edits \in Nat
    BY <1>a, <1>b, <2>1 DEF Own, Rows, Committed, Bill
  <2> QED
    BY <2>1 DEF Advance, Rows, Committed
<1>8. \A i \in Invoice : Kept(i)
  BY <1>1 DEF Kept, RollBack, Own, NoInvoice, TypeOK, Bill
<1> QED
  BY <1>1, <1>6, <1>7, <1>8, RowsStep

LEMMA CommitStep ==
  ASSUME IInv, NEW r \in Writers, Commit(r)
  PROVE  IInv'
<1>1. TypeOK /\ Rest(r, FALSE) \in Work /\ Sound(Rest(r, FALSE))
  BY RestSound DEF IInv
<1>a. invoice' = [i \in Invoice |-> IF i \in Own(r) THEN [invoice[i] EXCEPT !.state = "live", !.by = None] ELSE invoice[i]]
  BY DEF Commit
<1>b. invoice \in [Invoice -> Bill]
  BY <1>1 DEF TypeOK
<1>c. \A i \in Invoice : [invoice[i] EXCEPT !.state = "live", !.by = None] \in Bill
  <2>1. \A x \in Bill : [x EXCEPT !.state = "live", !.by = None] \in Bill
    BY DEF Bill
  <2> QED
    BY <1>b, <2>1
<1>3. invoice' \in [Invoice -> Bill]
  BY <1>a, <1>b, <1>c
<1>d. ASSUME NEW i \in Invoice
      PROVE  /\ invoice'[i].seen = invoice[i].seen /\ invoice'[i].edits = invoice[i].edits /\ invoice[i].edits \in Nat
             /\ invoice'[i].place = invoice[i].place /\ invoice'[i].period = invoice[i].period /\ invoice'[i].due = invoice[i].due
             /\ invoice'[i].state = IF i \in Own(r) THEN "live" ELSE invoice[i].state
  BY <1>a, <1>b DEF Bill
<1>e. \A i \in Own(r) : invoice[i].state = "new"
  BY DEF Own
<1>4. member' \in [Place -> Members]
  <2>1. \A x \in Members : [x EXCEPT !.state = "active", !.by = None] \in Members
    BY DEF Members
  <2> QED
    BY <1>1, <2>1 DEF Commit, TypeOK
<1>5. held' \in [Invoice -> Writers \cup {None}]
  BY <1>1 DEF Commit, TypeOK, Unlocked
<1>6. TypeOK'
  BY <1>1, <1>3, <1>4, <1>5 DEF TypeOK, Commit
<1>7. Advance
  BY <1>d DEF Advance, Rows, Committed
<1>8. \A i \in Invoice : Kept(i)
  BY <1>d, <1>e DEF Kept
<1> QED
  BY <1>1, <1>6, <1>7, <1>8, RowsStep DEF Commit

LEMMA DestroyStep ==
  ASSUME IInv, NEW r \in Requests, NEW i \in Invoice, Destroy(r, i)
  PROVE  IInv'
<1> DEFINE w == [writer[r] EXCEPT !.pc = "done"]
<1>1. TypeOK /\ r \in Writers
  BY DEF IInv, Writers
<1>a. writer[r] \in Work
  BY <1>1 DEF TypeOK
<1>2. w \in Work
  BY <1>a DEF Work
<1>3. Sound(w)
  BY <1>1 DEF IInv, Sound, TypeOK, Work
<1>4. writer' = [writer EXCEPT ![r] = w]
  BY <1>1 DEF Destroy, Asked, TypeOK
<1>5. invoice' \in [Invoice -> Bill]
  BY <1>1 DEF Destroy, TypeOK, Bill
<1>6. TypeOK'
  BY <1>1, <1>2, <1>4, <1>5 DEF TypeOK, Destroy
<1>7. Advance
  BY <1>1 DEF Advance, Destroy, Rows, Committed, TypeOK, Bill
<1>8. \A j \in Invoice : Kept(j)
  BY <1>1 DEF Kept, Destroy, Live, TypeOK, Bill
<1> HIDE DEF w
<1> QED
  BY <1>1, <1>2, <1>3, <1>4, <1>6, <1>7, <1>8, RowsStep

\* A step that writes one bill after what its writer has seen.
LEMMA BillStep ==
  ASSUME IInv, TypeOK', Advance, NEW r \in Writers, NEW w \in Work, Sound(w), writer' = [writer EXCEPT ![r] = w],
         NEW n \in Invoice, \A i \in Invoice \ {n} : Kept(i), Unseen(n)', invoice'[n].seen \subseteq writer[r].seen
  PROVE  IInv'
<1>1. \A i \in Invoice : Unseen(i)'
  BY UnseenForward DEF IInv
<1>2. ASSUME NEW i \in Invoice, NEW s \in invoice'[i].seen PROVE Past(s)'
  <2>1. s \in Invoice \X Nat
    BY <1>2 DEF TypeOK, Bill
  <2>2. Past(s)
    BY <1>2 DEF Kept, IInv, Sound
  <2> QED
    BY <2>1, <2>2, PastForward DEF IInv
<1>3. \A q \in Writers : writer'[q] \in Work /\ Sound(writer'[q])
  BY DEF IInv, TypeOK
<1>4. \A v \in Work : Sound(v) => Sound(v)'
  BY SoundForward DEF IInv
<1> QED
  BY <1>1, <1>2, <1>3, <1>4 DEF IInv

\* A bill written by w, which has seen none of the month it bills.
LEMMA WrittenUnseen ==
  ASSUME NEW n \in Invoice, NEW w \in Work, NEW b \in Bill, Sound(w), w.pc \in {"insert", "save"},
         w.pc = "save" => n = w.invoice,
         invoice'[n] = b, \A i \in Invoice \ {n} : invoice'[i] = invoice[i], b.place = w.place, b.seen = w.seen,
         \A m \in DueMonths : b.period = m \/ (b.period = 0 /\ b.due = m)
                                => m = Target(w) \/ (b.edits > 0 /\ b.period # 0 /\ b.due # b.period)
  PROVE  Unseen(n)'
<1>1. SUFFICES ASSUME NEW j \in Invoice, BothBill(n, j)', Saw(n, j)' PROVE Moved(n)'
  BY DEF Unseen
<1>2. j # n
  BY <1>1 DEF BothBill
<1>3. invoice'[j] = invoice[j]
  BY <1>2
<1>4. <<j, invoice[j].edits>> \in w.seen
  BY <1>1, <1>3 DEF Saw
<1>5. ~Bills(j, w.place, Target(w))
  BY <1>2, <1>4 DEF Sound
<1>6. invoice[j].place = w.place
  BY <1>1, <1>3 DEF BothBill
<1>7. PICK m \in DueMonths : /\ b.period = m \/ (b.period = 0 /\ b.due = m)
                             /\ invoice[j].period = m \/ (invoice[j].period = 0 /\ invoice[j].due = m)
  BY <1>1, <1>3 DEF BothBill, Bills
<1>8. m # Target(w)
  BY <1>5, <1>6, <1>7 DEF Bills
<1> QED
  BY <1>7, <1>8 DEF Moved

LEMMA InsertStep ==
  ASSUME IInv, NEW r \in Writers, Insert(r)
  PROVE  IInv'
<1>a. PICK w : w = writer[r]
  OBVIOUS
<1>b. PICK n : n = Fresh
  OBVIOUS
<1>1. TypeOK /\ Ready(r) \in Work /\ Sound(Ready(r)) /\ Sound(w) /\ w \in Work /\ invoice \in [Invoice -> Bill]
  BY <1>a, ReadySound DEF IInv, TypeOK
<1>2. n \in Invoice /\ invoice[n].state = "absent"
  BY <1>b DEF Insert, Fresh, Younger, Absent
<1>3. PICK d \in DueDates(r) : Inserted(r, w.place, Period(r), d)
  BY <1>a DEF Insert
<1>4. d \in DueMonths /\ (w.op = "hand" => d = w.due)
  <2>1. w.due \in DueMonths /\ w.month \in Months /\ month \in Months
    BY <1>1 DEF Work, TypeOK
  <2> QED
    BY <1>a, <2>1, BillingAssumption DEF DueDates, Months, DueMonths
<1>5. PICK p : p = IF w.op = "hand" THEN 0 ELSE w.month
  OBVIOUS
<1>6. PICK b : b = [NoInvoice EXCEPT !.state = "new", !.by = r, !.place = w.place, !.period = p, !.due = d,
                                     !.number = w.number, !.seen = w.seen]
  OBVIOUS
<1>7. invoice' = [invoice EXCEPT ![n] = b]
  BY <1>a, <1>b, <1>3, <1>5, <1>6 DEF Inserted, Period
<1>8. b \in Bill /\ b.place = w.place /\ b.period = p /\ b.due = d /\ b.seen = w.seen
  <2>1. /\ w.place \in Place \cup {None} /\ w.number \in Nat /\ w.seen \in SUBSET (Invoice \X Nat)
        /\ p \in {0} \cup Months
    BY <1>1, <1>5 DEF Work
  <2>2. b = [state |-> "new", by |-> r, place |-> w.place, period |-> p, due |-> d, number |-> w.number,
             edits |-> 0, seen |-> w.seen]
    BY <1>6 DEF NoInvoice
  <2> QED
    BY <1>4, <2>1, <2>2 DEF Bill
<1>9. invoice'[n] = b /\ \A i \in Invoice \ {n} : invoice'[i] = invoice[i]
  BY <1>1, <1>2, <1>7
<1>10. TypeOK'
  BY <1>1, <1>2, <1>7, <1>8 DEF TypeOK, Insert
<1>11. Advance
  <2>1. ASSUME NEW i \in Invoice, i \in Rows PROVE invoice'[i] = invoice[i] /\ invoice[i].edits \in Nat
    BY <1>1, <1>2, <1>9, <2>1 DEF Rows, Committed, Bill
  <2> QED
    BY <2>1 DEF Advance, Rows, Committed
<1>12. \A i \in Invoice \ {n} : Kept(i)
  BY <1>9 DEF Kept
<1>13. Unseen(n)'
  <2>1. w.pc = "insert" /\ w.op # "edit" /\ w.month \in Months
    BY <1>a, <1>1 DEF Insert, Sound, Work
  <2>2. ASSUME NEW m \in DueMonths, b.period = m \/ (b.period = 0 /\ b.due = m) PROVE m = Target(w)
    BY <1>4, <1>5, <1>8, <2>1, <2>2 DEF Target, DueMonths, Months
  <2> QED
    BY <1>1, <1>2, <1>8, <1>9, <2>1, <2>2, WrittenUnseen
<1>14. writer' = [writer EXCEPT ![r] = Ready(r)] /\ invoice'[n].seen \subseteq writer[r].seen
  BY <1>a, <1>8, <1>9 DEF Insert
<1> QED
  BY <1>1, <1>2, <1>10, <1>11, <1>12, <1>13, <1>14, BillStep

LEMMA EditSaveStep ==
  ASSUME IInv, NEW r \in Writers, EditSave(r)
  PROVE  IInv'
<1>a. PICK w : w = writer[r]
  OBVIOUS
<1>b. PICK n : n = w.invoice
  OBVIOUS
<1>1. TypeOK /\ Sound(w) /\ w \in Work /\ invoice \in [Invoice -> Bill] /\ w.pc = "save"
  BY <1>a DEF IInv, TypeOK, EditSave
<1>2. \A f \in BOOLEAN : Rest(r, f) \in Work /\ Sound(Rest(r, f))
  BY <1>1, RestSound
<1>3. w.op = "edit" /\ n \in Invoice
  BY <1>b, <1>1 DEF Sound, Rows
<1>4. CASE UNCHANGED invoice /\ writer' = [writer EXCEPT ![r] = Rest(r, TRUE)]
  <2>1. month' \in Months /\ member' \in [Place -> Members] /\ held' \in [Invoice -> Writers \cup {None}]
    BY <1>1 DEF EditSave, TypeOK
  <2> QED
    BY <1>2, <1>4, <2>1, WriterStep
<1>c. PICK b : b = [invoice[n] EXCEPT !.edits = @ + 1, !.state = "live", !.place = w.place, !.due = w.due, !.seen = w.seen]
  OBVIOUS
<1>5. CASE invoice' = [invoice EXCEPT ![n] = b] /\ writer' = [writer EXCEPT ![r] = Rest(r, FALSE)]
  <2>a. invoice[n] \in Bill
    BY <1>1, <1>3
  <2>1. /\ b \in Bill /\ b.state = "live" /\ b.place = w.place /\ b.due = w.due /\ b.seen = w.seen
        /\ b.edits = invoice[n].edits + 1 /\ invoice[n].edits \in Nat
    <3>1. invoice[n].edits \in Nat /\ invoice[n].edits + 1 \in Nat /\ w.place \in Place \cup {None} /\ w.due \in DueMonths /\ w.seen \in SUBSET (Invoice \X Nat)
      BY <1>1, <2>a DEF Bill, Work
    <3>2. \A x \in Bill, e \in Nat, p \in Place \cup {None}, d \in DueMonths, h \in SUBSET (Invoice \X Nat) :
            [x EXCEPT !.edits = e, !.state = "live", !.place = p, !.due = d, !.seen = h] \in Bill
      <4>1. \A x \in Bill, e \in Nat, p \in Place \cup {None} :
              [x EXCEPT !.edits = e, !.state = "live", !.place = p] \in Bill
        BY DEF Bill
      <4>2. \A x \in Bill, d \in DueMonths, h \in SUBSET (Invoice \X Nat) : [x EXCEPT !.due = d, !.seen = h] \in Bill
        BY DEF Bill
      <4> QED
        BY <4>1, <4>2
    <3>3. b \in Bill
      BY <1>c, <2>a, <3>1, <3>2
    <3> QED
      BY <1>c, <2>a, <3>1, <3>3 DEF Bill
  <2>2. invoice'[n] = b /\ \A i \in Invoice \ {n} : invoice'[i] = invoice[i]
    BY <1>1, <1>3, <1>5
  <2>3. TypeOK'
    BY <1>1, <1>2, <1>5, <2>1 DEF TypeOK, EditSave
  <2>4. Advance
    <3>1. ASSUME NEW i \in Invoice \ {n} PROVE invoice'[i] = invoice[i] /\ invoice[i].edits \in Nat
      BY <1>1, <2>2 DEF Bill
    <3> QED
      BY <2>1, <2>2, <3>1 DEF Advance, Rows, Committed
  <2>5. \A i \in Invoice \ {n} : Kept(i)
    BY <2>2 DEF Kept
  <2>6. Unseen(n)'
    <3>1. ASSUME NEW m \in DueMonths, b.period = m \/ (b.period = 0 /\ b.due = m)
          PROVE  m = Target(w) \/ (b.edits > 0 /\ b.period # 0 /\ b.due # b.period)
      BY <1>3, <2>1, <3>1 DEF Target, DueMonths
    <3> QED
      BY <1>b, <1>1, <1>3, <2>1, <2>2, <3>1, WrittenUnseen
  <2>7. invoice'[n].seen \subseteq writer[r].seen
    BY <1>a, <2>1, <2>2
  <2> QED
    BY <1>2, <1>3, <1>5, <2>3, <2>4, <2>5, <2>6, <2>7, BillStep
<1>6. \/ UNCHANGED invoice /\ writer' = [writer EXCEPT ![r] = Rest(r, TRUE)]
      \/ /\ invoice' = [invoice EXCEPT ![n] = [invoice[n] EXCEPT !.edits = @ + 1, !.state = "live", !.place = w.place, !.due = w.due, !.seen = w.seen]]
         /\ writer' = [writer EXCEPT ![r] = Rest(r, FALSE)]
  BY <1>a, <1>b, <1>c, <1>1, <1>3 DEF EditSave
<1> QED
  BY <1>c, <1>4, <1>5, <1>6

-----------------------------------------------------------------------------
(* Steps that leave the bills alone *)

LEMMA StampedNow ==
  ASSUME TypeOK
  PROVE  /\ Stamped(Live) \in SUBSET (Invoice \X Nat)
         /\ \A s \in Stamped(Live) : Past(s)
         /\ \A j \in Invoice : <<j, invoice[j].edits>> \in Stamped(Live) => j \in Live
<1>1. \A i \in Live : i \in Invoice /\ i \in Rows /\ invoice[i].edits \in Nat
  BY DEF TypeOK, Bill, Live, Rows, Committed
<1> QED
  BY <1>1 DEF Stamped, Past

\* A request that starts with nothing seen.
LEMMA BeginStep ==
  ASSUME IInv, NEW r \in Requests, NEW w \in Work, Sound(w), Begin(r, w), UNCHANGED <<month, member, invoice, held>>
  PROVE  IInv'
<1>1. r \in Writers /\ TypeOK /\ writer' = [writer EXCEPT ![r] = w]
  BY DEF Writers, IInv, Begin
<1> QED
  BY <1>1, WriterStep DEF TypeOK

LEMMA AskSteps ==
  ASSUME IInv, NEW r \in Requests, NEW p \in Place
  PROVE  /\ \A billing \in BOOLEAN : Enroll(r, p, billing) => IInv'
         /\ SelfCreate(r, p) => IInv'
         /\ \A m \in Months : Pay(r, p, m) => IInv'
<1>1. month \in Months
  BY DEF IInv, TypeOK
<1>2. ASSUME NEW billing \in BOOLEAN, Enroll(r, p, billing) PROVE IInv'
  <2> DEFINE w == [NoWriter EXCEPT !.op = "enroll", !.pc = "member", !.place = p, !.billing = billing]
  <2>1. w \in Work /\ Sound(w)
    <3>1. w \in Work
      BY <1>1, NoWriterType, FieldType
    <3>2. w.op = "enroll" /\ w.pc = "member" /\ w.seen = {}
      BY DEF NoWriter
    <3> QED
      BY <3>1, <3>2, UnseenSound
  <2> QED
    BY <1>2, <2>1, BeginStep DEF Enroll
<1>3. ASSUME SelfCreate(r, p) PROVE IInv'
  <2> DEFINE w == [NoWriter EXCEPT !.op = "self", !.pc = "look", !.place = p, !.month = month]
  <2>1. w \in Work /\ Sound(w)
    <3>1. w \in Work
      BY <1>1, NoWriterType, FieldType
    <3>2. w.op = "self" /\ w.pc = "look" /\ w.seen = {}
      BY DEF NoWriter
    <3> QED
      BY <3>1, <3>2, UnseenSound
  <2> QED
    BY <1>3, <2>1, BeginStep DEF SelfCreate
<1>4. ASSUME NEW m \in Months, Pay(r, p, m) PROVE IInv'
  <2> DEFINE w == [NoWriter EXCEPT !.op = "pay", !.pc = "bills", !.place = p, !.month = m]
  <2>1. w \in Work /\ Sound(w)
    <3>1. w \in Work
      BY <1>1, NoWriterType, FieldType
    <3>2. w.op = "pay" /\ w.pc = "bills" /\ w.seen = {}
      BY DEF NoWriter
    <3> QED
      BY <3>1, <3>2, UnseenSound
  <2> QED
    BY <1>4, <2>1, BeginStep DEF Pay
<1> QED
  BY <1>2, <1>3, <1>4

LEMMA HandMadeStep ==
  ASSUME IInv, NEW r \in Requests, NEW p \in Place, NEW d \in DueMonths, HandMade(r, p, d)
  PROVE  IInv'
<1> DEFINE w == [NoWriter EXCEPT !.op = "hand", !.pc = "number", !.place = p, !.due = d, !.seen = Stamped(Live)]
<1>1. TypeOK
  BY DEF IInv
<1>2. w \in Work
  BY <1>1, StampedNow, NoWriterType, FieldType
<1>3. /\ w.op = "hand" /\ w.pc = "number" /\ w.place = p /\ w.due = d /\ w.seen = Stamped(Live)
  BY NoWriterType DEF NoWriter
<1>4. \A j \in Live : ~Bills(j, p, d)
  BY DEF HandMade, ClashesByHand, Found
<1>5. Sound(w)
  BY <1>1, <1>3, <1>4, StampedNow DEF Sound, Target
<1>6. Begin(r, w) /\ UNCHANGED <<month, member, invoice, held>>
  BY DEF HandMade
<1> HIDE DEF w
<1> QED
  BY <1>2, <1>5, <1>6, BeginStep

LEMMA EditReadStep ==
  ASSUME IInv, NEW r \in Requests, NEW i \in Invoice, NEW p \in Place, NEW d \in DueMonths, EditRead(r, i, p, d)
  PROVE  IInv'
<1> DEFINE w == [NoWriter EXCEPT !.op = "edit", !.pc = "save", !.invoice = i, !.place = p, !.due = d, !.seen = Stamped(Live)]
<1>1. TypeOK /\ i \in Rows /\ i \in Invoice
  BY DEF IInv, EditRead, Live, Rows, Committed
<1>2. w \in Work
  BY <1>1, StampedNow, NoWriterType, FieldType
<1>3. /\ w.op = "edit" /\ w.pc = "save" /\ w.invoice = i /\ w.place = p /\ w.due = d /\ w.seen = Stamped(Live)
  BY NoWriterType DEF NoWriter
<1>4. \A j \in Live : j # i => ~Bills(j, p, d)
  BY DEF EditRead, ClashesByHand, Found
<1>5. Sound(w)
  BY <1>1, <1>3, <1>4, StampedNow DEF Sound, Target
<1>6. Begin(r, w) /\ UNCHANGED <<month, member, invoice, held>>
  BY DEF EditRead
<1> HIDE DEF w
<1> QED
  BY <1>2, <1>5, <1>6, BeginStep

LEMMA SetStatusStep ==
  ASSUME IInv, NEW r \in Requests, NEW p \in Place, SetStatus(r, p)
  PROVE  IInv'
<1> DEFINE w == [writer[r] EXCEPT !.pc = "done"]
<1>1. TypeOK /\ r \in Writers
  BY DEF IInv, Writers
<1>a. writer[r] \in Work
  BY <1>1 DEF TypeOK
<1>2. w \in Work
  BY <1>a DEF Work
<1>3. Sound(w)
  BY <1>1 DEF IInv, Sound, TypeOK, Work
<1>4. writer' = [writer EXCEPT ![r] = w]
  BY <1>1 DEF SetStatus, Asked, TypeOK
<1>5. member' \in [Place -> Members]
  BY <1>1 DEF SetStatus, TypeOK, Members
<1> HIDE DEF w
<1> QED
  BY <1>1, <1>2, <1>3, <1>4, <1>5, WriterStep DEF SetStatus, TypeOK

-----------------------------------------------------------------------------
(* Steps of a transaction under way *)

\* A writer goes on with what it has seen, and has not seen anything anew.
LEMMA SameSound ==
  ASSUME NEW v \in Work, NEW w \in Work, Sound(v), w.op = v.op, w.seen = v.seen, w.place = v.place, w.due = v.due,
         w.month = v.month, v.pc \in {"number", "lock"}, w.pc \in {"lock", "insert"}
  PROVE  Sound(w)
  BY DEF Sound, Target

LEMMA InsertMemberStep ==
  ASSUME IInv, NEW r \in Writers, InsertMember(r)
  PROVE  IInv'
<1> DEFINE p == writer[r].place
<1>1. TypeOK /\ writer[r] \in Work /\ Sound(writer[r]) /\ month \in Months
  BY DEF IInv, TypeOK
<1>2. CASE member[p].state = "none"
  <2>1. month' \in Months /\ held' \in [Invoice -> Writers \cup {None}] /\ UNCHANGED invoice
    BY <1>1, <1>2 DEF InsertMember, TypeOK
  <2>2. member' \in [Place -> Members]
    <3>1. [state |-> "joining", by |-> r, joined |-> month] \in Members
      BY <1>1 DEF Members
    <3>2. member' = [member EXCEPT ![p] = [state |-> "joining", by |-> r, joined |-> month]]
      BY <1>2 DEF InsertMember
    <3> QED
      BY <1>1, <3>1, <3>2 DEF TypeOK
  <2>3. CASE writer[r].billing
    <3> DEFINE w == [writer[r] EXCEPT !.pc = "look", !.month = month, !.billing = FALSE]
    <3>1. w \in Work
      BY <1>1 DEF Work
    <3>2. Sound(w)
      BY <1>1 DEF InsertMember, Sound, Work
    <3>3. writer' = [writer EXCEPT ![r] = w]
      BY <1>2, <2>3 DEF InsertMember
    <3> QED
      BY <2>1, <2>2, <3>1, <3>2, <3>3, WriterStep
  <2>4. CASE ~writer[r].billing
    <3>1. writer' = [writer EXCEPT ![r] = Ready(r)]
      BY <1>2, <2>4 DEF InsertMember
    <3> QED
      BY <1>1, <2>1, <2>2, <3>1, ReadySound, WriterStep
  <2> QED
    BY <2>3, <2>4
<1>3. CASE member[p].state # "none"
  BY <1>3, RollBackStep DEF InsertMember
<1> QED
  BY <1>2, <1>3

\* The bills of a snapshot with their dates.
Dated(S) == {<<i, invoice[i].due>> : i \in S}

LEMMA DatedType ==
  ASSUME TypeOK, NEW p, NEW m
  PROVE  Dated(Found(p, m)) \in SUBSET (Invoice \X DueMonths)
<1>1. \A i \in Found(p, m) : i \in Invoice /\ invoice[i].due \in DueMonths
  BY DEF TypeOK, Bill, Found, Live
<1> QED
  BY <1>1 DEF Dated

\* A payment comes to a stage with these bills still to lock.
Locking(x, c, S) == [[x EXCEPT !.pc = c] EXCEPT !.bills = S]

LEMMA LockingType ==
  ASSUME NEW x \in Work, NEW S \in SUBSET (Invoice \X DueMonths), NEW c \in {"look", "rows"}
  PROVE  LET v == Locking(x, c, S) IN v \in Work /\ v.seen = x.seen /\ v.op = x.op /\ v.pc = c
<1> DEFINE z == [x EXCEPT !.pc = c]
           v == [z EXCEPT !.bills = S]
<1>1. z \in Work
  BY FieldType
<1>2. z.seen = x.seen /\ z.op = x.op /\ z.pc = c
  BY DEF Work
<1> HIDE DEF z
<1>3. v \in Work
  BY <1>1 DEF Work
<1>4. v.seen = z.seen /\ v.op = z.op /\ v.pc = z.pc
  BY <1>1 DEF Work
<1>5. v = Locking(x, c, S)
  BY DEF Locking, z
<1> HIDE DEF v
<1> QED
  BY <1>2, <1>3, <1>4, <1>5

LEMMA BillLockSteps ==
  ASSUME IInv, NEW r \in Writers
  PROVE  ReadBills(r) \/ LockBill(r) \/ LockFound(r) => IInv'
<1> DEFINE w == writer[r]
<1>1. TypeOK /\ w \in Work /\ Sound(w) /\ Ready(r) \in Work /\ Sound(Ready(r))
  BY ReadySound DEF IInv, TypeOK
<1>a. ASSUME w.pc \in {"bills", "rows"}, NEW c \in {"look", "rows"}, NEW S \in SUBSET (Invoice \X DueMonths)
      PROVE  Locking(w, c, S) \in Work /\ Sound(Locking(w, c, S))
  <2> DEFINE v == Locking(w, c, S)
  <2>1. v \in Work /\ v.seen = w.seen /\ v.op = w.op /\ v.pc = c
    BY <1>1, LockingType
  <2> HIDE DEF v
  <2>2. Sound(v)
    BY <1>1, <1>a, <2>1 DEF Sound
  <2> QED
    BY <2>1, <2>2 DEF v
<1>b. \A S : [w EXCEPT !.pc = "rows", !.bills = S] = Locking(w, "rows", S) /\ [w EXCEPT !.pc = "look", !.bills = S] = Locking(w, "look", S)
  BY DEF Locking
<1>2. ASSUME ReadBills(r) PROVE IInv'
  <2>1. w.pc = "bills" /\ UNCHANGED <<month, member, invoice, held>>
    BY <1>2 DEF ReadBills
  <2>2. \/ writer' = [writer EXCEPT ![r] = Locking(w, "look", w.bills)]
        \/ writer' = [writer EXCEPT ![r] = Locking(w, "rows", Dated(Found(w.place, w.month)))]
    <3>1. [w EXCEPT !.pc = "look"] = Locking(w, "look", w.bills)
      BY <1>1 DEF Locking, Work
    <3>2. \/ writer' = [writer EXCEPT ![r] = [w EXCEPT !.pc = "look"]]
          \/ writer' = [writer EXCEPT ![r] = [w EXCEPT !.pc = "rows", !.bills = Dated(Found(w.place, w.month))]]
      BY <1>2 DEF ReadBills, Dated
    <3> QED
      BY <1>b, <3>1, <3>2
  <2>3. w.bills \in SUBSET (Invoice \X DueMonths) /\ Dated(Found(w.place, w.month)) \in SUBSET (Invoice \X DueMonths)
    BY <1>1, DatedType DEF Work
  <2> QED
    BY <1>1, <1>a, <2>1, <2>2, <2>3, WriterStep DEF TypeOK
<1>4. ASSUME LockBill(r) PROVE IInv'
  <2>1. w.pc = "rows" /\ UNCHANGED <<month, member, invoice>>
    BY <1>4 DEF LockBill
  <2>2. held' \in [Invoice -> Writers \cup {None}]
    BY <1>1, <1>4 DEF LockBill, TypeOK, Lock
  <2>3. \/ \E c : writer' = [writer EXCEPT ![r] = Locking(w, "rows", w.bills \ {c})]
        \/ writer' = [writer EXCEPT ![r] = Locking(w, "look", {})]
        \/ writer' = [writer EXCEPT ![r] = Ready(r)]
    <3>1. \A S : [w EXCEPT !.bills = S] = Locking(w, "rows", S)
      BY <1>1, <2>1 DEF Locking, Work
    <3>2. \/ \E c : writer' = [writer EXCEPT ![r] = [w EXCEPT !.bills = w.bills \ {c}]]
          \/ writer' = [writer EXCEPT ![r] = [w EXCEPT !.pc = "look", !.bills = {}]]
          \/ writer' = [writer EXCEPT ![r] = Ready(r)]
      BY <1>4 DEF LockBill
    <3>3. \A S : writer' = [writer EXCEPT ![r] = [w EXCEPT !.bills = S]] => writer' = [writer EXCEPT ![r] = Locking(w, "rows", S)]
      BY <3>1
    <3>4. writer' = [writer EXCEPT ![r] = [w EXCEPT !.pc = "look", !.bills = {}]] => writer' = [writer EXCEPT ![r] = Locking(w, "look", {})]
      BY <1>b
    <3> QED
      BY <3>2, <3>3, <3>4
  <2>4. \A c : w.bills \ {c} \in SUBSET (Invoice \X DueMonths)
    BY <1>1 DEF Work
  <2>5. {} \in SUBSET (Invoice \X DueMonths)
    OBVIOUS
  <2> QED
    BY <1>1, <1>a, <2>1, <2>2, <2>3, <2>4, <2>5, WriterStep DEF TypeOK
<1>3. ASSUME LockFound(r) PROVE IInv'
  <2>1. CASE writer[r].invoice \in Live
    <3>1. month' \in Months /\ member' \in [Place -> Members] /\ held' \in [Invoice -> Writers \cup {None}] /\ UNCHANGED invoice
      BY <1>1, <1>3, <2>1 DEF LockFound, TypeOK, Lock
    <3>2. writer' = [writer EXCEPT ![r] = Ready(r)]
      BY <1>3, <2>1 DEF LockFound
    <3> QED
      BY <1>1, <3>1, <3>2, WriterStep
  <2>2. CASE writer[r].invoice \notin Live
    BY <1>3, <2>2, RollBackStep DEF LockFound
  <2> QED
    BY <2>1, <2>2
<1> QED
  BY <1>2, <1>3, <1>4

\* A bill that is there is returned.
LEMMA ReturnedStep ==
  ASSUME IInv, NEW r \in Writers, NEW i \in Invoice, Returned(r, i), UNCHANGED <<month, member, invoice, held>>
  PROVE  IInv'
<1> DEFINE v == [NoWriter EXCEPT !.op = "pay", !.pc = "found", !.invoice = i]
<1>1. TypeOK /\ writer[r] \in Work /\ Ready(r) \in Work /\ Sound(Ready(r))
  BY ReadySound DEF IInv, TypeOK
<1>2. v \in Work
  BY NoWriterType DEF Work
<1>3. Sound(v)
  BY NoWriterType DEF NoWriter, Sound
<1>4. writer' = [writer EXCEPT ![r] = v] \/ writer' = [writer EXCEPT ![r] = Ready(r)]
  BY DEF Returned
<1> HIDE DEF v
<1> QED
  BY <1>1, <1>2, <1>3, <1>4, WriterStep DEF TypeOK

LEMMA LookStep ==
  ASSUME IInv, NEW r \in Writers, Look(r)
  PROVE  IInv'
<1>1. TypeOK /\ writer[r] \in Work /\ Sound(writer[r])
  BY DEF IInv, TypeOK
<1>2. CASE \E i \in FindsBill(r) : Returned(r, i)
  BY <1>2, ReturnedStep DEF Look, FindsBill, Found, Live
<1>3. CASE FindsBill(r) = {} /\ writer' = [writer EXCEPT ![r].pc = "number", ![r].seen = Stamped(Live)]
  <2> DEFINE w == [writer[r] EXCEPT !.pc = "number", !.seen = Stamped(Live)]
  <2>1. w \in Work
    BY <1>1, StampedNow DEF Work
  <2>2. /\ w.op = writer[r].op /\ w.pc = "number" /\ w.place = writer[r].place /\ w.due = writer[r].due
        /\ w.month = writer[r].month /\ w.seen = Stamped(Live)
    BY <1>1 DEF Work
  <2>3. writer[r].op \notin {"hand", "edit"}
    BY <1>1 DEF Look, Sound
  <2>4. \A j \in Live : ~Bills(j, writer[r].place, writer[r].month)
    BY <1>3 DEF FindsBill, Found
  <2>5. writer' = [writer EXCEPT ![r] = w]
    BY <1>1, <1>3 DEF TypeOK
  <2> HIDE DEF w
  <2>6. Sound(w)
    BY <1>1, <2>2, <2>3, <2>4, StampedNow DEF Sound, Target
  <2> QED
    BY <1>1, <2>1, <2>5, <2>6, WriterStep DEF Look, TypeOK
<1> QED
  BY <1>2, <1>3 DEF Look

LEMMA NumberStep ==
  ASSUME IInv, NEW r \in Writers, writer[r].pc \in {"number", "lock"}, NEW last \in Invoice \cup {None}, Number(r, last),
         UNCHANGED <<month, member, invoice>>
  PROVE  IInv'
<1> DEFINE s == IF writer[r].pc = "number" THEN Rows ELSE writer[r].rows
           w == [writer[r] EXCEPT !.pc = "insert", !.number = NextNumber(last), !.last = None, !.rows = s]
<1>1. TypeOK /\ writer[r] \in Work /\ Sound(writer[r])
  BY DEF IInv, TypeOK
<1>2. NextNumber(last) \in Nat
  <2>1. ASSUME last # None PROVE invoice[last].number + 1 \in Nat
    BY <1>1, <2>1 DEF TypeOK, Bill
  <2> QED
    BY <2>1 DEF NextNumber
<1>3. s \in SUBSET Invoice
  BY <1>1 DEF Rows, Work
<1> HIDE DEF s
<1>4. w \in Work
  BY <1>1, <1>2, <1>3 DEF Work
<1>5. /\ w.op = writer[r].op /\ w.pc = "insert" /\ w.place = writer[r].place /\ w.due = writer[r].due
      /\ w.month = writer[r].month /\ w.seen = writer[r].seen
  BY <1>1 DEF Work
<1>6. writer' = [writer EXCEPT ![r] = w]
  BY <1>1 DEF Number, TypeOK, s
<1>7. held' \in [Invoice -> Writers \cup {None}]
  BY <1>1 DEF Number, Lock, TypeOK
<1> HIDE DEF w
<1>8. Sound(w)
  BY <1>1, <1>4, <1>5, SameSound
<1> QED
  BY <1>1, <1>4, <1>6, <1>7, <1>8, WriterStep DEF TypeOK

LEMMA PickLastStep ==
  ASSUME IInv, NEW r \in Writers, PickLast(r)
  PROVE  IInv'
<1>1. TypeOK /\ writer[r] \in Work /\ Sound(writer[r])
  BY DEF IInv, TypeOK
<1>2. PICK last \in LastNumbered(Numbered) :
        IF last = None \/ Free({last}, r) THEN Number(r, last)
        ELSE writer' = [writer EXCEPT ![r].pc = "lock", ![r].last = last, ![r].rows = Rows] /\ UNCHANGED held
  BY DEF PickLast
<1>3. last \in Invoice \cup {None}
  BY <1>2 DEF LastNumbered, Numbered, Rows
<1>4. CASE Number(r, last)
  BY <1>3, <1>4, NumberStep DEF PickLast
<1>5. CASE writer' = [writer EXCEPT ![r].pc = "lock", ![r].last = last, ![r].rows = Rows] /\ UNCHANGED held
  <2> DEFINE w == [writer[r] EXCEPT !.pc = "lock", !.last = last, !.rows = Rows]
  <2>1. w \in Work
    BY <1>1, <1>3 DEF Work, Rows
  <2>2. /\ w.op = writer[r].op /\ w.pc = "lock" /\ w.place = writer[r].place /\ w.due = writer[r].due
        /\ w.month = writer[r].month /\ w.seen = writer[r].seen
    BY <1>1 DEF Work
  <2>3. writer' = [writer EXCEPT ![r] = w]
    BY <1>1, <1>5 DEF TypeOK
  <2> HIDE DEF w
  <2>4. Sound(w)
    BY <1>1, <2>1, <2>2, SameSound DEF PickLast
  <2> QED
    BY <1>1, <1>5, <2>1, <2>3, <2>4, WriterStep DEF PickLast, TypeOK
<1> QED
  BY <1>2, <1>4, <1>5

LEMMA LockLastStep ==
  ASSUME IInv, NEW r \in Writers, LockLast(r)
  PROVE  IInv'
<1>1. writer[r].last \in Invoice \cup {None}
  BY DEF IInv, TypeOK, Work
<1> QED
  BY <1>1, NumberStep DEF LockLast

LEMMA InsertClashesStep ==
  ASSUME IInv, NEW r \in Writers, InsertClashes(r)
  PROVE  IInv'
<1>1. TypeOK /\ writer[r] \in Work /\ Sound(writer[r])
  BY DEF IInv, TypeOK
<1>2. CASE writer[r].op = "hand"
  BY <1>2, RollBackStep DEF InsertClashes
<1>3. CASE writer[r].op # "hand"
  <2> DEFINE w == [writer[r] EXCEPT !.pc = "relook", !.number = 0, !.seen = {}, !.rows = {}]
  <2>1. w \in Work
    BY <1>1 DEF Work
  <2>2. w.op = writer[r].op /\ w.pc = "relook" /\ w.seen = {}
    BY <1>1 DEF Work
  <2>3. writer[r].op # "edit"
    BY <1>1 DEF InsertClashes, Sound
  <2>4. writer' = [writer EXCEPT ![r] = w]
    BY <1>3 DEF InsertClashes
  <2>5. month' \in Months /\ member' \in [Place -> Members] /\ held' \in [Invoice -> Writers \cup {None}] /\ UNCHANGED invoice
    BY <1>1, <1>3 DEF InsertClashes, TypeOK, Unlocked
  <2> HIDE DEF w
  <2>6. Sound(w)
    BY <1>3, <2>1, <2>2, <2>3, UnseenSound
  <2> QED
    BY <2>1, <2>4, <2>5, <2>6, WriterStep
<1> QED
  BY <1>2, <1>3

LEMMA RelookStep ==
  ASSUME IInv, NEW r \in Writers, Relook(r)
  PROVE  IInv'
<1>1. CASE \E i \in FindsBill(r) : Returned(r, i) /\ UNCHANGED <<month, member, invoice, held>>
  BY <1>1, ReturnedStep DEF FindsBill, Found, Live
<1>2. CASE RollBack(r) /\ writer' = [writer EXCEPT ![r] = Rest(r, TRUE)]
  BY <1>2, RollBackStep
<1> QED
  BY <1>1, <1>2 DEF Relook

LEMMA RunSteps ==
  ASSUME IInv, Runs
  PROVE  IInv'
<1>1. TypeOK /\ Job \in Writers /\ writer[Job] \in Work /\ Sound(writer[Job]) /\ month \in Months
  BY DEF IInv, TypeOK, Writers
<1>2. UNCHANGED <<month, member, invoice, held>>
  BY DEF Runs, RunMonth, EndRun, NextMember
<1>3. CASE RunMonth
  <2> DEFINE w == [NoWriter EXCEPT !.op = "run", !.pc = "members", !.month = month, !.todo = Eligible]
  <2>1. w \in Work
    <3>1. Eligible \in SUBSET Place
      BY DEF Eligible
    <3> QED
      BY <1>1, <3>1, NoWriterType, FieldType
  <2>2. w.seen = {} /\ w.op = "run" /\ w.pc = "members"
    BY DEF NoWriter
  <2>3. writer' = [writer EXCEPT ![Job] = w]
    BY <1>3 DEF RunMonth
  <2> HIDE DEF w
  <2> QED
    BY <1>1, <1>2, <2>1, <2>2, <2>3, UnseenSound, WriterStep DEF TypeOK
<1>4. CASE EndRun
  <2>1. NoWriter.seen = {} /\ NoWriter.pc # "save" /\ NoWriter.op \notin {"hand", "edit"}
    BY DEF NoWriter
  <2> QED
    BY <1>1, <1>2, <1>4, <2>1, NoWriterType, UnseenSound, WriterStep DEF EndRun, TypeOK
<1>5. ASSUME NEW p \in Place, NextMember(p) PROVE IInv'
  <2> DEFINE w == [writer[Job] EXCEPT !.pc = "look", !.place = p, !.todo = @ \ {p}]
  <2>1. w \in Work
    BY <1>1 DEF Work
  <2>2. w.op = writer[Job].op /\ w.pc = "look" /\ w.seen = writer[Job].seen
    BY <1>1 DEF Work
  <2>3. writer' = [writer EXCEPT ![Job] = w]
    BY <1>1, <1>5 DEF NextMember, TypeOK
  <2> HIDE DEF w
  <2>4. Sound(w)
    BY <1>1, <1>5, <2>2 DEF NextMember, Sound
  <2> QED
    BY <1>1, <1>2, <2>1, <2>3, <2>4, WriterStep DEF TypeOK
<1> QED
  BY <1>3, <1>4, <1>5 DEF Runs

LEMMA MonthStep ==
  ASSUME IInv, MonthTurns
  PROVE  IInv'
<1>1. Job \in Writers /\ month' \in Months /\ UNCHANGED <<member, invoice, held, writer>> /\ TypeOK
  BY BillingAssumption DEF IInv, TypeOK, MonthTurns, Months, Writers
<1>2. writer' = [writer EXCEPT ![Job] = writer[Job]] /\ writer[Job] \in Work /\ Sound(writer[Job])
  BY <1>1 DEF IInv, TypeOK
<1> QED
  BY <1>1, <1>2, WriterStep DEF TypeOK

LEMMA StutterStep ==
  ASSUME IInv, UNCHANGED vars
  PROVE  IInv'
<1>1. Job \in Writers /\ TypeOK /\ UNCHANGED <<month, member, invoice, held, writer>>
  BY DEF IInv, vars, Writers
<1>2. writer' = [writer EXCEPT ![Job] = writer[Job]] /\ writer[Job] \in Work /\ Sound(writer[Job])
  BY <1>1 DEF IInv, TypeOK
<1> QED
  BY <1>1, <1>2, WriterStep DEF TypeOK

LEMMA InitSound == Init => IInv
<1> SUFFICES ASSUME Init PROVE IInv
  OBVIOUS
<1>1. NoInvoice \in Bill
  BY BillingAssumption DEF NoInvoice, Bill, DueMonths
<1>2. month \in Months /\ invoice \in [Invoice -> Bill] /\ held \in [Invoice -> Writers \cup {None}]
  BY <1>1, BillingAssumption DEF Init, Months
<1>3. member \in [Place -> Members]
  BY DEF Init, Members
<1>4. writer \in [Writers -> Work]
  BY NoWriterType DEF Init
<1>5. \A i \in Invoice : invoice[i].state = "absent" /\ invoice[i].seen = {}
  BY DEF Init, NoInvoice
<1>6. \A r \in Writers : writer[r].seen = {} /\ writer[r].pc = "idle" /\ writer[r].op = "none"
  BY DEF Init, NoWriter
<1> QED
  BY <1>2, <1>3, <1>4, <1>5, <1>6 DEF IInv, TypeOK, Unseen, Sound

-----------------------------------------------------------------------------
(* The theorems *)

LEMMA NextSound == IInv /\ [Next]_vars => IInv'
<1> SUFFICES ASSUME IInv, [Next]_vars PROVE IInv'
  OBVIOUS
<1>1. ASSUME NEW r \in Writers, Works(r) PROVE IInv'
  BY <1>1, InsertMemberStep, BillLockSteps, LookStep, PickLastStep, LockLastStep, InsertStep, InsertClashesStep, RelookStep,
     EditSaveStep, CommitStep DEF Works
<1>2. ASSUME NEW r \in Requests, Asks(r) PROVE IInv'
  BY <1>2, AskSteps, SetStatusStep, HandMadeStep, EditReadStep, DestroyStep DEF Asks
<1>3. ASSUME NEW r \in Requests, Dies(r) PROVE IInv'
  BY <1>3, RollBackStep DEF Dies, Writers
<1> QED
  BY <1>1, <1>2, <1>3, RunSteps, MonthStep, StutterStep DEF Next

\* Types, and what writers and their bills had seen: for any numbers of bills,
\* places, requests and months.
THEOREM SeenStaysSound == Spec => []IInv
  BY InitSound, NextSound, PTL DEF Spec

\* get_or_create_group_invoice and the checks of bills made or moved by hand let a
\* month be billed twice only by writers that could not see each other's bills.
THEOREM TwiceOnlyUnseen == Spec => []BilledTwiceOnlyUnseen
<1>1. IInv => BilledTwiceOnlyUnseen
  <2> SUFFICES ASSUME IInv, NEW i \in Live, NEW j \in Live, BothBill(i, j), Saw(i, j) \/ Saw(j, i)
               PROVE  Moved(i) \/ Moved(j)
    BY DEF BilledTwiceOnlyUnseen
  <2>1. i \in Invoice /\ j \in Invoice /\ Unseen(i) /\ Unseen(j) /\ invoice[i].state = "live" /\ invoice[j].state = "live"
    BY DEF IInv, Live
  <2>2. BothBill(j, i)
    BY DEF BothBill
  <2> QED
    BY <2>1, <2>2 DEF Unseen
<1> QED
  BY <1>1, SeenStaysSound, PTL

-----------------------------------------------------------------------------
(* Numbers                                                                 *)
(*                                                                         *)
(* A committed row keeps its number (and its due date while nobody edits   *)
(* it: RowsKept), so a writer that has been  *)
(* ahead of the rows it saw stays ahead of them (AheadForward); a writer   *)
(* comes to be ahead in the statement that picks the last row              *)
(* (NumberAhead).  The number has to fit its padding: else the last row as *)
(* text is not the one with the greatest number.                           *)

RowsKept ==
  \A i \in Rows :
    /\ i \in Rows' /\ invoice'[i].number = invoice[i].number
    /\ invoice'[i].edits = 0 => invoice[i].edits = 0 /\ invoice'[i].due = invoice[i].due

LEMMA RowsStayKept ==
  ASSUME IInv, [Next]_vars
  PROVE  RowsKept
<1>1. invoice \in [Invoice -> Bill] /\ \A i \in Rows : i \in Invoice /\ invoice[i].state \in {"live", "deleted"}
  BY DEF IInv, TypeOK, Rows, Committed
<1>2. CASE UNCHANGED invoice
  BY <1>2 DEF RowsKept, Rows, Committed
<1>3. ASSUME NEW r \in Writers, RollBack(r) PROVE RowsKept
  <2>1. \A i \in Rows : invoice'[i] = invoice[i]
    BY <1>1, <1>3 DEF RollBack, Own
  <2> QED
    BY <1>1, <2>1 DEF RowsKept, Rows, Committed
<1>4. ASSUME NEW r \in Writers, Commit(r) PROVE RowsKept
  <2>1. \A i \in Rows : invoice'[i] = invoice[i]
    BY <1>1, <1>4 DEF Commit, Own
  <2> QED
    BY <1>1, <2>1 DEF RowsKept, Rows, Committed
<1>5. ASSUME NEW r \in Writers, Insert(r) PROVE RowsKept
  <2>1. Fresh \in Invoice /\ invoice[Fresh].state = "absent"
    BY <1>5 DEF Insert, Fresh, Younger, Absent
  <2>2. \A i \in Rows : invoice'[i] = invoice[i]
    BY <1>1, <1>5, <2>1 DEF Insert, Inserted
  <2> QED
    BY <1>1, <2>2 DEF RowsKept, Rows, Committed
<1>6. ASSUME NEW r \in Writers, EditSave(r) PROVE RowsKept
  <2>1. ASSUME NEW i \in Invoice, NEW w,
               invoice' = [invoice EXCEPT ![i].edits = @ + 1, ![i].state = "live", ![i].place = w.place,
                                          ![i].due = w.due, ![i].seen = w.seen]
        PROVE  RowsKept
    <3>1. invoice'[i].state = "live" /\ invoice'[i].number = invoice[i].number /\ invoice'[i].edits # 0
      BY <1>1, <2>1 DEF Bill
    <3>2. \A j \in Invoice \ {i} : invoice'[j] = invoice[j]
      BY <1>1, <2>1
    <3> QED
      BY <1>1, <3>1, <3>2 DEF RowsKept, Rows, Committed
  <2>2. writer[r].invoice \in Invoice
    BY <1>6 DEF EditSave, IInv, Sound, Rows
  <2> QED
    BY <1>2, <1>6, <2>1, <2>2 DEF EditSave
<1>7. ASSUME NEW r \in Requests, NEW i \in Invoice, Destroy(r, i) PROVE RowsKept
  <2>1. /\ invoice'[i].state = "deleted" /\ invoice'[i].number = invoice[i].number
        /\ invoice'[i].edits = invoice[i].edits /\ invoice'[i].due = invoice[i].due
        /\ \A j \in Invoice \ {i} : invoice'[j] = invoice[j]
    BY <1>1, <1>7 DEF Destroy, Bill
  <2> QED
    BY <1>1, <2>1 DEF RowsKept, Rows, Committed
<1>8. ASSUME NEW r \in Writers, Works(r) PROVE RowsKept
  BY <1>2, <1>3, <1>4, <1>5, <1>6, <1>8 DEF Works, InsertMember, ReadBills, LockBill, LockFound, Look, PickLast, LockLast, InsertClashes, Relook
<1>9. ASSUME NEW r \in Requests, Asks(r) \/ Dies(r) PROVE RowsKept
  <2>1. r \in Writers
    BY DEF Writers
  <2> QED
    BY <1>2, <1>3, <1>7, <1>9, <2>1 DEF Asks, Enroll, SelfCreate, SetStatus, Pay, HandMade, EditRead, Dies
<1> QED
  BY <1>2, <1>8, <1>9 DEF Next, Runs, RunMonth, EndRun, NextMember, MonthTurns, vars

LEMMA FitBackward ==
  ASSUME RowsKept, NumbersFit'
  PROVE  NumbersFit
  BY DEF RowsKept, NumbersFit, Digits

LEMMA AheadForward ==
  ASSUME RowsKept, NEW w, Ahead(w)
  PROVE  Ahead(w)'
<1>1. ASSUME w.pc \in {"lock", "insert"} PROVE w.rows \subseteq Rows /\ w.rows \subseteq Rows' /\ \A i \in w.rows : invoice'[i].number = invoice[i].number
  BY <1>1 DEF Ahead, RowsKept
<1>2. ASSUME w.pc = "lock"
      PROVE  w.last \in w.rows /\ \A i \in w.rows \ {w.last} : Before(invoice'[i].number, invoice'[w.last].number)
  BY <1>1, <1>2 DEF Ahead
<1>3. ASSUME w.pc = "insert", NumbersFit' PROVE \A i \in w.rows : invoice'[i].number < w.number
  BY <1>1, <1>3, FitBackward DEF Ahead
<1> QED
  BY <1>1, <1>2, <1>3 DEF Ahead

\* Among numbers that fit, the last as text is the greatest.
LEMMA BeforeIsLess ==
  ASSUME NumbersFit, NEW i \in Rows, NEW j \in Rows, Before(invoice[i].number, invoice[j].number)
  PROVE  invoice[i].number < invoice[j].number
  BY DEF NumbersFit, Before

\* Whoever takes the number after the last of the rows S is ahead of them.
LEMMA NumberAhead ==
  ASSUME IInv, NEW r \in Writers, writer[r].pc \in {"number", "lock"}, NEW last \in Invoice \cup {None}, Number(r, last),
         UNCHANGED invoice, NEW S, S = IF writer[r].pc = "number" THEN Rows ELSE writer[r].rows, S \subseteq Rows,
         last = None => S = {},
         last # None => last \in S /\ \A i \in S \ {last} : Before(invoice[i].number, invoice[last].number),
         NEW w, w = writer'[r]
  PROVE  Ahead(w)'
<1>1. writer[r] \in Work /\ writer \in [Writers -> Work] /\ invoice \in [Invoice -> Bill]
  BY DEF IInv, TypeOK
<1>2. writer'[r].pc = "insert" /\ writer'[r].rows = S /\ writer'[r].number = NextNumber(last)
  BY <1>1 DEF Number, Work
<1>3. Rows' = Rows /\ (NumbersFit' => NumbersFit)
  BY DEF Rows, Committed, NumbersFit, Digits
<1>4. ASSUME NumbersFit, NEW i \in S PROVE invoice[i].number < NextNumber(last)
  <2>1. i \in Rows /\ last \in Rows /\ last # None /\ i \in Invoice /\ last \in Invoice
    BY <1>4 DEF Rows
  <2>2. invoice[i].number \in Nat /\ invoice[last].number \in Nat /\ NextNumber(last) = invoice[last].number + 1
    BY <1>1, <2>1 DEF Bill, NextNumber
  <2>3. i = last \/ invoice[i].number < invoice[last].number
    BY <1>4, <2>1, BeforeIsLess
  <2> QED
    BY <2>2, <2>3
<1> QED
  BY <1>2, <1>3, <1>4 DEF Ahead

\* A writer that does not stand still locks bills or looks for a number, or comes
\* to need neither.
Unnumbered(r) == writer'[r].pc \notin {"rows", "lock", "insert"}

LEMMA BillLockEnds ==
  ASSUME TypeOK, NEW r \in Writers, ReadBills(r) \/ LockBill(r)
  PROVE  /\ writer'[r].pc \in {"look", "rows", "commit"}
         /\ \A q \in Writers \ {r} : writer'[q] = writer[q]
<1>1. writer[r] \in Work /\ writer \in [Writers -> Work] /\ Ready(r).pc = "commit"
  BY DEF TypeOK, Ready, NoWriter
<1>2. CASE ReadBills(r)
  <2>1. PICK v : /\ writer' = [writer EXCEPT ![r] = v]
                 /\ \/ v = [writer[r] EXCEPT !.pc = "look"]
                    \/ v = [writer[r] EXCEPT !.pc = "rows", !.bills = Dated(Found(writer[r].place, writer[r].month))]
    BY <1>2 DEF ReadBills, Dated
  <2>2. v.pc \in {"look", "rows"}
    BY <1>1, <2>1 DEF Work
  <2> QED
    BY <1>1, <2>1, <2>2
<1>3. CASE LockBill(r)
  <2>1. PICK v : /\ writer' = [writer EXCEPT ![r] = v]
                 /\ \/ \E c : v = [writer[r] EXCEPT !.bills = writer[r].bills \ {c}]
                    \/ v = [writer[r] EXCEPT !.pc = "look", !.bills = {}]
                    \/ v = Ready(r)
    BY <1>3 DEF LockBill
  <2>2. writer[r].pc = "rows"
    BY <1>3 DEF LockBill
  <2>3. v.pc \in {"look", "rows", "commit"}
    BY <1>1, <2>1, <2>2 DEF Work
  <2> QED
    BY <1>1, <2>1, <2>3
<1> QED
  BY <1>2, <1>3

\* Whoever looks for the last number comes to wait for it or to have it.
LEMMA NumberEnds ==
  ASSUME TypeOK, NEW r \in Writers, PickLast(r) \/ LockLast(r)
  PROVE  writer'[r].pc \in {"lock", "insert"} /\ \A q \in Writers \ {r} : writer'[q] = writer[q]
<1>1. writer[r] \in Work /\ writer \in [Writers -> Work]
  BY DEF TypeOK
<1>2. ASSUME NEW last, Number(r, last)
      PROVE  writer'[r].pc = "insert" /\ \A q \in Writers \ {r} : writer'[q] = writer[q]
  BY <1>1, <1>2 DEF Number, Work
<1>3. ASSUME NEW last, writer' = [writer EXCEPT ![r].pc = "lock", ![r].last = last, ![r].rows = Rows]
      PROVE  writer'[r].pc = "lock" /\ \A q \in Writers \ {r} : writer'[q] = writer[q]
  BY <1>1, <1>3 DEF Work
<1> QED
  BY <1>2, <1>3 DEF PickLast, LockLast

LEMMA WritersMove ==
  ASSUME IInv, [Next]_vars, NEW q \in Writers
  PROVE  \/ writer'[q] = writer[q] \/ Unnumbered(q)
         \/ ReadBills(q) \/ LockBill(q) \/ PickLast(q) \/ LockLast(q)
<1>1. writer \in [Writers -> Work] /\ \A r \in Writers : writer[r] \in Work
  BY DEF IInv, TypeOK
<1>2. \A r \in Writers : /\ Ready(r).pc = "commit"
                         /\ \A failed \in BOOLEAN : Rest(r, failed).pc \in {"done", "idle", "members"}
  BY DEF Ready, Rest, NoWriter
<1>3. ASSUME NEW r \in Writers, NEW w, w.pc \notin {"rows", "lock", "insert"}, writer' = [writer EXCEPT ![r] = w]
      PROVE  writer'[q] = writer[q] \/ Unnumbered(q)
  BY <1>1, <1>3 DEF Unnumbered
<1>4. ASSUME NEW r \in Writers, writer' = [writer EXCEPT ![r] = Ready(r)] PROVE writer'[q] = writer[q] \/ Unnumbered(q)
  BY <1>2, <1>3, <1>4
<1>5. ASSUME NEW r \in Writers, NEW f \in BOOLEAN, writer' = [writer EXCEPT ![r] = Rest(r, f)]
      PROVE  writer'[q] = writer[q] \/ Unnumbered(q)
  BY <1>2, <1>3, <1>5
<1>6. ASSUME NEW r \in Writers, NEW i, Returned(r, i) PROVE writer'[q] = writer[q] \/ Unnumbered(q)
  <2> DEFINE w == [NoWriter EXCEPT !.op = "pay", !.pc = "found", !.invoice = i]
  <2>1. w.pc = "found"
    BY DEF NoWriter
  <2>2. writer' = [writer EXCEPT ![r] = w] \/ writer' = [writer EXCEPT ![r] = Ready(r)]
    BY <1>6 DEF Returned
  <2> HIDE DEF w
  <2> QED
    BY <1>3, <1>4, <2>1, <2>2
<1>7. ASSUME NEW r \in Writers, InsertMember(r) PROVE writer'[q] = writer[q] \/ Unnumbered(q)
  <2>1. [writer[r] EXCEPT !.pc = "look", !.month = month, !.billing = FALSE].pc = "look"
    BY <1>1 DEF Work
  <2> QED
    BY <1>3, <1>4, <1>5, <1>7, <2>1 DEF InsertMember
<1>8. ASSUME NEW r \in Writers, ReadBills(r) \/ LockBill(r) \/ LockFound(r)
      PROVE  writer'[q] = writer[q] \/ Unnumbered(q) \/ ReadBills(q) \/ LockBill(q)
  <2>1. CASE LockFound(r)
    BY <1>4, <1>5, <2>1 DEF LockFound
  <2>2. CASE (ReadBills(r) \/ LockBill(r)) /\ q # r
    BY <2>2, BillLockEnds DEF IInv
  <2> QED
    BY <1>8, <2>1, <2>2
<1>9. ASSUME NEW r \in Writers, Look(r) \/ Relook(r) PROVE writer'[q] = writer[q] \/ Unnumbered(q)
  <2>1. ASSUME writer' = [writer EXCEPT ![r].pc = "number", ![r].seen = Stamped(Live)]
        PROVE  writer'[q] = writer[q] \/ Unnumbered(q)
    BY <1>1, <2>1 DEF Unnumbered, Work
  <2> QED
    BY <1>5, <1>6, <1>9, <2>1 DEF Look, Relook
<1>10. ASSUME NEW r \in Writers, Insert(r) \/ InsertClashes(r) PROVE writer'[q] = writer[q] \/ Unnumbered(q)
  <2>1. [writer[r] EXCEPT !.pc = "relook", !.number = 0, !.seen = {}, !.rows = {}].pc = "relook"
    BY <1>1 DEF Work
  <2> QED
    BY <1>3, <1>4, <1>5, <1>10, <2>1 DEF Insert, InsertClashes
<1>11. ASSUME NEW r \in Writers, EditSave(r) \/ Commit(r) \/ Dies(r) PROVE writer'[q] = writer[q] \/ Unnumbered(q)
  BY <1>5, <1>11 DEF EditSave, Commit, Dies
<1>12. ASSUME NEW r \in Writers, PickLast(r) \/ LockLast(r)
       PROVE  writer'[q] = writer[q] \/ PickLast(q) \/ LockLast(q)
  BY <1>12, NumberEnds DEF IInv
<1>13. ASSUME NEW r \in Requests, NEW w, Begin(r, w), w.pc \notin {"rows", "lock", "insert"}
       PROVE  writer'[q] = writer[q] \/ Unnumbered(q)
  BY <1>3, <1>13 DEF Begin, Writers
<1>14. ASSUME NEW r \in Requests, NEW op, Asked(r, op) PROVE writer'[q] = writer[q] \/ Unnumbered(q)
  BY <1>1, <1>14 DEF Asked, Unnumbered, Work, Writers
<1>15. ASSUME NEW r \in Requests, Asks(r) PROVE writer'[q] = writer[q] \/ Unnumbered(q)
  <2>1. \A p, b : [NoWriter EXCEPT !.op = "enroll", !.pc = "member", !.place = p, !.billing = b].pc = "member"
    BY DEF NoWriter
  <2>2. \A p : [NoWriter EXCEPT !.op = "self", !.pc = "look", !.place = p, !.month = month].pc = "look"
    BY DEF NoWriter
  <2>3. \A p, m : [NoWriter EXCEPT !.op = "pay", !.pc = "bills", !.place = p, !.month = m].pc = "bills"
    BY DEF NoWriter
  <2>4. \A p, d : [NoWriter EXCEPT !.op = "hand", !.pc = "number", !.place = p, !.due = d, !.seen = Stamped(Live)].pc = "number"
    BY DEF NoWriter
  <2>5. \A i, p, d : [NoWriter EXCEPT !.op = "edit", !.pc = "save", !.invoice = i, !.place = p, !.due = d,
                                      !.seen = Stamped(Live)].pc = "save"
    BY DEF NoWriter
  <2>6. ASSUME NEW p \in Place, NEW b \in BOOLEAN, Enroll(r, p, b) PROVE writer'[q] = writer[q] \/ Unnumbered(q)
    BY <1>13, <2>1, <2>6 DEF Enroll
  <2>7. ASSUME NEW p \in Place, SelfCreate(r, p) \/ SetStatus(r, p) PROVE writer'[q] = writer[q] \/ Unnumbered(q)
    BY <1>13, <1>14, <2>2, <2>7 DEF SelfCreate, SetStatus
  <2>8. ASSUME NEW p \in Place, NEW m \in Months, Pay(r, p, m) PROVE writer'[q] = writer[q] \/ Unnumbered(q)
    BY <1>13, <2>3, <2>8 DEF Pay
  <2>9. ASSUME NEW p \in Place, NEW d \in DueMonths, HandMade(r, p, d) PROVE writer'[q] = writer[q] \/ Unnumbered(q)
    BY <1>13, <2>4, <2>9 DEF HandMade
  <2>10. ASSUME NEW i \in Invoice, NEW p \in Place, NEW d \in DueMonths, EditRead(r, i, p, d)
         PROVE  writer'[q] = writer[q] \/ Unnumbered(q)
    BY <1>13, <2>5, <2>10 DEF EditRead
  <2>11. ASSUME NEW i \in Invoice, Destroy(r, i) PROVE writer'[q] = writer[q] \/ Unnumbered(q)
    BY <1>14, <2>11 DEF Destroy
  <2> QED
    BY <1>15, <2>6, <2>7, <2>8, <2>9, <2>10, <2>11 DEF Asks
<1>16. ASSUME Runs PROVE writer'[q] = writer[q] \/ Unnumbered(q)
  <2>1. Job \in Writers
    BY DEF Writers
  <2>2. [NoWriter EXCEPT !.op = "run", !.pc = "members", !.month = month, !.todo = Eligible].pc = "members" /\ NoWriter.pc = "idle"
    BY DEF NoWriter
  <2>3. ASSUME NEW p \in Place, NextMember(p) PROVE writer'[q] = writer[q] \/ Unnumbered(q)
    BY <1>1, <2>1, <2>3 DEF NextMember, Unnumbered, Work
  <2> QED
    BY <1>3, <1>16, <2>1, <2>2, <2>3 DEF Runs, RunMonth, EndRun
<1>17. ASSUME NEW r \in Writers, Works(r)
       PROVE  \/ writer'[q] = writer[q] \/ Unnumbered(q)
              \/ ReadBills(q) \/ LockBill(q) \/ PickLast(q) \/ LockLast(q)
  BY <1>7, <1>8, <1>9, <1>10, <1>11, <1>12, <1>17 DEF Works
<1>18. ASSUME NEW r \in Requests, Asks(r) \/ Dies(r) PROVE writer'[q] = writer[q] \/ Unnumbered(q)
  BY <1>11, <1>15, <1>18 DEF Writers
<1> QED
  BY <1>16, <1>17, <1>18 DEF Next, MonthTurns, vars

LEMMA AheadStep ==
  ASSUME IInv, IInvAhead, [Next]_vars
  PROVE  IInvAhead'
<1>1. RowsKept
  BY RowsStayKept
<1>2. SUFFICES ASSUME NEW r \in Writers, NEW w, w = writer'[r] PROVE Ahead(w)'
  BY DEF IInvAhead
<1>3. writer[r] \in Work /\ writer \in [Writers -> Work]
  BY DEF IInv, TypeOK
<1>4. CASE w = writer[r]
  BY <1>1, <1>4, AheadForward DEF IInvAhead
<1>5. CASE Unnumbered(r) \/ ReadBills(r) \/ LockBill(r)
  <2>1. w.pc \notin {"lock", "insert"}
    BY <1>2, <1>5, BillLockEnds DEF Unnumbered, IInv
  <2> QED
    BY <2>1 DEF Ahead
<1>6. CASE PickLast(r)
  <2>1. writer[r].pc = "number" /\ UNCHANGED invoice /\ Rows' = Rows
    BY <1>6 DEF PickLast, Rows, Committed
  <2>2. PICK last \in LastNumbered(Rows) :
          \/ Number(r, last)
          \/ last # None /\ writer' = [writer EXCEPT ![r].pc = "lock", ![r].last = last, ![r].rows = Rows]
    BY <1>6 DEF PickLast, Numbered
  <2>3. /\ last \in Invoice \cup {None}
        /\ last = None => Rows = {}
        /\ last # None => last \in Rows /\ \A i \in Rows \ {last} : Before(invoice[i].number, invoice[last].number)
    BY <2>2, BillingAssumption DEF LastNumbered, Rows, BillingAssumption
  <2>4. CASE Number(r, last)
    BY <1>2, <2>1, <2>3, <2>4, NumberAhead
  <2>5. CASE last # None /\ writer' = [writer EXCEPT ![r].pc = "lock", ![r].last = last, ![r].rows = Rows]
    <3>1. w.pc = "lock" /\ w.last = last /\ w.rows = Rows
      BY <1>2, <1>3, <2>5 DEF Work
    <3> QED
      BY <2>1, <2>3, <2>5, <3>1 DEF Ahead
  <2> QED
    BY <2>2, <2>4, <2>5
<1>7. CASE LockLast(r)
  <2>1. writer[r].pc = "lock" /\ UNCHANGED invoice /\ Number(r, writer[r].last)
    BY <1>7 DEF LockLast
  <2>2. writer[r].rows \subseteq Rows /\ writer[r].last \in writer[r].rows
        /\ \A i \in writer[r].rows \ {writer[r].last} : Before(invoice[i].number, invoice[writer[r].last].number)
    BY <2>1 DEF IInvAhead, Ahead
  <2>3. writer[r].last \in Invoice /\ writer[r].last # None
    BY <2>2, BillingAssumption DEF Rows, BillingAssumption
  <2> QED
    BY <1>2, <2>1, <2>2, <2>3, NumberAhead
<1> QED
  BY <1>2, <1>4, <1>5, <1>6, <1>7, WritersMove

\* Beside IInv: whoever waits for the last number, or has taken the next, is ahead
\* of the rows it saw, for any number of writers.
THEOREM WritersStayAhead == Spec => []IInvAhead
<1>1. Init => IInvAhead
  <2>1. ASSUME Init PROVE \A r \in Writers : writer[r].pc = "idle"
    BY <2>1 DEF Init, NoWriter
  <2> QED
    BY <2>1 DEF IInvAhead, Ahead
<1> QED
  BY <1>1, InitSound, NextSound, AheadStep, PTL DEF Spec

\* generate_invoice_number gives out the number of no invoice that was committed
\* when it looked, as long as no number has outgrown its padding; from then on it
\* does (NumbersRunOut.cfg).
THEOREM NumbersClashInRacesOnly == Spec => [](NumbersFit => ClashOnlyInRace)
<1>1. IInv /\ IInvAhead => (NumbersFit => ClashOnlyInRace)
  <2> SUFFICES ASSUME IInv, IInvAhead, NumbersFit, NEW r \in Writers, writer[r].pc = "insert", NEW i \in writer[r].rows
               PROVE  invoice[i].number # writer[r].number
    BY DEF ClashOnlyInRace, SameNumber
  <2>1. i \in Invoice /\ writer[r] \in Work /\ invoice[i].number \in Nat /\ writer[r].number \in Nat
    BY DEF IInv, TypeOK, Work, Bill
  <2>2. invoice[i].number < writer[r].number
    BY DEF IInvAhead, Ahead
  <2> QED
    BY <2>1, <2>2
<1> QED
  BY <1>1, SeenStaysSound, WritersStayAhead, PTL

-----------------------------------------------------------------------------
(* Waiting                                                                 *)

\* A step of one writer after which every lock and every row not committed yet is
\* another's, as before, or its own and on its way to the commit.
Hands(r) ==
  LET w == writer'[r] IN
  /\ \A q \in Writers \ {r} : writer'[q] = writer[q]
  /\ \A i \in Invoice : held'[i] # None =>
       (held'[i] = held[i] /\ held[i] # r) \/ (held'[i] = r /\ w.pc \in {"rows", "insert", "commit"})
  /\ \A i \in Invoice : invoice'[i].state = "new" =>
       (invoice'[i] = invoice[i] /\ invoice[i].by # r) \/ (invoice'[i].by = r /\ w.pc = "commit")
  /\ \A p \in Place : member'[p].state = "joining" =>
       \/ member'[p] = member[p] /\ member[p].by # r
       \/ /\ member'[p].by = r
          /\ w.pc = "commit" \/ (w.op = "enroll" /\ w.pc \in {"look", "number", "lock", "insert", "relook"})
  /\ Aims(w)

LEMMA HandsKept ==
  ASSUME TypeOK, RowsInHand, NEW r \in Writers, Hands(r)
  PROVE  RowsInHand'
<1>1. held \in [Invoice -> Writers \cup {None}]
  BY DEF TypeOK
<1>2. ASSUME NEW i \in Invoice, held'[i] # None PROVE writer'[held'[i]].pc \in {"rows", "insert", "commit"}
  BY <1>1, <1>2 DEF Hands, RowsInHand
<1>3. ASSUME NEW i \in Invoice, invoice'[i].state = "new"
      PROVE  invoice'[i].by \in Writers /\ writer'[invoice'[i].by].pc = "commit"
  BY <1>3 DEF Hands, RowsInHand
<1>4. ASSUME NEW p \in Place, member'[p].state = "joining", NEW w, w = writer'[member'[p].by]
      PROVE  /\ member'[p].by \in Writers
             /\ w.pc = "commit" \/ (w.op = "enroll" /\ w.pc \in {"look", "number", "lock", "insert", "relook"})
  BY <1>4 DEF Hands, RowsInHand
<1>5. ASSUME NEW q \in Writers PROVE Aims(writer'[q])
  BY DEF Hands, RowsInHand
<1> QED
  BY <1>2, <1>3, <1>4, <1>5 DEF RowsInHand, Aims

\* The writer's own entries are those of its stage.
LEMMA InHandOf ==
  ASSUME TypeOK, RowsInHand, NEW r \in Writers
  PROVE  /\ writer[r].pc \notin {"rows", "insert", "commit"} => \A i \in Invoice : held[i] # r
         /\ writer[r].pc # "commit" => Own(r) = {}
         /\ writer[r].pc # "commit" /\ (writer[r].op # "enroll" \/ writer[r].pc \notin {"look", "number", "lock", "insert", "relook"})
              => Joining(r) = {}
<1>1. r # None
  BY BillingAssumption DEF BillingAssumption, Writers
<1> QED
  BY <1>1 DEF RowsInHand, Own, Joining

\* A writer that has nothing in hand, and takes nothing, may go anywhere.
LEMMA EmptyHands ==
  ASSUME TypeOK, RowsInHand, NEW r \in Writers, NEW w, writer' = [writer EXCEPT ![r] = w],
         writer[r].pc \in {"idle", "member", "bills", "found", "members", "save", "done"}, Aims(w),
         held' = held,
         \A i \in Invoice : invoice'[i].state = "new" => invoice'[i] = invoice[i],
         \A p \in Place : member'[p].state = "joining" => member'[p] = member[p]
  PROVE  Hands(r)
<1>1. writer'[r] = w /\ \A q \in Writers \ {r} : writer'[q] = writer[q]
  BY DEF TypeOK
<1>2. (\A i \in Invoice : held[i] # r) /\ Own(r) = {} /\ Joining(r) = {}
  BY InHandOf
<1> QED
  BY <1>1, <1>2 DEF Hands, Own, Joining

\* Its rows are let go of, however the transaction ends.
LEMMA OpenHands ==
  ASSUME TypeOK, RowsInHand, NEW r \in Writers, NEW w, writer' = [writer EXCEPT ![r] = w], Aims(w),
         RollBack(r) \/ Commit(r)
  PROVE  Hands(r)
<1>1. writer'[r] = w /\ \A q \in Writers \ {r} : writer'[q] = writer[q]
  BY DEF TypeOK
<1>2. \A i \in Invoice : held'[i] # None => held'[i] = held[i] /\ held[i] # r
  BY DEF RollBack, Commit, Unlocked
<1>3. \A i \in Invoice : invoice'[i].state = "new" => invoice'[i] = invoice[i] /\ invoice[i].by # r
  <2>1. NoInvoice.state # "new" /\ invoice \in [Invoice -> Bill]
    BY DEF NoInvoice, TypeOK
  <2>2. \A i \in Own(r) : invoice'[i].state # "new"
    BY <2>1 DEF RollBack, Commit, Own, Bill
  <2>3. \A i \in Invoice \ Own(r) : invoice'[i] = invoice[i]
    BY DEF RollBack, Commit
  <2> QED
    BY <2>2, <2>3 DEF Own
<1>4. \A p \in Place : member'[p].state = "joining" => member'[p] = member[p] /\ member[p].by # r
  <2>1. member \in [Place -> Members]
    BY DEF TypeOK
  <2>2. ASSUME NEW p \in Joining(r) PROVE member'[p].state # "joining"
    <3>1. p \in Place /\ member[p] \in Members
      BY <2>1 DEF Joining
    <3>2. CASE RollBack(r)
      BY <3>1, <3>2 DEF RollBack
    <3>3. CASE Commit(r)
      <4>1. member'[p] = [member[p] EXCEPT !.state = "active", !.by = None]
        BY <3>1, <3>3 DEF Commit
      <4> QED
        BY <3>1, <4>1 DEF Members
    <3> QED
      BY <3>2, <3>3
  <2>3. \A p \in Place \ Joining(r) : member'[p] = member[p]
    BY DEF RollBack, Commit
  <2> QED
    BY <2>2, <2>3 DEF Joining
<1> QED
  BY <1>1, <1>2, <1>3, <1>4 DEF Hands

\* A writer goes on with what it has in hand, and may lock rows for an insert or
\* before its commit.
LEMMA GoesOn ==
  ASSUME TypeOK, RowsInHand, NEW r \in Writers, NEW w, writer' = [writer EXCEPT ![r] = w], Aims(w),
         \/ w.pc = "commit"
         \/ w.op = writer[r].op /\ w.pc \in {"look", "number", "lock", "insert", "relook"}
         \/ Joining(r) = {},
         UNCHANGED <<invoice, member>>,
         writer[r].pc # "commit",
         \A i \in Invoice : held'[i] # None =>
           (held'[i] = held[i] /\ held[i] # r) \/ (held'[i] = r /\ w.pc \in {"rows", "insert", "commit"})
  PROVE  Hands(r)
<1>1. writer'[r] = w /\ \A q \in Writers \ {r} : writer'[q] = writer[q]
  BY DEF TypeOK
<1>2. \A i \in Invoice : invoice[i].state = "new" => invoice[i].by # r
  BY InHandOf DEF Own
<1>3. ASSUME NEW p \in Place, member[p].state = "joining", member[p].by = r
      PROVE  w.pc = "commit" \/ (w.op = "enroll" /\ w.pc \in {"look", "number", "lock", "insert", "relook"})
  <2>1. Joining(r) # {}
    BY <1>3 DEF Joining
  <2>2. writer[r].op = "enroll"
    BY <2>1, InHandOf
  <2> QED
    BY <2>1, <2>2
<1> QED
  BY <1>1, <1>2, <1>3 DEF Hands

LEMMA Ends ==
  ASSUME NEW r
  PROVE  /\ Ready(r).pc = "commit" /\ Aims(Ready(r))
         /\ \A f \in BOOLEAN : Rest(r, f).pc \in {"done", "idle", "members"} /\ Aims(Rest(r, f))
<1>1. Ready(r).pc = "commit"
  BY DEF Ready, NoWriter
<1>2. \A f \in BOOLEAN : Rest(r, f).pc \in {"done", "idle", "members"}
  BY DEF Rest, NoWriter
<1> QED
  BY <1>1, <1>2 DEF Aims

LEMMA BeginHands ==
  ASSUME TypeOK, RowsInHand, NEW r \in Writers, NEW w, Begin(r, w), Aims(w), UNCHANGED <<member, invoice, held>>
  PROVE  Hands(r)
  BY EmptyHands DEF Begin

LEMMA AskHands ==
  ASSUME TypeOK, RowsInHand, NEW r \in Writers, Asks(r)
  PROVE  Hands(r)
<1>1. ASSUME NEW p \in Place, NEW b \in BOOLEAN, Enroll(r, p, b) PROVE Hands(r)
  <2> DEFINE w == [NoWriter EXCEPT !.op = "enroll", !.pc = "member", !.place = p, !.billing = b]
  <2>1. w.pc = "member" /\ w.op = "enroll" /\ w.place = p
    BY DEF NoWriter
  <2>2. Begin(r, w) /\ UNCHANGED <<member, invoice, held>>
    BY <1>1 DEF Enroll
  <2> HIDE DEF w
  <2> QED
    BY <2>1, <2>2, BeginHands DEF Aims
<1>2. ASSUME NEW p \in Place, SelfCreate(r, p) PROVE Hands(r)
  <2> DEFINE w == [NoWriter EXCEPT !.op = "self", !.pc = "look", !.place = p, !.month = month]
  <2>1. w.pc = "look"
    BY DEF NoWriter
  <2>2. Begin(r, w) /\ UNCHANGED <<member, invoice, held>>
    BY <1>2 DEF SelfCreate
  <2> HIDE DEF w
  <2> QED
    BY <2>1, <2>2, BeginHands DEF Aims
<1>3. ASSUME NEW p \in Place, NEW m \in Months, Pay(r, p, m) PROVE Hands(r)
  <2> DEFINE w == [NoWriter EXCEPT !.op = "pay", !.pc = "bills", !.place = p, !.month = m]
  <2>1. w.pc = "bills"
    BY DEF NoWriter
  <2>2. Begin(r, w) /\ UNCHANGED <<member, invoice, held>>
    BY <1>3 DEF Pay
  <2> HIDE DEF w
  <2> QED
    BY <2>1, <2>2, BeginHands DEF Aims
<1>4. ASSUME NEW p \in Place, NEW d \in DueMonths, HandMade(r, p, d) PROVE Hands(r)
  <2> DEFINE w == [NoWriter EXCEPT !.op = "hand", !.pc = "number", !.place = p, !.due = d, !.seen = Stamped(Live)]
  <2>1. w.pc = "number"
    BY DEF NoWriter
  <2>2. Begin(r, w) /\ UNCHANGED <<member, invoice, held>>
    BY <1>4 DEF HandMade
  <2> HIDE DEF w
  <2> QED
    BY <2>1, <2>2, BeginHands DEF Aims
<1>5. ASSUME NEW i \in Invoice, NEW p \in Place, NEW d \in DueMonths, EditRead(r, i, p, d) PROVE Hands(r)
  <2> DEFINE w == [NoWriter EXCEPT !.op = "edit", !.pc = "save", !.invoice = i, !.place = p, !.due = d, !.seen = Stamped(Live)]
  <2>1. w.pc = "save"
    BY DEF NoWriter
  <2>2. Begin(r, w) /\ UNCHANGED <<member, invoice, held>>
    BY <1>5 DEF EditRead
  <2> HIDE DEF w
  <2> QED
    BY <2>1, <2>2, BeginHands DEF Aims
<1>6. ASSUME NEW op, Asked(r, op), held' = held,
             \A i \in Invoice : invoice'[i].state = "new" => invoice'[i] = invoice[i],
             \A p \in Place : member'[p].state = "joining" => member'[p] = member[p]
      PROVE  Hands(r)
  <2> DEFINE w == [writer[r] EXCEPT !.pc = "done"]
  <2>1. writer' = [writer EXCEPT ![r] = w] /\ writer[r].pc = "idle"
    BY <1>6 DEF Asked
  <2>2. w.pc = "done"
    BY DEF TypeOK, Work
  <2> HIDE DEF w
  <2> QED
    BY <1>6, <2>1, <2>2, EmptyHands DEF Aims
<1>7. ASSUME NEW i \in Invoice, Destroy(r, i) PROVE Hands(r)
  <2>1. invoice'[i].state = "deleted" /\ \A j \in Invoice \ {i} : invoice'[j] = invoice[j]
    BY <1>7 DEF Destroy, TypeOK, Bill
  <2> QED
    BY <1>6, <1>7, <2>1 DEF Destroy
<1>8. ASSUME NEW p \in Place, SetStatus(r, p) PROVE Hands(r)
  <2>1. member'[p].state \in {"active", "left"} /\ \A q \in Place \ {p} : member'[q] = member[q]
    BY <1>8 DEF SetStatus, TypeOK, Members
  <2> QED
    BY <1>6, <1>8, <2>1 DEF SetStatus
<1> QED
  BY <1>1, <1>2, <1>3, <1>4, <1>5, <1>7, <1>8 DEF Asks

LEMMA InsertMemberHands ==
  ASSUME TypeOK, RowsInHand, NEW r \in Writers, InsertMember(r)
  PROVE  Hands(r)
<1> DEFINE p == writer[r].place
           look == [writer[r] EXCEPT !.pc = "look", !.month = month, !.billing = FALSE]
<1>1. writer[r].op = "enroll" /\ p \in Place /\ writer[r].pc = "member"
  BY DEF InsertMember, RowsInHand, Aims
<1>2. look.pc = "look" /\ look.op = "enroll"
  BY <1>1 DEF TypeOK, Work
<1>3. ASSUME NEW w, writer' = [writer EXCEPT ![r] = w], Aims(w), UNCHANGED <<invoice, held>>,
             w.pc = "commit" \/ (w.pc = "look" /\ w.op = "enroll"),
             member' = [member EXCEPT ![p] = [state |-> "joining", by |-> r, joined |-> month]]
      PROVE  Hands(r)
  <2>1. writer'[r] = w /\ \A q \in Writers \ {r} : writer'[q] = writer[q]
    BY <1>3 DEF TypeOK
  <2>2. (\A i \in Invoice : held[i] # r) /\ Own(r) = {} /\ Joining(r) = {}
    BY <1>1, InHandOf
  <2>3. member'[p].by = r /\ \A q \in Place \ {p} : member'[q] = member[q]
    BY <1>1, <1>3 DEF TypeOK
  <2> QED
    BY <1>3, <2>1, <2>2, <2>3 DEF Hands, Own, Joining
<1>4. CASE RollBack(r) /\ writer' = [writer EXCEPT ![r] = Rest(r, TRUE)]
  BY <1>4, Ends, OpenHands
<1>5. CASE /\ member' = [member EXCEPT ![p] = [state |-> "joining", by |-> r, joined |-> month]]
           /\ writer' = [writer EXCEPT ![r] = look] \/ writer' = [writer EXCEPT ![r] = Ready(r)]
           /\ UNCHANGED <<invoice, held>>
  <2> HIDE DEF look
  <2> QED
    BY <1>2, <1>3, <1>5, Ends DEF Aims
<1> QED
  BY <1>4, <1>5 DEF InsertMember

\* A payment has nothing in hand but the bills of its month.
LEMMA LockHands ==
  ASSUME TypeOK, RowsInHand, NEW r \in Writers, ReadBills(r) \/ LockBill(r) \/ LockFound(r)
  PROVE  Hands(r)
<1>1. writer[r].pc \in {"bills", "rows", "found"} /\ r # None /\ writer[r] \in Work
  BY BillingAssumption DEF ReadBills, LockBill, LockFound, BillingAssumption, Writers, TypeOK
<1>2. Joining(r) = {}
  BY <1>1, InHandOf
<1>3. CASE ReadBills(r)
  <2>1. PICK v : /\ writer' = [writer EXCEPT ![r] = v]
                 /\ \/ v = [writer[r] EXCEPT !.pc = "look"]
                    \/ v = [writer[r] EXCEPT !.pc = "rows", !.bills = Dated(Found(writer[r].place, writer[r].month))]
    BY <1>3 DEF ReadBills, Dated
  <2>2. v.pc \in {"look", "rows"}
    BY <1>1, <2>1 DEF Work
  <2>3. writer[r].pc = "bills" /\ UNCHANGED <<member, invoice, held>>
    BY <1>3 DEF ReadBills
  <2>4. \A i \in Invoice : held[i] # r
    BY <2>3, InHandOf
  <2> QED
    BY <1>1, <1>2, <2>1, <2>2, <2>3, <2>4, GoesOn DEF Aims
<1>4. CASE LockBill(r)
  <2>a. PICK b, S :
          /\ S = {j \in Invoice : held[j] = r} \cup ({b[1]} \cap Found(writer[r].place, writer[r].month))
          /\ Lock(S, r)
          /\ writer' = [writer EXCEPT ![r] =
               IF writer[r].bills # {b} THEN [writer[r] EXCEPT !.bills = writer[r].bills \ {b}]
               ELSE IF S = {} THEN [writer[r] EXCEPT !.pc = "look", !.bills = {}] ELSE Ready(r)]
    BY <1>4 DEF LockBill
  <2>1. PICK v : /\ writer' = [writer EXCEPT ![r] = v]
                 /\ \/ \E c : v = [writer[r] EXCEPT !.bills = writer[r].bills \ {c}]
                    \/ v = [writer[r] EXCEPT !.pc = "look", !.bills = {}] /\ S = {}
                    \/ v = Ready(r)
    BY <2>a
  <2>2. writer[r].pc = "rows" /\ UNCHANGED <<member, invoice>>
    BY <1>4 DEF LockBill
  <2>3. v.pc \in {"look", "rows", "commit"} /\ (v.pc = "look" => S = {})
    BY <1>1, <2>1, <2>2, Ends DEF Work
  <2>4. \A i \in Invoice : held'[i] # None => (held'[i] = held[i] /\ held[i] # r) \/ (held'[i] = r /\ v.pc \in {"rows", "commit"})
    BY <2>a, <2>3 DEF Lock
  <2> QED
    BY <1>1, <1>2, <2>1, <2>2, <2>3, <2>4, GoesOn DEF Aims
<1>5. CASE LockFound(r)
  <2>1. CASE Lock({writer[r].invoice}, r) /\ writer' = [writer EXCEPT ![r] = Ready(r)] /\ UNCHANGED <<member, invoice>>
    <3>1. \A i \in Invoice : held[i] # r
      BY <1>5, InHandOf DEF LockFound
    <3>2. \A i \in Invoice : held'[i] # None => (held'[i] = held[i] /\ held[i] # r) \/ held'[i] = r
      BY <2>1, <3>1 DEF Lock
    <3> QED
      BY <1>1, <1>2, <2>1, <3>2, Ends, GoesOn
  <2>2. CASE RollBack(r) /\ writer' = [writer EXCEPT ![r] = Rest(r, TRUE)]
    BY <2>2, Ends, OpenHands
  <2> QED
    BY <1>5, <2>1, <2>2 DEF LockFound
<1> QED
  BY <1>3, <1>4, <1>5

LEMMA LookHands ==
  ASSUME TypeOK, RowsInHand, NEW r \in Writers, Look(r) \/ Relook(r)
  PROVE  Hands(r)
<1>1. writer[r].pc \in {"look", "relook"} /\ writer[r] \in Work
  BY DEF Look, Relook, TypeOK
<1>2. (\A i \in Invoice : held[i] # r) /\ (writer[r].op # "enroll" => Joining(r) = {})
  BY <1>1, InHandOf
<1>3. ASSUME NEW i \in FindsBill(r), Returned(r, i), UNCHANGED <<member, invoice, held>> PROVE Hands(r)
  <2> DEFINE found == [NoWriter EXCEPT !.op = "pay", !.pc = "found", !.invoice = i]
  <2>1. found.pc = "found" /\ found.invoice = i
    BY DEF NoWriter
  <2>2. i \in Invoice
    BY DEF FindsBill, Found, Live
  <2>3. Aims(found)
    BY <2>1, <2>2 DEF Aims
  <2>4. CASE writer[r].op = "pay"
    <3>1. writer' = [writer EXCEPT ![r] = found] /\ Joining(r) = {}
      BY <1>2, <1>3, <2>4 DEF Returned
    <3> HIDE DEF found
    <3> QED
      BY <1>1, <1>2, <1>3, <2>3, <3>1, GoesOn
  <2>5. CASE writer[r].op # "pay"
    <3>1. writer' = [writer EXCEPT ![r] = Ready(r)]
      BY <1>3, <2>5 DEF Returned
    <3> QED
      BY <1>1, <1>2, <1>3, <3>1, Ends, GoesOn
  <2> QED
    BY <2>4, <2>5
<1>4. CASE writer' = [writer EXCEPT ![r].pc = "number", ![r].seen = Stamped(Live)] /\ UNCHANGED <<member, invoice, held>>
  <2> DEFINE w == [writer[r] EXCEPT !.pc = "number", !.seen = Stamped(Live)]
  <2>1. w.pc = "number" /\ w.op = writer[r].op /\ writer' = [writer EXCEPT ![r] = w]
    BY <1>1, <1>4 DEF Work, TypeOK
  <2> HIDE DEF w
  <2> QED
    BY <1>1, <1>2, <1>4, <2>1, GoesOn DEF Aims
<1>5. CASE RollBack(r) /\ writer' = [writer EXCEPT ![r] = Rest(r, TRUE)]
  BY <1>5, Ends, OpenHands
<1> QED
  BY <1>3, <1>4, <1>5 DEF Look, Relook

LEMMA NumberHands ==
  ASSUME TypeOK, RowsInHand, NEW r \in Writers, PickLast(r) \/ LockLast(r)
  PROVE  Hands(r)
<1>1. writer[r].pc \in {"number", "lock"} /\ writer[r] \in Work /\ writer \in [Writers -> Work] /\ UNCHANGED <<member, invoice>>
  BY DEF PickLast, LockLast, TypeOK
<1>2. \A i \in Invoice : held[i] # r
  BY <1>1, InHandOf
<1>3. ASSUME NEW last, Number(r, last) PROVE Hands(r)
  <2> DEFINE w == [writer[r] EXCEPT !.pc = "insert", !.number = NextNumber(last), !.last = None,
                                    !.rows = IF writer[r].pc = "number" THEN Rows ELSE @]
  <2>1. w.pc = "insert" /\ w.op = writer[r].op
    BY <1>1 DEF Work
  <2>2. writer' = [writer EXCEPT ![r] = w]
    BY <1>1, <1>3 DEF Number
  <2>3. \A i \in Invoice : held'[i] = held[i] \/ held'[i] = r
    BY <1>3 DEF Number, Lock
  <2> HIDE DEF w
  <2> QED
    BY <1>1, <1>2, <2>1, <2>2, <2>3, GoesOn DEF Aims
<1>4. ASSUME NEW last, writer' = [writer EXCEPT ![r].pc = "lock", ![r].last = last, ![r].rows = Rows], UNCHANGED held
      PROVE  Hands(r)
  <2> DEFINE w == [writer[r] EXCEPT !.pc = "lock", !.last = last, !.rows = Rows]
  <2>1. w.pc = "lock" /\ w.op = writer[r].op
    BY <1>1 DEF Work
  <2>2. writer' = [writer EXCEPT ![r] = w]
    BY <1>1, <1>4
  <2> HIDE DEF w
  <2> QED
    BY <1>1, <1>2, <1>4, <2>1, <2>2, GoesOn DEF Aims
<1> QED
  BY <1>3, <1>4 DEF PickLast, LockLast

LEMMA InsertHands ==
  ASSUME TypeOK, RowsInHand, NEW r \in Writers, Insert(r)
  PROVE  Hands(r)
<1>1. writer[r].pc = "insert" /\ writer' = [writer EXCEPT ![r] = Ready(r)] /\ UNCHANGED <<member, held>> /\ Fresh \in Invoice
  BY DEF Insert, Fresh, Younger, Absent
<1>2. writer'[r] = Ready(r) /\ \A q \in Writers \ {r} : writer'[q] = writer[q]
  BY <1>1 DEF TypeOK
<1>3. \A i \in Invoice : invoice[i].state = "new" => invoice[i].by # r
  BY <1>1, InHandOf DEF Own
<1>4. PICK d : Inserted(r, writer[r].place, Period(r), d)
  BY DEF Insert
<1>5. invoice'[Fresh].by = r /\ \A i \in Invoice \ {Fresh} : invoice'[i] = invoice[i]
  BY <1>1, <1>4 DEF Inserted, TypeOK, NoInvoice
<1> QED
  BY <1>1, <1>2, <1>3, <1>5, Ends DEF Hands

LEMMA InsertClashesHands ==
  ASSUME TypeOK, RowsInHand, NEW r \in Writers, InsertClashes(r)
  PROVE  Hands(r)
<1> DEFINE w == [writer[r] EXCEPT !.pc = "relook", !.number = 0, !.seen = {}, !.rows = {}]
<1>1. writer[r].pc = "insert" /\ w.pc = "relook" /\ w.op = writer[r].op
  BY DEF InsertClashes, TypeOK, Work
<1>2. CASE RollBack(r) /\ writer' = [writer EXCEPT ![r] = Rest(r, TRUE)]
  BY <1>2, Ends, OpenHands
<1>3. CASE held' = Unlocked(r) /\ writer' = [writer EXCEPT ![r] = w] /\ UNCHANGED <<member, invoice>>
  <2>1. \A i \in Invoice : held'[i] # None => held'[i] = held[i] /\ held[i] # r
    BY <1>3 DEF Unlocked
  <2> HIDE DEF w
  <2> QED
    BY <1>1, <1>3, <2>1, GoesOn DEF Aims
<1> QED
  BY <1>2, <1>3 DEF InsertClashes

LEMMA EditSaveHands ==
  ASSUME TypeOK, RowsInHand, NEW r \in Writers, EditSave(r)
  PROVE  Hands(r)
<1> DEFINE i == writer[r].invoice
<1>1. writer[r].pc = "save" /\ UNCHANGED <<member, held>> /\ invoice \in [Invoice -> Bill]
      /\ \E f \in BOOLEAN : writer' = [writer EXCEPT ![r] = Rest(r, f)]
  BY DEF EditSave, TypeOK
<1>2. \A j \in Invoice : invoice'[j] = invoice[j] \/ invoice'[j].state = "live"
  <2>1. CASE UNCHANGED invoice
    BY <2>1
  <2>2. CASE invoice' = [invoice EXCEPT ![i].edits = @ + 1, ![i].state = "live", ![i].place = writer[r].place,
                                        ![i].due = writer[r].due, ![i].seen = writer[r].seen]
    <3> DEFINE b == [invoice[i] EXCEPT !.edits = @ + 1, !.state = "live", !.place = writer[r].place, !.due = writer[r].due,
                                       !.seen = writer[r].seen]
    <3>1. invoice' = [invoice EXCEPT ![i] = b]
      BY <2>2
    <3>2. i \in Invoice => b.state = "live"
      BY <1>1 DEF Bill
    <3> HIDE DEF b
    <3> QED
      BY <1>1, <3>1, <3>2
  <2> QED
    BY <2>1, <2>2 DEF EditSave
<1> QED
  BY <1>1, <1>2, Ends, EmptyHands

LEMMA RunHands ==
  ASSUME TypeOK, RowsInHand, Runs
  PROVE  Hands(Job)
<1>1. Job \in Writers /\ writer[Job] \in Work /\ writer[Job].pc \in {"idle", "members"} /\ UNCHANGED <<month, member, invoice, held>>
  BY DEF Writers, TypeOK, Runs, RunMonth, EndRun, NextMember
<1>2. CASE RunMonth
  <2> DEFINE w == [NoWriter EXCEPT !.op = "run", !.pc = "members", !.month = month, !.todo = Eligible]
  <2>1. w.pc = "members" /\ writer' = [writer EXCEPT ![Job] = w]
    BY <1>2 DEF RunMonth, NoWriter
  <2> HIDE DEF w
  <2> QED
    BY <1>1, <2>1, EmptyHands DEF Aims
<1>3. CASE EndRun
  <2>1. NoWriter.pc = "idle" /\ writer' = [writer EXCEPT ![Job] = NoWriter]
    BY <1>3 DEF EndRun, NoWriter
  <2> QED
    BY <1>1, <2>1, EmptyHands DEF Aims
<1>4. ASSUME NEW p \in Place, NextMember(p) PROVE Hands(Job)
  <2> DEFINE w == [writer[Job] EXCEPT !.pc = "look", !.place = p, !.todo = @ \ {p}]
  <2>1. w.pc = "look" /\ writer' = [writer EXCEPT ![Job] = w] /\ writer[Job].pc = "members"
    BY <1>1, <1>4 DEF NextMember, Work, TypeOK
  <2> HIDE DEF w
  <2> QED
    BY <1>1, <2>1, EmptyHands DEF Aims
<1> QED
  BY <1>2, <1>3, <1>4 DEF Runs

LEMMA HandsInit == Init => RowsInHand
<1> SUFFICES ASSUME Init PROVE RowsInHand
  OBVIOUS
<1>1. \A i \in Invoice : held[i] = None /\ invoice[i].state # "new"
  BY DEF Init, NoInvoice
<1>2. \A p \in Place : member[p].state # "joining"
  BY DEF Init
<1>3. \A r \in Writers : Aims(writer[r])
  BY DEF Init, NoWriter, Aims
<1> QED
  BY <1>1, <1>2, <1>3 DEF RowsInHand

LEMMA SomeHands ==
  ASSUME TypeOK, RowsInHand, [Next]_vars
  PROVE  (\E r \in Writers : Hands(r)) \/ UNCHANGED <<member, invoice, held, writer>>
<1>1. ASSUME NEW r \in Writers, Works(r) PROVE Hands(r)
  <2>1. CASE Commit(r)
    BY <2>1, Ends, OpenHands DEF Commit
  <2> QED
    BY <1>1, <2>1, InsertMemberHands, LockHands, LookHands, NumberHands, InsertHands, InsertClashesHands, EditSaveHands DEF Works
<1>2. ASSUME NEW r \in Requests, Asks(r) \/ Dies(r) PROVE r \in Writers /\ Hands(r)
  <2>1. r \in Writers
    BY DEF Writers
  <2>2. CASE Dies(r)
    BY <2>1, <2>2, Ends, OpenHands DEF Dies
  <2> QED
    BY <1>2, <2>1, <2>2, AskHands
<1>3. CASE Runs
  <2>1. Job \in Writers
    BY DEF Writers
  <2> QED
    BY <1>3, <2>1, RunHands
<1>4. CASE MonthTurns \/ UNCHANGED vars
  BY <1>4 DEF MonthTurns, vars
<1> QED
  BY <1>1, <1>2, <1>3, <1>4 DEF Next

LEMMA HandsStep ==
  ASSUME TypeOK, RowsInHand, [Next]_vars
  PROVE  RowsInHand'
<1>1. CASE \E r \in Writers : Hands(r)
  BY <1>1, HandsKept
<1>2. CASE UNCHANGED <<member, invoice, held, writer>>
  BY <1>2 DEF RowsInHand, Aims
<1> QED
  BY <1>1, <1>2, SomeHands

\* Whatever happens, a lock, a new invoice or a new membership is that of a writer
\* whose transaction is under way: one that locks the bills of a month one by one,
\* takes a number, or has only to commit.
THEOREM RowsStayInHand == Spec => [](TypeOK /\ RowsInHand)
<1>1. Init => TypeOK /\ RowsInHand
  BY InitSound, HandsInit DEF IInv
<1>2. IInv /\ IInv' /\ RowsInHand /\ [Next]_vars => (TypeOK /\ RowsInHand)'
  BY HandsStep DEF IInv
<1> QED
  BY <1>1, <1>2, SeenStaysSound, PTL DEF Spec

-----------------------------------------------------------------------------
(* The bills of a payment                                                  *)
(*                                                                         *)
(* pay() has locked the bills that come before the ones it has yet to lock *)
(* (InOrder): its own steps keep the order they go by, and a committed bill *)
(* keeps its due date unless it is edited (RowsKept).                      *)

\* A writer gets no lock but by a step of its own.
LEMMA LocksMove ==
  ASSUME TypeOK, RowsInHand, [Next]_vars, NEW r \in Writers, writer'[r] = writer[r], ~LockBill(r), writer[r].pc = "rows",
         NEW i \in Invoice, held'[i] = r
  PROVE  held[i] = r
<1>1. r # None
  BY BillingAssumption DEF BillingAssumption, Writers
<1>2. ASSUME NEW q \in Writers, Hands(q), q # r PROVE held[i] = r
  BY <1>1, <1>2 DEF Hands
<1>3. ASSUME NEW q \in Writers, Works(q) \/ (q \in Requests /\ (Asks(q) \/ Dies(q))) \/ (q = Job /\ Runs), q # r PROVE held[i] = r
  <2>1. Hands(q)
    BY <1>3, Ends, OpenHands, InsertMemberHands, LockHands, LookHands, NumberHands, InsertHands, InsertClashesHands,
       EditSaveHands, AskHands, RunHands DEF Works, Commit, Dies
  <2> QED
    BY <1>2, <1>3, <2>1
<1>4. ~Works(r) /\ (r = Job => ~Runs)
  BY DEF Works, InsertMember, ReadBills, LockFound, Look, PickLast, LockLast, Insert, InsertClashes, Relook, EditSave, Commit,
     Runs, RunMonth, EndRun, NextMember
<1>5. r \in Requests => ~Asks(r)
  BY DEF Asks, Enroll, SelfCreate, SetStatus, Pay, HandMade, EditRead, Destroy, Begin, Asked
<1>6. r \in Requests => ~Dies(r)
  <2>1. ASSUME Dies(r) PROVE writer'[r] = Rest(r, TRUE)
    BY <2>1 DEF Dies, TypeOK
  <2> QED
    BY <2>1, Ends
<1>7. CASE UNCHANGED held
  BY <1>7
<1> QED
  BY <1>3, <1>4, <1>5, <1>6, <1>7 DEF Next, MonthTurns, vars, Writers

LEMMA BillsSorted ==
  ASSUME IInv, RowsInHand, BillsInOrder, [Next]_vars
  PROVE  BillsInOrder'
<1>1. RowsKept /\ TypeOK
  BY RowsStayKept DEF IInv
<1>2. SUFFICES ASSUME NEW r \in Writers, writer'[r].pc = "rows" PROVE InOrder(r)'
  BY DEF BillsInOrder, InOrder
<1>3. r # None /\ writer[r] \in Work /\ writer \in [Writers -> Work]
  BY <1>1, BillingAssumption DEF BillingAssumption, Writers, TypeOK
<1>4. \A b \in writer[r].bills : b \in Invoice \X DueMonths /\ b = <<b[1], b[2]>> /\ b[1] \in Invoice
  BY <1>3 DEF Work
<1>5. CASE ReadBills(r)
  <2>1. UNCHANGED <<invoice, held>> /\ writer[r].pc = "bills"
    BY <1>5 DEF ReadBills
  <2>2. \A i \in Invoice : held[i] # r
    BY <1>1, <2>1, InHandOf
  <2>3. writer'[r].bills = Dated(Found(writer[r].place, writer[r].month))
    BY <1>2, <1>3, <1>5 DEF ReadBills, Dated, Work
  <2>4. \A b \in writer'[r].bills : b[1] \in Rows /\ b[2] = invoice[b[1]].due
    BY <2>3 DEF Dated, Found, Live, Rows, Committed
  <2>5. Rows' = Rows
    BY <2>1 DEF Rows, Committed
  <2> QED
    BY <2>1, <2>2, <2>4, <2>5 DEF InOrder
<1>6. CASE LockBill(r)
  <2>1. PICK b \in writer[r].bills :
          /\ First(b, writer[r].bills)
          /\ Lock({j \in Invoice : held[j] = r} \cup ({b[1]} \cap Found(writer[r].place, writer[r].month)), r)
          /\ \/ writer' = [writer EXCEPT ![r] = [writer[r] EXCEPT !.bills = writer[r].bills \ {b}]]
             \/ writer' = [writer EXCEPT ![r] = [writer[r] EXCEPT !.pc = "look", !.bills = {}]]
             \/ writer' = [writer EXCEPT ![r] = Ready(r)]
    BY <1>6 DEF LockBill
  <2>2. UNCHANGED invoice /\ Rows' = Rows /\ writer[r].pc = "rows" /\ InOrder(r)
    BY <1>6 DEF LockBill, Rows, Committed, BillsInOrder
  <2>3. writer'[r].bills = writer[r].bills \ {b}
    <3>1. [writer[r] EXCEPT !.pc = "look", !.bills = {}].pc # "rows" /\ Ready(r).pc # "rows"
      BY <1>3, Ends DEF Work
    <3>2. [writer[r] EXCEPT !.bills = writer[r].bills \ {b}].bills = writer[r].bills \ {b}
      BY <1>3 DEF Work
    <3> QED
      BY <1>2, <1>3, <2>1, <3>1, <3>2
  <2>4. ASSUME NEW i \in Invoice, held'[i] = r
        PROVE  i \in Rows /\ (invoice[i].edits = 0 => \A c \in writer[r].bills \ {b} : Precedes(<<i, invoice[i].due>>, c))
    <3>1. CASE held[i] = r
      BY <2>2, <3>1 DEF InOrder
    <3>2. CASE i = b[1] /\ i \in Live
      BY <1>4, <2>1, <2>2, <3>2 DEF InOrder, First, Live, Rows, Committed
    <3> QED
      BY <2>1, <2>4, <3>1, <3>2 DEF Lock, Found
  <2> QED
    BY <2>2, <2>3, <2>4 DEF InOrder
<1>7. CASE writer'[r] = writer[r] /\ ~LockBill(r)
  <2>1. InOrder(r) /\ writer[r].pc = "rows"
    BY <1>2, <1>7 DEF BillsInOrder
  <2>2. \A i \in Invoice : held'[i] = r => held[i] = r
    BY <1>1, <1>7, <2>1, LocksMove
  <2> QED
    BY <1>1, <1>7, <2>1, <2>2 DEF InOrder, RowsKept
<1> QED
  BY <1>1, <1>2, <1>5, <1>6, <1>7, WritersMove, NumberEnds DEF Unnumbered

\* pay() has locked the bills that come before those it waits for.
LEMMA BillsStaySorted == Spec => []BillsInOrder
<1>1. Init => BillsInOrder
  BY DEF Init, NoWriter, BillsInOrder, InOrder
<1> QED
  BY <1>1, BillsSorted, SeenStaysSound, RowsStayInHand, PTL DEF Spec

\* Of two payments, the one that keeps a bill the other waits for goes on to later
\* bills only, if nobody has edited it.
LEMMA PaysPass ==
  ASSUME IInv, BillsInOrder, NEW r \in Writers, NEW s \in Writers, writer[r].pc = "rows", writer[s].pc = "rows",
         NEW b \in writer[r].bills, First(b, writer[r].bills), held[b[1]] = s
  PROVE  Overtakes(writer[s], writer[r])
<1>1. b \in Invoice \X DueMonths /\ b = <<b[1], b[2]>> /\ b[1] \in Invoice
  BY DEF IInv, TypeOK, Work
<1>2. ASSUME NEW c \in writer[r].bills, First(c, writer[r].bills) PROVE c = b
  <2>1. c \in Invoice \X DueMonths
    BY DEF IInv, TypeOK, Work
  <2>2. c[1] \in Nat /\ c[2] \in Nat /\ b[1] \in Nat /\ b[2] \in Nat
    BY <1>1, <2>1, BillingAssumption DEF BillingAssumption, DueMonths
  <2>3. c # b => Precedes(b, c) /\ Precedes(c, b)
    BY <1>2 DEF First
  <2> QED
    BY <2>2, <2>3 DEF Precedes
<1>3. ASSUME invoice[b[1]].edits = 0, NEW c \in writer[s].bills PROVE Precedes(b, c)
  BY <1>1, <1>3 DEF BillsInOrder, InOrder
<1>4. invoice[b[1]].edits \in Nat
  BY <1>1 DEF IInv, TypeOK, Bill
<1> QED
  BY <1>2, <1>3, <1>4 DEF Overtakes

\* Requests that enrol, bill, pay and edit, in any number, and the monthly command
\* wait only for transactions that have come further, so that no circle of waits
\* is possible, save one: payments that lock the bills of one month one by one
\* may wait for each other in a circle once one of those bills has been edited.
THEOREM NoDeadlock == Spec => []WaitsEnd
<1>1. IInv /\ IInvAhead /\ RowsInHand /\ BillsInOrder => WaitsEnd
  <2> SUFFICES ASSUME IInv, IInvAhead, RowsInHand, BillsInOrder, NEW r \in Writers, NEW s \in Writers, WaitsFor(r, s)
               PROVE  /\ Stage(writer[r]) < Stage(writer[s]) \/ Overtakes(writer[s], writer[r])
                      /\ writer[s].pc \notin {"idle", "members", "done"}
    BY DEF WaitsEnd
  <2> DEFINE w == writer[r]
  <2>1. s # None
    BY BillingAssumption DEF BillingAssumption, Writers
  <2>2. CASE w.pc = "member" /\ member[w.place].state = "joining" /\ member[w.place].by = s
    <3>1. w.place \in Place
      BY <2>2 DEF RowsInHand, Aims
    <3>2. writer[s].pc \in {"commit", "look", "number", "lock", "insert", "relook"}
      BY <2>2, <3>1 DEF RowsInHand
    <3> QED
      BY <2>2, <3>2 DEF Stage
  <2>3. ASSUME NEW i \in Invoice, held[i] = s, w.pc \in {"found", "lock", "save"}
        PROVE  Stage(w) < Stage(writer[s]) /\ writer[s].pc \notin {"idle", "members", "done"}
    <3>1. writer[s].pc \in {"rows", "insert", "commit"}
      BY <2>1, <2>3 DEF RowsInHand
    <3> QED
      BY <2>3, <3>1 DEF Stage
  <2>4. ASSUME w.pc = "rows", NEW b \in w.bills, First(b, w.bills), held[b[1]] = s
        PROVE  /\ Stage(w) < Stage(writer[s]) \/ Overtakes(writer[s], w)
               /\ writer[s].pc \notin {"idle", "members", "done"}
    <3>1. b[1] \in Invoice
      BY <2>4 DEF IInv, TypeOK, Work
    <3>2. writer[s].pc \in {"rows", "insert", "commit"}
      BY <2>1, <2>4, <3>1 DEF RowsInHand
    <3>3. CASE writer[s].pc = "rows"
      BY <2>4, <3>3, PaysPass
    <3>4. CASE writer[s].pc # "rows"
      BY <2>4, <3>2, <3>4 DEF Stage
    <3> QED
      BY <3>2, <3>3, <3>4
  <2>5. ASSUME NEW i \in Invoice, invoice[i].state = "new", invoice[i].by = s, w.pc \in {"save", "insert"}
        PROVE  Stage(w) < Stage(writer[s]) /\ writer[s].pc \notin {"idle", "members", "done"}
    <3>1. writer[s].pc = "commit"
      BY <2>5 DEF RowsInHand
    <3> QED
      BY <2>5, <3>1 DEF Stage
  <2>6. w.pc = "lock" => w.last \in Invoice
    BY DEF IInvAhead, Ahead, Rows
  <2>7. w.pc = "found" => w.invoice \in Invoice
    BY DEF RowsInHand, Aims
  <2>8. w.pc = "save" => w.invoice \in Invoice
    BY DEF IInv, Sound, Rows
  <2> QED
    BY <2>2, <2>3, <2>4, <2>5, <2>6, <2>7, <2>8 DEF WaitsFor
<1> QED
  BY <1>1, SeenStaysSound, WritersStayAhead, RowsStayInHand, BillsStaySorted, PTL
=============================================================================

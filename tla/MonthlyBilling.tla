--------------------------- MODULE MonthlyBilling ---------------------------
(***************************************************************************)
(* Who is billed for a month, and under which number                       *)
(* (backend/finance/services.py, numbering.py, issue_monthly_invoices.py)  *)
(*                                                                         *)
(* Enrolling a student, the student's own request, the first payment of a  *)
(* month and the daily command all go through get_or_create_group_invoice; *)
(* an administrator may also raise a bill by hand, move it, or delete it.  *)
(* Every request is one transaction at READ COMMITTED, each of its         *)
(* statements a step: it sees what is committed and its own rows.  The     *)
(* command has a transaction per member.  Payments are PaymentSettlement's *)
(* subject: here paying only locks the bills.                              *)
(*                                                                         *)
(* A place is a student in a group; all groups have a price.  One          *)
(* organization, one year.                                                 *)
(***************************************************************************)
EXTENDS Naturals, FiniteSets

CONSTANTS
  Invoice,   \* rows of finance.invoices, numbered as they are created
             \* (created_at); bound: as many as are ever needed
  Place,
  Enrolled,  \* the members from before the first month, among others perhaps
  Requests, Job, \* requests, each used once, and the command's process
  Ops,       \* the endpoints in use
  Radix, Width, \* a number is padded to Width digits; ten digits, fewer in a small instance
  MaxMonth,  \* bound: months
  None

ASSUME BillingAssumption ==
  /\ Radix \in Nat \ {0, 1} /\ Width \in Nat \ {0} /\ MaxMonth \in Nat \ {0}
  /\ Invoice \subseteq Nat
  /\ Job \notin Requests /\ Enrolled \subseteq Place
  /\ Ops \subseteq {"enroll", "self", "pay", "hand", "edit", "destroy", "leave"}
  /\ None \notin Invoice \cup Place \cup Requests \cup {Job}

Months == 1..MaxMonth
DueMonths == 1..(MaxMonth + 1)
Writers == Requests \cup {Job}

VARIABLES
  month,    \* the current month
  member,   \* group_members: none, joining (not committed), active, left
  invoice,
  held,     \* row locks taken by SELECT FOR UPDATE
  writer    \* the transactions

vars == <<month, member, invoice, held, writer>>

\* seen: history: the bills committed when its writer last looked, each with its edits
NoInvoice == [state |-> "absent", by |-> None, place |-> None, period |-> 0, due |-> 1, number |-> 0,
              edits |-> 0, seen |-> {}]

NoWriter == [op |-> "none", pc |-> "idle", todo |-> {}, place |-> None, month |-> 1, due |-> 1, billing |-> FALSE,
             last |-> None, number |-> 0, invoice |-> None, seen |-> {}, rows |-> {}, bills |-> {}]

\* A student has been enrolled before this month, or never.
Init ==
  /\ month = 1
  /\ member \in [Place -> {[state |-> "none", by |-> None, joined |-> 0], [state |-> "active", by |-> None, joined |-> 0]}]
  /\ \A p \in Enrolled : member[p].state = "active"
  /\ invoice = [i \in Invoice |-> NoInvoice]
  /\ held = [i \in Invoice |-> None]
  /\ writer = [r \in Writers |-> NoWriter]

-----------------------------------------------------------------------------
(* What a statement of r sees *)

Committed(i) == invoice[i].state \in {"live", "deleted"}
Rows == {i \in Invoice : Committed(i)}
Live == {i \in Invoice : invoice[i].state = "live"}

\* month_invoice_q: the monthly invoice, or one made by hand that is due then.
Bills(i, p, m) ==
  /\ invoice[i].place = p
  /\ invoice[i].period = m \/ (invoice[i].period = 0 /\ invoice[i].due = m)

Found(p, m) == {i \in Live : Bills(i, p, m)}

\* INV-<year>-<number> sorts as text: a number wider than Width by its leading
\* digits.
Digits(n) == IF n < Radix ^ Width THEN Width ELSE Width + 1
Before(m, n) ==
  IF Digits(m) = Digits(n) THEN m < n
  ELSE IF Digits(m) < Digits(n) THEN m <= n \div Radix ELSE m \div Radix < n

\* Fault: the deleted ones are left out.
NumberedLive == Live

\* The invoices a number is looked for among, deleted ones too.
Numbered == Rows

\* The last of S, or none.
LastNumbered(S) ==
  IF S = {} THEN {None}
  ELSE {i \in S : \A j \in S \ {i} : Before(invoice[j].number, invoice[i].number)}

NextNumber(i) == IF i = None THEN 1 ELSE invoice[i].number + 1

Free(S, r) == \A i \in S : held[i] \in {None, r}
Lock(S, r) == held' = [i \in Invoice |-> IF i \in S THEN r ELSE held[i]]
Unlocked(r) == [i \in Invoice |-> IF held[i] = r THEN None ELSE held[i]]

Stamped(S) == {<<i, invoice[i].edits>> : i \in S}

-----------------------------------------------------------------------------
(* Transactions *)

Begin(r, w) == writer[r].pc = "idle" /\ r # Job /\ w.op \in Ops /\ writer' = [writer EXCEPT ![r] = w]

\* A request of one statement.
Asked(r, op) == writer[r].pc = "idle" /\ r # Job /\ op \in Ops /\ writer' = [writer EXCEPT ![r].pc = "done"]

\* A request is over; the command goes on with the next member, or has died.
Rest(r, failed) ==
  IF r # Job THEN [NoWriter EXCEPT !.pc = "done"]
  ELSE IF failed THEN NoWriter
  ELSE [NoWriter EXCEPT !.op = "run", !.pc = "members", !.todo = writer[r].todo, !.month = writer[r].month]

\* All that is left to do is to commit.
Ready(r) ==
  IF r # Job THEN [NoWriter EXCEPT !.pc = "commit"]
  ELSE [NoWriter EXCEPT !.op = "run", !.pc = "commit", !.todo = writer[r].todo, !.month = writer[r].month]

Own(r) == {i \in Invoice : invoice[i].state = "new" /\ invoice[i].by = r}
Joining(r) == {p \in Place : member[p].state = "joining" /\ member[p].by = r}

Commit(r) ==
  /\ writer[r].pc = "commit"
  /\ invoice' = [i \in Invoice |-> IF i \in Own(r) THEN [invoice[i] EXCEPT !.state = "live", !.by = None] ELSE invoice[i]]
  /\ member' = [p \in Place |-> IF p \in Joining(r) THEN [member[p] EXCEPT !.state = "active", !.by = None] ELSE member[p]]
  /\ held' = Unlocked(r)
  /\ writer' = [writer EXCEPT ![r] = Rest(r, FALSE)]
  /\ UNCHANGED month

RollBack(r) ==
  /\ invoice' = [i \in Invoice |-> IF i \in Own(r) THEN NoInvoice ELSE invoice[i]]
  /\ member' = [p \in Place |-> IF p \in Joining(r) THEN [state |-> "none", by |-> None, joined |-> 0] ELSE member[p]]
  /\ held' = Unlocked(r)
  /\ UNCHANGED month

\* The process that serves a request dies.
Dies(r) ==
  /\ r # Job /\ writer[r].pc \notin {"idle", "done"}
  /\ RollBack(r) /\ writer' = [writer EXCEPT ![r] = Rest(r, TRUE)]

-----------------------------------------------------------------------------
(* Who asks for a month's invoice *)

\* GroupMemberViewSet.create, with the first month's bill or without.
Enroll(r, p, billing) ==
  /\ Begin(r, [NoWriter EXCEPT !.op = "enroll", !.pc = "member", !.place = p, !.billing = billing])
  /\ UNCHANGED <<month, member, invoice, held>>

\* One row per student and group, a deleted one included.
InsertMember(r) ==
  LET p == writer[r].place IN
  /\ writer[r].pc = "member" /\ member[p].state # "joining"
  /\ IF member[p].state = "none"
     THEN /\ member' = [member EXCEPT ![p] = [state |-> "joining", by |-> r, joined |-> month]]
          /\ writer' = [writer EXCEPT ![r] = IF @.billing THEN [@ EXCEPT !.pc = "look", !.month = month, !.billing = FALSE]
                                             ELSE Ready(r)]
          /\ UNCHANGED <<month, invoice, held>>
     ELSE RollBack(r) /\ writer' = [writer EXCEPT ![r] = Rest(r, TRUE)]

\* InvoiceViewSet.self_create, by a member.
SelfCreate(r, p) ==
  /\ member[p].state = "active"
  /\ Begin(r, [NoWriter EXCEPT !.op = "self", !.pc = "look", !.place = p, !.month = month])
  /\ UNCHANGED <<month, member, invoice, held>>

\* GroupBillingViewSet.pay, for a member or for whoever has a bill.
Pay(r, p, m) ==
  /\ m <= month /\ ((member[p].state = "active" /\ member[p].joined <= m) \/ Found(p, m) # {})
  /\ Begin(r, [NoWriter EXCEPT !.op = "pay", !.pc = "bills", !.place = p, !.month = m])
  /\ UNCHANGED <<month, member, invoice, held>>

\* The bills of the month as the statement's snapshot has them, with the dates
\* they are sorted by.
ReadBills(r) ==
  LET w == writer[r]  found == Found(w.place, w.month) IN
  /\ w.pc = "bills"
  /\ writer' = [writer EXCEPT ![r] =
       IF found = {} THEN [w EXCEPT !.pc = "look"]
       ELSE [w EXCEPT !.pc = "rows", !.bills = {<<i, invoice[i].due>> : i \in found}]]
  /\ UNCHANGED <<month, member, invoice, held>>

\* order_by("due_date", "created_at")
Precedes(b, c) == b[2] < c[2] \/ (b[2] = c[2] /\ b[1] < c[1])

\* b is the bill to be locked next.
First(b, bills) == b \in bills /\ \A c \in bills \ {b} : Precedes(b, c)

\* One row after the other; one that is no bill of the month any more is skipped.
LockBill(r) ==
  LET w == writer[r] IN
  \E b \in w.bills :
    LET i == b[1]
        mine == {j \in Invoice : held[j] = r} \cup ({i} \cap Found(w.place, w.month)) IN
    /\ w.pc = "rows" /\ First(b, w.bills) /\ Free({i}, r)
    /\ Lock(mine, r)
    /\ writer' = [writer EXCEPT ![r] =
         IF w.bills # {b} THEN [w EXCEPT !.bills = w.bills \ {b}]
         ELSE IF mine = {} THEN [w EXCEPT !.pc = "look", !.bills = {}] ELSE Ready(r)]
    /\ UNCHANGED <<month, member, invoice>>

\* The bill that get_or_create_group_invoice found is locked, unless it has been
\* deleted in between.
LockFound(r) ==
  LET i == writer[r].invoice IN
  /\ writer[r].pc = "found" /\ Free({i}, r)
  /\ IF i \in Live
     THEN /\ Lock({i}, r) /\ writer' = [writer EXCEPT ![r] = Ready(r)]
          /\ UNCHANGED <<month, member, invoice>>
     ELSE RollBack(r) /\ writer' = [writer EXCEPT ![r] = Rest(r, TRUE)]

\* Fault: who joined in the month before is left out too.
EligibleLate == {p \in Place : member[p].state = "active" /\ member[p].joined + 1 < month}

Eligible == {p \in Place : member[p].state = "active" /\ member[p].joined < month}

\* issue_monthly_invoices: the members who joined before the month.
RunMonth ==
  /\ writer[Job].pc = "idle"
  /\ writer' = [writer EXCEPT ![Job] = [NoWriter EXCEPT !.op = "run", !.pc = "members", !.month = month, !.todo = Eligible]]
  /\ UNCHANGED <<month, member, invoice, held>>

NextMember(p) ==
  /\ writer[Job].pc = "members" /\ p \in writer[Job].todo
  /\ writer' = [writer EXCEPT ![Job].pc = "look", ![Job].place = p, ![Job].todo = @ \ {p}]
  /\ UNCHANGED <<month, member, invoice, held>>

EndRun ==
  /\ writer[Job].pc = "members" /\ writer[Job].todo = {}
  /\ writer' = [writer EXCEPT ![Job] = NoWriter]
  /\ UNCHANGED <<month, member, invoice, held>>

-----------------------------------------------------------------------------
(* get_or_create_group_invoice *)

\* A bill that is there is returned; pay() goes on to lock it.
Returned(r, i) ==
  writer' = [writer EXCEPT ![r] = IF @.op = "pay" THEN [NoWriter EXCEPT !.op = "pay", !.pc = "found", !.invoice = i]
                                  ELSE Ready(r)]

\* Fault: a bill made by hand does not count.
FindsMonthlyBill(r) == {i \in Found(writer[r].place, writer[r].month) : invoice[i].period # 0}

\* The bills of the month a request is about.
FindsBill(r) == Found(writer[r].place, writer[r].month)

Look(r) ==
  /\ writer[r].pc = "look"
  /\ \/ \E i \in FindsBill(r) : Returned(r, i)
     \/ /\ FindsBill(r) = {}
        /\ writer' = [writer EXCEPT ![r].pc = "number", ![r].seen = Stamped(Live)]
  /\ UNCHANGED <<month, member, invoice, held>>

\* generate_invoice_number: the last invoice in the snapshot of the statement is
\* locked, at once or when whoever holds it is done.
Number(r, last) ==
  /\ Lock({last}, r)
  /\ writer' = [writer EXCEPT ![r].pc = "insert", ![r].number = NextNumber(last), ![r].last = None,
                              ![r].rows = IF writer[r].pc = "number" THEN Rows ELSE @]

PickLast(r) ==
  /\ writer[r].pc = "number"
  /\ \E last \in LastNumbered(Numbered) :
       IF last = None \/ Free({last}, r) THEN Number(r, last)
       ELSE writer' = [writer EXCEPT ![r].pc = "lock", ![r].last = last, ![r].rows = Rows] /\ UNCHANGED held
  /\ UNCHANGED <<month, member, invoice>>

LockLast(r) ==
  /\ writer[r].pc = "lock" /\ Free({writer[r].last}, r)
  /\ Number(r, writer[r].last)
  /\ UNCHANGED <<month, member, invoice>>

\* The constraints uq_invoices_org_number, of deleted rows too, and
\* uq_invoices_student_group_period.
SameNumber(i, n) == invoice[i].number = n
SameMonth(i, p, m) == m # 0 /\ invoice[i].place = p /\ invoice[i].period = m

Clashes(S, n, p, m) == {i \in S : SameNumber(i, n)} \cup {i \in S \cap Live : SameMonth(i, p, m)}

\* An INSERT or UPDATE waits for the end of a transaction it may clash with.
Waits(r, n, p, m) ==
  \E i \in Invoice : /\ invoice[i].state = "new" /\ invoice[i].by # r
                     /\ SameNumber(i, n) \/ SameMonth(i, p, m)

Absent == {i \in Invoice : invoice[i].state = "absent"}
\* The next row: younger than all there are.
Younger == {i \in Absent : \A j \in Invoice \ Absent : j < i}
Fresh == CHOOSE i \in Younger : TRUE

Inserted(r, p, m, d) ==
  invoice' = [invoice EXCEPT ![Fresh] =
    [NoInvoice EXCEPT !.state = "new", !.by = r, !.place = p, !.period = m, !.due = d, !.number = writer[r].number,
                      !.seen = writer[r].seen]]

Period(r) == IF writer[r].op = "hand" THEN 0 ELSE writer[r].month

\* A month that is billed when it is asked for falls due then or, for whoever
\* joins late, in the next; the others on the billing day.
DueDates(r) ==
  IF writer[r].op = "hand" THEN {writer[r].due}
  ELSE IF r = Job \/ writer[r].month < month THEN {writer[r].month} ELSE {month, month + 1}

Insert(r) ==
  LET w == writer[r] IN
  /\ w.pc = "insert" /\ ~Waits(r, w.number, w.place, Period(r))
  /\ Clashes(Rows, w.number, w.place, Period(r)) = {} /\ Younger # {}
  /\ \E d \in DueDates(r) : Inserted(r, w.place, Period(r), d)
  /\ writer' = [writer EXCEPT ![r] = Ready(r)]
  /\ UNCHANGED <<month, member, held>>

\* The clash rolls back to the savepoint and gives up the lock, ...
InsertClashes(r) ==
  LET w == writer[r] IN
  /\ w.pc = "insert" /\ ~Waits(r, w.number, w.place, Period(r))
  /\ Clashes(Rows, w.number, w.place, Period(r)) # {}
  /\ IF w.op = "hand"
     THEN RollBack(r) /\ writer' = [writer EXCEPT ![r] = Rest(r, TRUE)]
     ELSE /\ held' = Unlocked(r)
          /\ writer' = [writer EXCEPT ![r] = [@ EXCEPT !.pc = "relook", !.number = 0, !.seen = {}, !.rows = {}]]
          /\ UNCHANGED <<month, member, invoice>>

\* ... and the bill of the month is looked for again.
Relook(r) ==
  /\ writer[r].pc = "relook"
  /\ \/ \E i \in FindsBill(r) : Returned(r, i) /\ UNCHANGED <<month, member, invoice, held>>
     \/ /\ FindsBill(r) = {}
        /\ RollBack(r) /\ writer' = [writer EXCEPT ![r] = Rest(r, TRUE)]

-----------------------------------------------------------------------------
(* What an administrator does by hand *)

\* Fault: only a new invoice is checked.
ClashesWhenNew(p, d, self) == self = {} /\ Found(p, d) # {}

\* InvoiceSerializer.validate: no other bill of the month it is due in.
ClashesByHand(p, d, self) == Found(p, d) \ self # {}

HandMade(r, p, d) ==
  /\ ~ClashesByHand(p, d, {})
  /\ Begin(r, [NoWriter EXCEPT !.op = "hand", !.pc = "number", !.place = p, !.due = d, !.seen = Stamped(Live)])
  /\ UNCHANGED <<month, member, invoice, held>>

\* Also an edit that moves nothing: of the amount, the notes, the day.
EditRead(r, i, p, d) ==
  /\ i \in Live /\ ~ClashesByHand(p, d, {i})
  /\ Begin(r, [NoWriter EXCEPT !.op = "edit", !.pc = "save", !.invoice = i, !.place = p, !.due = d, !.seen = Stamped(Live)])
  /\ UNCHANGED <<month, member, invoice, held>>

\* The whole row is saved as it was read: one deleted in between comes back.
EditSave(r) ==
  LET w == writer[r]  i == w.invoice IN
  /\ w.pc = "save" /\ Free({i}, r) /\ ~Waits(r, invoice[i].number, w.place, invoice[i].period)
  /\ IF Clashes(Rows \ {i}, invoice[i].number, w.place, invoice[i].period) = {}
     THEN /\ invoice' = [invoice EXCEPT ![i].edits = @ + 1, ![i].state = "live", ![i].place = w.place,
                                        ![i].due = w.due, ![i].seen = w.seen]
          /\ writer' = [writer EXCEPT ![r] = Rest(r, FALSE)]
     ELSE writer' = [writer EXCEPT ![r] = Rest(r, TRUE)] /\ UNCHANGED invoice
  /\ UNCHANGED <<month, member, held>>

Destroy(r, i) ==
  /\ i \in Live /\ Free({i}, r)
  /\ Asked(r, "destroy")
  /\ invoice' = [invoice EXCEPT ![i].state = "deleted"]
  /\ UNCHANGED <<month, member, held>>

\* The status of a membership is edited.
SetStatus(r, p) ==
  /\ member[p].state \in {"active", "left"}
  /\ Asked(r, "leave")
  /\ member' = [member EXCEPT ![p].state = IF @ = "active" THEN "left" ELSE "active"]
  /\ UNCHANGED <<month, invoice, held>>

MonthTurns == month < MaxMonth /\ month' = month + 1 /\ UNCHANGED <<member, invoice, held, writer>>

-----------------------------------------------------------------------------
Works(r) ==
  \/ InsertMember(r) \/ ReadBills(r) \/ LockBill(r) \/ LockFound(r) \/ Look(r) \/ PickLast(r) \/ LockLast(r)
  \/ Insert(r) \/ InsertClashes(r) \/ Relook(r) \/ EditSave(r) \/ Commit(r)

Runs == RunMonth \/ EndRun \/ \E p \in Place : NextMember(p)

Asks(r) ==
  \/ \E p \in Place, billing \in BOOLEAN : Enroll(r, p, billing)
  \/ \E p \in Place : SelfCreate(r, p) \/ SetStatus(r, p)
  \/ \E p \in Place, m \in Months : Pay(r, p, m)
  \/ \E p \in Place, d \in DueMonths : HandMade(r, p, d)
  \/ \E i \in Invoice, p \in Place, d \in DueMonths : EditRead(r, i, p, d)
  \/ \E i \in Invoice : Destroy(r, i)

Next ==
  \/ \E r \in Writers : Works(r)
  \/ \E r \in Requests : Asks(r) \/ Dies(r)
  \/ Runs
  \/ MonthTurns

Spec == Init /\ [][Next]_vars

\* Whose row keeps a writer from its next statement.
WaitsFor(r, s) ==
  LET w == writer[r]
      Has(i, n, p, m) == /\ invoice[i].state = "new" /\ invoice[i].by = s
                         /\ SameNumber(i, n) \/ SameMonth(i, p, m) IN
  /\ r # s
  /\ \/ w.pc = "member" /\ member[w.place].state = "joining" /\ member[w.place].by = s
     \/ w.pc = "rows" /\ \E b \in w.bills : First(b, w.bills) /\ held[b[1]] = s
     \/ w.pc = "lock" /\ held[w.last] = s
     \/ w.pc \in {"found", "save"} /\ held[w.invoice] = s
     \/ w.pc = "save" /\ \E i \in Invoice : Has(i, invoice[w.invoice].number, w.place, invoice[w.invoice].period)
     \/ w.pc = "insert" /\ \E i \in Invoice : Has(i, w.number, w.place, Period(r))

\* PostgreSQL finds a circle of waits (deadlock_timeout) and fails one of them.
DeadlockVictim(r) ==
  /\ \E S \in SUBSET Writers : r \in S /\ \A w \in S : \E v \in S : WaitsFor(w, v)
  /\ Dies(r)

\* Statements end, a deadlock is broken, and cron starts the command anew; nobody
\* has to ask for anything, and no month has to end.
FairSpec ==
  /\ Spec
  /\ (\A r \in Writers : WF_vars(Works(r))) /\ WF_vars(Runs)
  /\ WF_vars(\E r \in Requests : DeadlockVictim(r))

-----------------------------------------------------------------------------
Members == [state: {"none", "joining", "active", "left"}, by: Writers \cup {None}, joined: {0} \cup Months]
Bill == [state: {"absent", "new", "live", "deleted"}, by: Writers \cup {None}, place: Place \cup {None}, period: {0} \cup Months,
         due: DueMonths, number: Nat, edits: Nat, seen: SUBSET (Invoice \X Nat)]
Work == [op: {"none", "enroll", "self", "pay", "run", "hand", "edit"},
         pc: {"idle", "member", "bills", "rows", "found", "members", "look", "number", "lock", "insert", "relook", "save", "commit", "done"},
         todo: SUBSET Place, place: Place \cup {None}, month: Months, due: DueMonths, billing: BOOLEAN,
         last: Invoice \cup {None}, number: Nat, invoice: Invoice \cup {None}, seen: SUBSET (Invoice \X Nat),
         rows: SUBSET Invoice, bills: SUBSET (Invoice \X DueMonths)]

\* The state has its type.
TypeOK ==
  /\ month \in Months /\ member \in [Place -> Members] /\ invoice \in [Invoice -> Bill]
  /\ held \in [Invoice -> Writers \cup {None}] /\ writer \in [Writers -> Work]

Moved(i) == invoice[i].edits > 0 /\ invoice[i].period # 0 /\ invoice[i].due # invoice[i].period

Saw(i, j) == <<j, invoice[j].edits>> \in invoice[i].seen

BothBill(i, j) ==
  /\ i # j /\ invoice[i].place = invoice[j].place
  /\ \E m \in DueMonths : Bills(i, invoice[i].place, m) /\ Bills(j, invoice[j].place, m)

\* A student is billed twice for a month only when neither bill was committed, as
\* it is now, when the other's writer looked for one; or a monthly bill that is
\* due in another month has been moved.
BilledTwiceOnlyUnseen ==
  \A i, j \in Live : BothBill(i, j) => (~Saw(i, j) /\ ~Saw(j, i)) \/ Moved(i) \/ Moved(j)

\* What was seen had been committed, and is as it was or has been edited.
Past(s) == s[1] \in Rows /\ s[2] <= invoice[s[1]].edits

\* The month a writer bills.
Target(w) == IF w.op \in {"hand", "edit"} THEN w.due ELSE w.month

\* What a writer has seen is not a bill of the month it bills.
Sound(w) ==
  /\ \A s \in w.seen : Past(s)
  /\ w.pc \in {"member", "bills", "rows", "members", "look", "relook"} => w.op \notin {"hand", "edit"}
  /\ w.pc \in {"number", "lock", "insert"} => w.op # "edit"
  /\ w.pc = "save" => w.op = "edit" /\ w.invoice \in Rows
  /\ w.pc \in {"number", "lock", "insert", "save"} =>
       \A j \in Invoice : <<j, invoice[j].edits>> \in w.seen => ~Bills(j, w.place, Target(w)) \/ (w.pc = "save" /\ j = w.invoice)

\* Nor what the writer of a bill had seen, bar the bills that were moved.
Unseen(i) ==
  invoice[i].state # "absent" => \A j \in Invoice : BothBill(i, j) /\ Saw(i, j) => Moved(i) \/ Moved(j)

\* The inductive invariant.
IInv ==
  /\ TypeOK
  /\ \A i \in Invoice : Unseen(i) /\ \A s \in invoice[i].seen : Past(s)
  /\ \A r \in Writers : Sound(writer[r])

\* No number has outgrown its padding.
NumbersFit == \A i \in Rows : Digits(invoice[i].number) = Width

\* A writer that waits for the last number, or has taken the next one, is ahead of
\* every number that was committed when it looked.
Ahead(w) ==
  /\ w.pc \in {"lock", "insert"} => w.rows \subseteq Rows
  /\ w.pc = "lock" => w.last \in w.rows /\ \A i \in w.rows \ {w.last} : Before(invoice[i].number, invoice[w.last].number)
  /\ w.pc = "insert" /\ NumbersFit => \A i \in w.rows : invoice[i].number < w.number

\* The invariant about the numbers, beside IInv.
IInvAhead == \A r \in Writers : Ahead(writer[r])

\* A new number is not the number of an invoice that was committed when the last
\* one was looked for: it clashes in a race only, never for good.
ClashOnlyInRace ==
  \A r \in Writers : writer[r].pc = "insert" => \A i \in writer[r].rows : ~SameNumber(i, writer[r].number)

\* Whoever was a member before the month is billed for it in the end, though a
\* clash with a request ends a run of the command: the next one makes up for it.
MembersBilled ==
  \A p \in Place, m \in Months :
    (month = m /\ member[p].state = "active" /\ member[p].joined < m) ~>
      (Found(p, m) # {} \/ month # m \/ member[p].state # "active")

\* How far a transaction has come, as far as waiting is concerned.
Stage(w) ==
  IF w.pc = "member" THEN 0
  ELSE IF w.pc \in {"found", "lock", "save"} THEN 1
  ELSE IF w.pc = "rows" THEN 2
  ELSE IF w.pc = "insert" THEN 3
  ELSE 4

\* Two pay() calls for one month: v waits for a later bill than w does, unless
\* the bill that w waits for has been edited.
Overtakes(v, w) ==
  /\ v.pc = "rows" /\ w.pc = "rows"
  /\ \A b \in w.bills : First(b, w.bills) =>
       invoice[b[1]].edits > 0 \/ \A c \in v.bills : Precedes(b, c)

\* A writer waits only for transactions under way that have come further than it
\* has: no circle, however many enrolments, payments, edits and runs of the command
\* overlap.  Only pay() locks several rows one by one; in the order of their due
\* dates, which makes a circle of pay() calls possible where one has been edited.
\* (The last number is locked once a membership is inserted, and a bill is
\* inserted once that lock is had.)
WaitsEnd ==
  \A r, s \in Writers : WaitsFor(r, s) =>
    /\ writer[s].pc \notin {"idle", "members", "done"}
    /\ Stage(writer[r]) < Stage(writer[s]) \/ Overtakes(writer[s], writer[r])

\* A statement that waits for one row names it.
Aims(w) ==
  /\ w.pc = "member" => w.op = "enroll" /\ w.place \in Place
  /\ w.pc = "found" => w.invoice \in Invoice

\* Locks and rows not committed yet are those of a writer on its way to its commit.
RowsInHand ==
  /\ \A i \in Invoice : held[i] # None => writer[held[i]].pc \in {"rows", "insert", "commit"}
  /\ \A i \in Invoice : invoice[i].state = "new" => invoice[i].by \in Writers /\ writer[invoice[i].by].pc = "commit"
  /\ \A p \in Place : member[p].state = "joining" =>
       LET w == writer[member[p].by] IN
       /\ member[p].by \in Writers
       /\ w.pc = "commit" \/ (w.op = "enroll" /\ w.pc \in {"look", "number", "lock", "insert", "relook"})
  /\ \A r \in Writers : Aims(writer[r])

\* pay() has locked the bills that come before those it has still to lock, as long
\* as nobody edits them.
InOrder(r) ==
  LET w == writer[r] IN
  w.pc = "rows" =>
    /\ \A b \in w.bills : b[1] \in Rows /\ (invoice[b[1]].edits = 0 => b[2] = invoice[b[1]].due)
    /\ \A i \in Invoice : held[i] = r =>
         /\ i \in Rows
         /\ invoice[i].edits = 0 => \A b \in w.bills : Precedes(<<i, invoice[i].due>>, b)

BillsInOrder == \A r \in Writers : InOrder(r)
=============================================================================

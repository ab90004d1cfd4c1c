--------------------------- MODULE NotificationOutbox ---------------------------
(***************************************************************************)
(* How a notification reaches Telegram (backend/notifications/services)    *)
(*                                                                         *)
(* notify_student queues one delivery per chat in the transaction of the   *)
(* event.  Workers claim batches of due rows: the claim is one transaction *)
(* that counts the attempt and pushes next_attempt_at a lease ahead, and   *)
(* the rows are then sent one by one outside any transaction, so a row can *)
(* be due again while a slow worker still holds it.  Each database write   *)
(* of a worker is an autocommit statement, each Telegram call a step of    *)
(* its own.                                                                *)
(*                                                                         *)
(* Time is reduced to what the code asks of it: whether next_attempt_at    *)
(* has passed.  A link is reduced to the chat a recipient's messages go to *)
(* now; None while it is missing, switched off or no longer current.       *)
(***************************************************************************)
EXTENDS Integers, FiniteSets

CONSTANTS
  Events,       \* (event, object) pairs of one student: event_key
  Student,      \* the student's own account
  Parents,      \* the student's parent records
  Chats,        \* Telegram chats
  Workers,      \* send_notifications processes
  BATCH_SIZE,   \* rows per claim
  MAX_ATTEMPTS, \* claims after which a failure is final
  MaxClaims,    \* bound: claims of one row
  MaxDeaths,    \* bound: workers that die holding the same row
  MaxOverruns,  \* bound: times a row falls due while a worker still holds it
  None

Recipients == {Student} \cup Parents
Deliveries == Events \X Recipients    \* dedupe_key
Event(d) == d[1]

ASSUME NameAssumption ==
  /\ Student \notin Parents
  /\ None \notin Chats \cup Deliveries

ASSUME LimitAssumption ==
  /\ BATCH_SIZE \in Nat \ {0} /\ MAX_ATTEMPTS \in Nat \ {0}
  /\ MaxClaims \in Nat /\ MaxDeaths \in Nat /\ MaxOverruns \in Nat

ASSUME WorkersAssumption == IsFiniteSet(Workers)

VARIABLES
  link,     \* recipient -> the chat its messages go to
  notice,   \* event -> its Notification row and, while uncommitted, the chat read
  row,      \* the NotificationDelivery rows
  worker,   \* what each worker is doing
  blocked,  \* chats that have blocked the bot
  got,      \* history: how often Telegram showed each message
  lost,     \* history: how often it was shown and nobody recorded that
  died,     \* history: how often a worker died holding the row
  overran,  \* history: how often the row fell due while a worker held it
  refused   \* history: chats that have ever answered 403

vars == <<link, notice, row, worker, blocked, got, lost, died, overran, refused>>
history == <<got, lost, died, overran, refused>>

Row == [status: {"absent", "pending", "sent", "failed"}, chat: Chats \cup {None},
        attempts: 0..MaxClaims, due: BOOLEAN]

Worker == [pc: {"idle", "claimed", "sending", "answered", "refused"},
           batch: SUBSET Deliveries,               \* rows not finished yet
           attempts: [Deliveries -> 0..MaxClaims], \* as read after the claim
           now: Deliveries \cup {None},
           answer: {"none", "ok", "error", "refused"}]

NoRow == [status |-> "absent", chat |-> None, attempts |-> 0, due |-> FALSE]
IdleWorker == [pc |-> "idle", batch |-> {}, attempts |-> [d \in Deliveries |-> 0],
               now |-> None, answer |-> "none"]

TypeOK ==
  /\ link \in [Recipients -> Chats \cup {None}]
  /\ notice \in [Events -> [state: {"none", "open", "done"}, own: Chats \cup {None}]]
  /\ row \in [Deliveries -> Row]
  /\ worker \in [Workers -> Worker]
  /\ blocked \subseteq Chats /\ refused \subseteq Chats
  /\ got \in [Deliveries -> Nat] /\ lost \in [Deliveries -> Nat]
  /\ died \in [Deliveries -> Nat] /\ overran \in [Deliveries -> Nat]

Init ==
  /\ link = [r \in Recipients |-> None]
  /\ notice = [e \in Events |-> [state |-> "none", own |-> None]]
  /\ row = [d \in Deliveries |-> NoRow]
  /\ worker = [w \in Workers |-> IdleWorker]
  /\ blocked = {} /\ refused = {}
  /\ got = [d \in Deliveries |-> 0]
  /\ lost = [d \in Deliveries |-> 0]
  /\ died = [d \in Deliveries |-> 0]
  /\ overran = [d \in Deliveries |-> 0]

-----------------------------------------------------------------------------
(* Links *)

\* A chat shares its contact: every record with that number is linked to it.
LinkByPhone(c, S) ==
  /\ c \notin blocked
  /\ link' = [r \in Recipients |-> IF r \in S THEN c ELSE link[r]]
  /\ UNCHANGED <<notice, row, worker, blocked, history>>

UnlinkChat(links, c) == [r \in Recipients |-> IF links[r] = c THEN None ELSE links[r]]

\* /stop
Stop(c) ==
  /\ link' = UnlinkChat(link, c)
  /\ UNCHANGED <<notice, row, worker, blocked, history>>

\* The number on file changes: the link is not current any more.
PhoneChanges(r) ==
  /\ link' = [link EXCEPT ![r] = None]
  /\ UNCHANGED <<notice, row, worker, blocked, history>>

BlocksBot(c) ==
  /\ blocked' = IF c \in blocked THEN blocked \ {c} ELSE blocked \cup {c}
  /\ UNCHANGED <<link, notice, row, worker, history>>

-----------------------------------------------------------------------------
(* notify_student.  A second call for the same event waits for the unique   *)
(* index on (recipient, event_key) and then finds it done: it does nothing. *)

NotifyRead(e) ==
  /\ notice[e].state = "none"
  /\ notice' = [notice EXCEPT ![e] = [state |-> "open", own |-> link[Student]]]
  /\ UNCHANGED <<link, row, worker, blocked, history>>

\* Fault: chats_seen starts empty for the parents.
ParentChatsAll(own) == {link[p] : p \in Parents} \ {None}
\* Chats reached through a parent: not the student's own chat.
ParentChats(own) == {link[p] : p \in Parents} \ {None, own}

\* One parent per chat: the oldest link, whichever that is.
OneEach(S, own) ==
  /\ {link[p] : p \in S} = ParentChats(own)
  /\ \A p, q \in S : link[p] = link[q] => p = q

NotifyCommit(e) ==
  LET own == notice[e].own IN
  /\ notice[e].state = "open"
  /\ \E S \in SUBSET Parents :
       /\ OneEach(S, own)
       /\ row' = [d \in Deliveries |->
            IF Event(d) = e /\ (d[2] \in S \/ (d[2] = Student /\ own # None))
            THEN [NoRow EXCEPT !.status = "pending", !.due = TRUE,
                               !.chat = IF d[2] = Student THEN own ELSE link[d[2]]]
            ELSE row[d]]
  /\ notice' = [notice EXCEPT ![e].state = "done", ![e].own = None]
  /\ UNCHANGED <<link, worker, blocked, history>>

\* The request that caused the event fails: nothing was queued.
NotifyAbort(e) ==
  /\ notice[e].state = "open"
  /\ notice' = [notice EXCEPT ![e] = [state |-> "none", own |-> None]]
  /\ UNCHANGED <<link, row, worker, blocked, history>>

-----------------------------------------------------------------------------
(* The worker *)

Holders(d) == {w \in Workers : d \in worker[w].batch}

\* next_attempt_at passes: the retry delay, or the lease, is over.  50 rows of
\* up to 10 seconds each outlast a lease of 5 minutes, so nothing says that
\* nobody holds the row any more.
FallsDue(d) ==
  /\ row[d].status = "pending" /\ ~row[d].due
  /\ row' = [row EXCEPT ![d].due = TRUE]
  /\ \/ Holders(d) = {} /\ UNCHANGED overran
     \/ /\ Holders(d) # {} /\ overran[d] < MaxOverruns
        /\ overran' = [overran EXCEPT ![d] = @ + 1]
  /\ UNCHANGED <<link, notice, worker, blocked, got, lost, died, refused>>

Due == {d \in Deliveries : row[d].status = "pending" /\ row[d].due /\ row[d].attempts < MaxClaims}

\* Fault: the claim does not push next_attempt_at forward.
LeasedNot(x) == [x EXCEPT !.attempts = @ + 1]
\* Fault: a status of its own instead of a lease.
LeasedForGood(x) == [x EXCEPT !.attempts = @ + 1, !.status = "claimed"]
Leased(x) == [x EXCEPT !.attempts = @ + 1, !.due = FALSE]

ClaimSet(w, ids) ==
  /\ worker[w].pc = "idle"
  /\ ids # {} /\ ids \subseteq Due
  /\ Cardinality(ids) <= BATCH_SIZE
  /\ row' = [d \in Deliveries |-> IF d \in ids THEN Leased(row[d]) ELSE row[d]]
  /\ worker' = [worker EXCEPT ![w].pc = "claimed", ![w].batch = ids]
  /\ UNCHANGED <<link, notice, blocked, history>>

Claim(w) == \E ids \in SUBSET Due : ClaimSet(w, ids)

\* The rows are read again, after the claim has committed.
Load(w) ==
  /\ worker[w].pc = "claimed"
  /\ worker' = [worker EXCEPT ![w].pc = "sending",
                  ![w].attempts = [d \in Deliveries |->
                                     IF d \in worker[w].batch THEN row[d].attempts ELSE 0]]
  /\ UNCHANGED <<link, notice, row, blocked, history>>

Answered(w, d, answer) ==
  worker' = [worker EXCEPT ![w].pc = "answered", ![w].now = d, ![w].answer = answer]

\* telegram_client.send_message: shown, shown but the answer times out, or refused.
SendMessage(w, d) ==
  /\ worker[w].pc = "sending" /\ d \in worker[w].batch
  /\ \/ /\ row[d].chat \notin blocked
        /\ got' = [got EXCEPT ![d] = @ + 1]
        /\ \/ Answered(w, d, "ok") /\ UNCHANGED lost
           \/ Answered(w, d, "error") /\ lost' = [lost EXCEPT ![d] = @ + 1]
        /\ UNCHANGED refused
     \/ /\ row[d].chat \in blocked
        /\ Answered(w, d, "refused")
        /\ refused' = refused \cup {row[d].chat}
        /\ UNCHANGED <<got, lost>>
     \/ Answered(w, d, "error") /\ UNCHANGED <<got, lost, refused>>
  /\ UNCHANGED <<link, notice, row, blocked, died, overran>>

\* The worker goes on to the next row of its batch.
Finished(w) ==
  LET rest == worker[w].batch \ {worker[w].now} IN
  worker' = [worker EXCEPT ![w] =
               IF rest = {} THEN IdleWorker
               ELSE [@ EXCEPT !.pc = "sending", !.batch = rest, !.now = None, !.answer = "none",
                              !.attempts[worker[w].now] = 0]]

Sent(x) == [x EXCEPT !.status = "sent"]

RecordSent(w) ==
  /\ worker[w].pc = "answered" /\ worker[w].answer = "ok"
  /\ row' = [row EXCEPT ![worker[w].now] = Sent(@)]
  /\ Finished(w)
  /\ UNCHANGED <<link, notice, blocked, history>>

\* Fault: one claim too many is allowed.
LastAttemptLate(n) == n > MAX_ATTEMPTS
\* Fault: given up with one attempt left.
LastAttemptEarly(n) == n + 1 >= MAX_ATTEMPTS
LastAttempt(n) == n >= MAX_ATTEMPTS

\* Fault: the whole row is saved as it was read, its status with it.
PutOffWhole(x) == [x EXCEPT !.due = FALSE, !.status = "pending"]
\* An UPDATE of next_attempt_at alone, whatever another worker wrote.
PutOff(x) == [x EXCEPT !.due = FALSE]

RecordFailure(w) ==
  LET d == worker[w].now IN
  /\ worker[w].pc = "answered" /\ worker[w].answer = "error"
  /\ row' = IF LastAttempt(worker[w].attempts[d])
            THEN [row EXCEPT ![d].status = "failed"]
            ELSE [row EXCEPT ![d] = PutOff(@)]
  /\ Finished(w)
  /\ UNCHANGED <<link, notice, blocked, history>>

\* 403: the row fails now, its chat is switched off in a second transaction.
RecordRefusal(w) ==
  /\ worker[w].pc = "answered" /\ worker[w].answer = "refused"
  /\ row' = [row EXCEPT ![worker[w].now].status = "failed"]
  /\ worker' = [worker EXCEPT ![w].pc = "refused"]
  /\ UNCHANGED <<link, notice, blocked, history>>

FailsWith(x, c) == x.status = "pending" /\ x.chat = c

DeactivateChat(w) ==
  LET c == row[worker[w].now].chat IN
  /\ worker[w].pc = "refused"
  /\ link' = UnlinkChat(link, c)
  /\ row' = [d \in Deliveries |->
               IF FailsWith(row[d], c) THEN [row[d] EXCEPT !.status = "failed"] ELSE row[d]]
  /\ Finished(w)
  /\ UNCHANGED <<notice, blocked, history>>

\* The worker dies, or a database error drops its batch; it starts afresh.
Dies(w) ==
  /\ worker[w].batch # {}
  /\ \A d \in worker[w].batch : died[d] < MaxDeaths
  /\ worker' = [worker EXCEPT ![w] = IdleWorker]
  /\ died' = [d \in Deliveries |-> IF d \in worker[w].batch THEN died[d] + 1 ELSE died[d]]
  /\ lost' = IF worker[w].answer = "ok" THEN [lost EXCEPT ![worker[w].now] = @ + 1] ELSE lost
  /\ UNCHANGED <<link, notice, row, blocked, got, overran, refused>>

Sends(w) ==
  \/ Load(w)
  \/ \E d \in Deliveries : SendMessage(w, d)
  \/ RecordSent(w) \/ RecordFailure(w)
  \/ RecordRefusal(w) \/ DeactivateChat(w)

Next ==
  \/ \E c \in Chats : \/ \E S \in SUBSET Recipients : LinkByPhone(c, S)
                      \/ Stop(c) \/ BlocksBot(c)
  \/ \E r \in Recipients : PhoneChanges(r)
  \/ \E e \in Events : NotifyRead(e) \/ NotifyCommit(e) \/ NotifyAbort(e)
  \/ \E d \in Deliveries : FallsDue(d)
  \/ \E w \in Workers : Claim(w) \/ Sends(w) \/ Dies(w)

Spec == Init /\ [][Next]_vars

(***************************************************************************)
(* systemd restarts the worker (Restart=always) and every Telegram call    *)
(* has a timeout, so a worker always moves on.  Batches are taken in the   *)
(* order of next_attempt_at, so a due row is not passed over for ever.     *)
(***************************************************************************)
ClaimsRow(d) == \E w \in Workers, ids \in SUBSET Due : d \in ids /\ ClaimSet(w, ids)

FairSpec ==
  /\ Spec
  /\ \A w \in Workers : WF_vars(Sends(w))
  /\ \A d \in Deliveries : WF_vars(FallsDue(d)) /\ SF_vars(ClaimsRow(d))

-----------------------------------------------------------------------------
(* Properties *)

\* A worker that sends or waits for an answer has the row in hand.
InHandOf(x) ==
  /\ x.now # None => x.now \in x.batch
  /\ x.answer = "ok" => x.pc = "answered"
  /\ x.pc \in {"answered", "refused"} => x.now # None
  /\ x.pc \in {"idle", "claimed", "sending"} => x.now = None
  /\ x.pc = "idle" => x.batch = {}

InHand == \A w \in Workers : InHandOf(worker[w])

\* Rows appear when the event's transaction commits.
QueuedByEvent ==
  \A d \in Deliveries : row[d].status # "absent" => notice[Event(d)].state = "done"

(***************************************************************************)
(* A row counts as sent only if Telegram showed it, and is given up only   *)
(* after its last attempt or because its chat refused a message.           *)
(***************************************************************************)
OutcomeHasCause ==
  \A d \in Deliveries :
    /\ row[d].status = "sent" => got[d] > 0
    /\ row[d].status = "failed" => row[d].attempts >= MAX_ATTEMPTS \/ row[d].chat \in refused

(***************************************************************************)
(* "One message per chat, not one per role" (notify_student), even when    *)
(* links move while the event is being queued.                             *)
(***************************************************************************)
OneMessagePerChat ==
  \A d1, d2 \in Deliveries :
    /\ d1 # d2 /\ Event(d1) = Event(d2)
    /\ row[d1].status # "absent" /\ row[d2].status # "absent"
    => row[d1].chat # row[d2].chat

(***************************************************************************)
(* A row that was sent or given up is never queued or claimed again,       *)
(* whatever late answers of other workers arrive (_record_failure,         *)
(* _deactivate_chat).  Only a row that had fallen due under a worker can   *)
(* lose its "sent" to such an answer (delivery.py:85, 91).                 *)
(***************************************************************************)
SettledStaysSettled ==
  [][\A d \in Deliveries :
       row[d].status \in {"sent", "failed"} =>
         /\ row'[d].status \in {"sent", "failed"}
         /\ row'[d].attempts = row[d].attempts
         /\ row[d].status = "sent" /\ overran[d] = 0 => row'[d].status = "sent"]_vars

(***************************************************************************)
(* "A crash between saved and sent can't lose a message": every queued     *)
(* delivery is eventually sent or given up (NotificationDelivery).         *)
(***************************************************************************)
DeliverySettles ==
  \A d \in Deliveries : row[d].status = "pending" ~> row[d].status \in {"sent", "failed"}

-----------------------------------------------------------------------------
(* The inductive invariant, however many workers hold one row               *)

\* What a worker knows of its rows: the attempts it read were made, Telegram
\* gave the answer it has.
InformedOf(x) ==
  /\ \A d \in x.batch : /\ row[d].status # "absent"
                        /\ x.pc # "claimed" => x.attempts[d] <= row[d].attempts
  /\ x.answer = "ok" => got[x.now] > 0
  /\ x.pc = "refused" \/ (x.pc = "answered" /\ x.answer = "refused") =>
       row[x.now].chat \in refused

Informed == \A w \in Workers : InformedOf(worker[w])

IInvOutcome ==
  TypeOK /\ InHand /\ QueuedByEvent /\ Informed /\ OutcomeHasCause /\ OneMessagePerChat

\* Who may still show the message, and who has shown it without recording it.
Awaits(x, d) == d \in x.batch /\ x.now # d
Unsaved(x, d) == x.now = d /\ x.answer = "ok"
Awaiting(d) == {w \in Workers : Awaits(worker[w], d)}
Unrecorded(d) == {w \in Workers : Unsaved(worker[w], d)}
Claimable(d) == IF row[d].status = "pending" /\ row[d].due THEN 1 ELSE 0

\* A row has one holder, and one more for every time it fell due under one.
Leases ==
  \A d \in Deliveries :
    /\ Cardinality(Holders(d)) + Claimable(d) <= 1 + overran[d]
    /\ row[d].status = "sent" /\ overran[d] = 0 => Holders(d) = {}

\* Every showing past and to come is the first, a lost one or an overrun's.
Accounted ==
  \A d \in Deliveries :
    /\ got[d] + Cardinality(Awaiting(d)) + Claimable(d) <= 1 + lost[d] + overran[d]
    /\ row[d].status \in {"absent", "pending"} => got[d] <= lost[d] + Cardinality(Unrecorded(d))

\* The worker of the row's last claim.
Latest(x, d) == d \in x.batch /\ (x.pc = "claimed" \/ x.attempts[d] = row[d].attempts)

\* While it is pending there is an attempt left, or the latest is under way.
Retries ==
  \A d \in Deliveries :
    /\ row[d].attempts <= MAX_ATTEMPTS + died[d] + overran[d]
    /\ row[d].status = "pending" =>
         \/ row[d].attempts < MAX_ATTEMPTS + died[d] + overran[d]
         \/ /\ ~row[d].due
            /\ \E w \in Workers : Latest(worker[w], d)

IInv == IInvOutcome /\ Leases /\ Accounted /\ Retries

(***************************************************************************)
(* A message is shown a second time only for a cause: once for every time  *)
(* showing it could not be recorded (the answer timed out or the worker    *)
(* died), and once for every time its lease ran out under a worker.        *)
(* Nothing else makes send_notifications repeat itself, however many       *)
(* workers run and however they overlap.                                   *)
(***************************************************************************)
RepeatsHaveCause == \A d \in Deliveries : got[d] <= 1 + lost[d] + overran[d]

(***************************************************************************)
(* Retries are bounded: a row is claimed MAX_ATTEMPTS times, and once more *)
(* for every worker that died with it or let its lease run out             *)
(* (_record_failure, _claim).                                              *)
(***************************************************************************)
RetriesBounded == \A d \in Deliveries : row[d].attempts <= MAX_ATTEMPTS + died[d] + overran[d]
=============================================================================

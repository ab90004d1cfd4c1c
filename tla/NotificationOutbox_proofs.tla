------------------------ MODULE NotificationOutbox_proofs ------------------------
(***************************************************************************)
(* Proofs about NotificationOutbox, for any number of events, recipients,  *)
(* chats and workers.                                                      *)
(*                                                                         *)
(* A lease can run out under a worker, so several workers may hold one row *)
(* and overwrite each other's outcome.  What each of them knows still      *)
(* holds, because attempts, chats, messages shown and refusals are never   *)
(* taken back (IInvOutcome, Steady).                                       *)
(*                                                                         *)
(* How often a row is claimed and shown is a matter of counting: a row has *)
(* one holder, and one more for every time it fell due under one (Leases); *)
(* a holder that awaits its answer stands for one showing to come, a row   *)
(* that is due for one more (Accounted).  One worker moves at a time, so   *)
(* each count moves by at most one (CountMoves).                           *)
(***************************************************************************)
EXTENDS NotificationOutbox, FiniteSetTheorems, TLAPS

\* Going on to the next row, or becoming idle.
LEMMA FinishedShape ==
  ASSUME TypeOK, InHand, NEW w \in Workers, worker[w].pc \in {"answered", "refused"}, Finished(w)
  PROVE  \E q \in Worker :
           /\ worker' = [worker EXCEPT ![w] = q] /\ InHandOf(q)
           /\ q.batch = worker[w].batch \ {worker[w].now}
           /\ q.now = None /\ q.answer = "none" /\ q.pc # "claimed"
           /\ \A d \in q.batch : q.attempts[d] = worker[w].attempts[d]
<1> DEFINE x == worker[w]
           rest == x.batch \ {x.now}
           next == [x EXCEPT !.pc = "sending", !.batch = rest, !.now = None, !.answer = "none",
                             !.attempts[x.now] = 0]
<1>1. x \in Worker /\ x.now # None /\ x.now \in x.batch
  BY DEF TypeOK, InHand, InHandOf
<1>2. CASE rest = {}
  <2>1. worker' = [worker EXCEPT ![w] = IdleWorker]
    BY <1>2 DEF Finished
  <2>2. IdleWorker \in Worker
    BY LimitAssumption DEF IdleWorker, Worker
  <2>3. /\ InHandOf(IdleWorker) /\ IdleWorker.batch = rest /\ IdleWorker.now = None
        /\ IdleWorker.answer = "none" /\ IdleWorker.pc # "claimed"
        /\ \A d \in IdleWorker.batch : IdleWorker.attempts[d] = x.attempts[d]
    BY <1>2 DEF InHandOf, IdleWorker
  <2> QED BY <2>1, <2>2, <2>3
<1>3. CASE rest # {}
  <2>1. worker' = [worker EXCEPT ![w] = next]
    BY <1>3 DEF Finished
  <2> HIDE DEF x
  <2>2. next \in Worker
    <3> DEFINE tried == [x.attempts EXCEPT ![x.now] = 0]
               moved == [x EXCEPT !.pc = "sending", !.batch = rest, !.now = None, !.answer = "none"]
    <3>1. 0 \in 0..MaxClaims
      BY LimitAssumption
    <3>2. tried \in [Deliveries -> 0..MaxClaims]
      BY <1>1, <3>1 DEF Worker
    <3>3. rest \subseteq Deliveries
      BY <1>1 DEF Worker
    <3>4. moved \in Worker /\ moved.attempts = x.attempts
      BY <1>1, <3>3 DEF Worker
    <3>5. next = [moved EXCEPT !.attempts = tried]
      BY <1>1 DEF Worker
    <3> HIDE DEF tried, moved, next
    <3> QED BY <3>2, <3>4, <3>5 DEF Worker
  <2>3. /\ next.pc = "sending" /\ next.batch = rest /\ next.now = None /\ next.answer = "none"
        /\ \A d \in rest : next.attempts[d] = x.attempts[d]
    BY <1>1 DEF Worker
  <2> HIDE DEF next
  <2>4. InHandOf(next)
    BY <2>3 DEF InHandOf
  <2> QED BY <2>1, <2>2, <2>3, <2>4 DEF x
<1> QED BY <1>2, <1>3

\* What no step of the worker undoes, and the causes it needs for an outcome.
Steady ==
  /\ UNCHANGED notice /\ refused \subseteq refused'
  /\ \A d \in Deliveries :
       /\ row'[d].chat = row[d].chat
       /\ row[d].attempts <= row'[d].attempts /\ got[d] <= got'[d]
       /\ \/ row'[d].status = row[d].status
          \/ row[d].status # "absent" /\ row'[d].status = "sent" /\ got[d] > 0
          \/ /\ row[d].status # "absent" /\ row'[d].status = "failed"
             /\ row[d].attempts >= MAX_ATTEMPTS \/ row[d].chat \in refused

\* A worker that rests still knows what it knew.
LEMMA StillInformed ==
  ASSUME IInvOutcome, TypeOK', Steady, NEW x \in Worker, InHandOf(x), InformedOf(x)
  PROVE  InformedOf(x)'
<1>1. /\ x.batch \subseteq Deliveries
      /\ x.now # None => x.now \in Deliveries
      /\ x.attempts \in [Deliveries -> 0..MaxClaims]
  BY DEF Worker, InHandOf
<1>2. x.answer = "ok" \/ x.pc = "refused" \/ x.pc = "answered" => x.now # None
  BY DEF InHandOf
<1>3. ASSUME NEW d \in x.batch
      PROVE  /\ row'[d].status # "absent"
             /\ x.pc # "claimed" => x.attempts[d] <= row'[d].attempts
  <2>1. d \in Deliveries
    BY <1>1
  <2>2. x.attempts[d] \in 0..MaxClaims
    BY <1>1, <2>1
  <2>3. row[d].attempts \in 0..MaxClaims /\ row'[d].attempts \in 0..MaxClaims
    BY <2>1 DEF IInvOutcome, TypeOK, Row
  <2>4. row[d].status # "absent" /\ (x.pc # "claimed" => x.attempts[d] <= row[d].attempts)
    BY DEF InformedOf
  <2>5. row'[d].status # "absent" /\ row[d].attempts <= row'[d].attempts
    BY <2>1, <2>4 DEF Steady
  <2> QED BY <2>2, <2>3, <2>4, <2>5, LimitAssumption
<1>4. ASSUME x.answer = "ok" PROVE got'[x.now] > 0
  <2>1. x.now \in Deliveries /\ got[x.now] > 0
    BY <1>1, <1>2, <1>4 DEF InformedOf
  <2>2. got[x.now] \in Nat /\ got'[x.now] \in Nat /\ got[x.now] <= got'[x.now]
    BY <2>1 DEF IInvOutcome, TypeOK, Steady
  <2> QED BY <2>1, <2>2
<1>5. ASSUME x.pc = "refused" \/ (x.pc = "answered" /\ x.answer = "refused")
      PROVE  row'[x.now].chat \in refused'
  BY <1>1, <1>2, <1>5 DEF Steady, InformedOf
<1> QED BY <1>3, <1>4, <1>5 DEF InformedOf

LEMMA SteadyStep ==
  ASSUME IInvOutcome, TypeOK', Steady
  PROVE  /\ QueuedByEvent' /\ OutcomeHasCause' /\ OneMessagePerChat'
         /\ \A w \in Workers : worker'[w] = worker[w] => InformedOf(worker[w])'
<1> USE LimitAssumption
<1>1. \A d \in Deliveries :
        /\ row[d].attempts \in Nat /\ row'[d].attempts \in Nat /\ MAX_ATTEMPTS \in Nat
        /\ got[d] \in Nat /\ got'[d] \in Nat
  BY DEF IInvOutcome, TypeOK, Row
<1>2. \A d \in Deliveries : row'[d].status = "absent" <=> row[d].status = "absent"
  BY DEF Steady
<1>3. QueuedByEvent' /\ OneMessagePerChat'
  BY <1>2 DEF Steady, IInvOutcome, QueuedByEvent, OneMessagePerChat
<1>4. OutcomeHasCause'
  <2> SUFFICES ASSUME NEW d \in Deliveries
               PROVE  /\ row'[d].status = "sent" => got'[d] > 0
                      /\ row'[d].status = "failed" =>
                           row'[d].attempts >= MAX_ATTEMPTS \/ row'[d].chat \in refused'
    BY DEF OutcomeHasCause
  <2>1. /\ row[d].status = "sent" => got[d] > 0
        /\ row[d].status = "failed" =>
             row[d].attempts >= MAX_ATTEMPTS \/ row[d].chat \in refused
    BY DEF IInvOutcome, OutcomeHasCause
  <2>2. /\ row'[d].status = "sent" => got[d] > 0
        /\ row'[d].status = "failed" =>
             row[d].attempts >= MAX_ATTEMPTS \/ row[d].chat \in refused
    BY <2>1 DEF Steady
  <2> QED BY <1>1, <2>2 DEF Steady
<1>5. ASSUME NEW w \in Workers, worker'[w] = worker[w]
      PROVE  InformedOf(worker[w])'
  <2>1. worker[w] \in Worker /\ InHandOf(worker[w]) /\ InformedOf(worker[w])
    BY DEF IInvOutcome, TypeOK, InHand, Informed
  <2>2. PICK x \in Worker : x = worker[w] /\ InHandOf(x) /\ InformedOf(x)
    BY <2>1
  <2>3. InformedOf(x)'
    BY <2>2, StillInformed
  <2> QED BY <1>5, <2>2, <2>3 DEF InformedOf
<1> QED BY <1>3, <1>4, <1>5

\* One worker becomes q; what it knows has to be shown of q alone.
LEMMA OutcomeMoves ==
  ASSUME IInvOutcome, NEW w \in Workers, NEW q \in Worker,
         worker' = [worker EXCEPT ![w] = q],
         InHandOf(q), TypeOK', Steady,
         \A d \in q.batch : /\ row'[d].status # "absent"
                            /\ q.pc # "claimed" => q.attempts[d] <= row'[d].attempts,
         q.answer = "ok" => got'[q.now] > 0,
         q.pc = "refused" \/ (q.pc = "answered" /\ q.answer = "refused") =>
           row'[q.now].chat \in refused'
  PROVE  IInvOutcome'
<1>1. worker'[w] = q /\ \A v \in Workers \ {w} : worker'[v] = worker[v]
  BY DEF IInvOutcome, TypeOK
<1>2. InHand'
  BY <1>1 DEF IInvOutcome, InHand
<1>3. InformedOf(worker[w])'
  BY <1>1 DEF InformedOf
<1>4. Informed'
  BY <1>1, <1>3, SteadyStep DEF Informed
<1> QED BY <1>2, <1>4, SteadyStep DEF IInvOutcome

\* No worker moves and no row changes but for its due time.
LEMMA OutcomeRests ==
  ASSUME IInvOutcome, UNCHANGED worker, TypeOK', Steady
  PROVE  IInvOutcome'
<1>1. InHand'
  BY DEF IInvOutcome, InHand
<1>2. Informed'
  BY SteadyStep DEF Informed
<1> QED BY <1>1, <1>2, SteadyStep DEF IInvOutcome

LEMMA OutcomeClaim ==
  ASSUME IInvOutcome, NEW w \in Workers, NEW ids \in SUBSET Due, ClaimSet(w, ids)
  PROVE  IInvOutcome'
<1> DEFINE q == [worker[w] EXCEPT !.pc = "claimed", !.batch = ids]
<1>1. /\ UNCHANGED <<link, notice, blocked, got, lost, died, overran, refused>>
      /\ worker[w].pc = "idle"
      /\ row' = [d \in Deliveries |-> IF d \in ids THEN Leased(row[d]) ELSE row[d]]
      /\ worker' = [worker EXCEPT ![w].pc = "claimed", ![w].batch = ids]
  BY DEF ClaimSet, history
<1>2. worker[w] \in Worker /\ InHandOf(worker[w]) /\ worker[w].now = None
  BY <1>1 DEF IInvOutcome, TypeOK, InHand, InHandOf
<1>3. ids \subseteq Deliveries
  BY DEF Due
<1>4. /\ q \in Worker /\ q.pc = "claimed" /\ q.batch = ids /\ q.now = None
      /\ q.answer = worker[w].answer
  BY <1>2, <1>3 DEF Worker
<1>5. worker' = [worker EXCEPT ![w] = q]
  BY <1>1 DEF IInvOutcome, TypeOK
<1> HIDE DEF q
<1>6. InHandOf(q) /\ q.answer # "ok"
  BY <1>1, <1>2, <1>4 DEF InHandOf
<1>7. ASSUME NEW d \in ids
      PROVE  /\ row'[d] \in Row /\ row'[d].status = "pending" /\ row[d].status = "pending"
             /\ row'[d].chat = row[d].chat /\ row[d].attempts <= row'[d].attempts
  <2>1. d \in Deliveries /\ row[d].status = "pending" /\ row[d].attempts < MaxClaims
    BY DEF Due
  <2>2. row[d] \in Row
    BY <2>1 DEF IInvOutcome, TypeOK
  <2>3. row[d].attempts + 1 \in 0..MaxClaims /\ row[d].attempts <= row[d].attempts + 1
    BY <2>1, <2>2, LimitAssumption DEF Row
  <2>4. /\ Leased(row[d]) \in Row /\ Leased(row[d]).status = "pending"
        /\ Leased(row[d]).chat = row[d].chat /\ Leased(row[d]).attempts = row[d].attempts + 1
    BY <2>1, <2>2, <2>3 DEF Leased, Row
  <2> QED BY <1>1, <2>1, <2>3, <2>4
<1>8. \A d \in Deliveries \ ids : row'[d] = row[d]
  BY <1>1
<1>9. TypeOK'
  <2>1. row' \in [Deliveries -> Row]
    BY <1>1, <1>7, <1>8 DEF IInvOutcome, TypeOK
  <2>2. worker' \in [Workers -> Worker]
    BY <1>4, <1>5 DEF IInvOutcome, TypeOK
  <2> QED BY <1>1, <2>1, <2>2 DEF IInvOutcome, TypeOK
<1>10. Steady
  <2> SUFFICES ASSUME NEW d \in Deliveries
               PROVE  /\ row'[d].chat = row[d].chat /\ row'[d].status = row[d].status
                      /\ row[d].attempts <= row'[d].attempts /\ got[d] <= got'[d]
    BY <1>1 DEF Steady
  <2>1. got[d] \in Nat /\ row[d].attempts \in Nat
    BY DEF IInvOutcome, TypeOK, Row
  <2> QED BY <1>1, <1>7, <1>8, <2>1
<1> QED BY <1>3, <1>4, <1>5, <1>6, <1>7, <1>9, <1>10, OutcomeMoves

\* Every row and what Telegram showed stay as they are.
LEMMA SameRows ==
  ASSUME IInvOutcome, UNCHANGED <<notice, row, got>>, refused \subseteq refused'
  PROVE  Steady
<1>1. \A d \in Deliveries : row[d].attempts \in Nat /\ got[d] \in Nat
  BY DEF IInvOutcome, TypeOK, Row
<1> QED BY <1>1 DEF Steady

LEMMA OutcomeLoad ==
  ASSUME IInvOutcome, NEW w \in Workers, Load(w)
  PROVE  IInvOutcome'
<1> DEFINE read == [d \in Deliveries |-> IF d \in worker[w].batch THEN row[d].attempts ELSE 0]
           q == [worker[w] EXCEPT !.pc = "sending", !.attempts = read]
<1>1. /\ UNCHANGED <<link, notice, row, blocked, got, lost, died, overran, refused>>
      /\ worker[w].pc = "claimed"
      /\ worker' = [worker EXCEPT ![w].pc = "sending", ![w].attempts = read]
  BY DEF Load, history
<1>2. worker[w] \in Worker /\ InHandOf(worker[w]) /\ InformedOf(worker[w])
  BY DEF IInvOutcome, TypeOK, InHand, Informed
<1>3. read \in [Deliveries -> 0..MaxClaims]
  BY LimitAssumption DEF IInvOutcome, TypeOK, Row
<1>4. worker' = [worker EXCEPT ![w] = q]
  BY <1>1 DEF IInvOutcome, TypeOK
<1>5. \A d \in worker[w].batch : /\ d \in Deliveries /\ read[d] = row[d].attempts
                                 /\ row[d].attempts \in Nat /\ row[d].status # "absent"
  BY <1>2 DEF Worker, InformedOf, IInvOutcome, TypeOK, Row
<1> HIDE DEF read
<1>6. /\ q \in Worker /\ q.pc = "sending" /\ q.batch = worker[w].batch /\ q.attempts = read
      /\ q.now = worker[w].now /\ q.answer = worker[w].answer
  BY <1>2, <1>3 DEF Worker
<1> HIDE DEF q
<1>7. InHandOf(q) /\ q.answer # "ok"
  BY <1>1, <1>2, <1>6 DEF InHandOf
<1>8. TypeOK'
  BY <1>1, <1>4, <1>6 DEF IInvOutcome, TypeOK
<1>9. \A d \in q.batch : row'[d].status # "absent" /\ q.attempts[d] <= row'[d].attempts
  BY <1>1, <1>5, <1>6
<1> QED BY <1>1, <1>4, <1>6, <1>7, <1>8, <1>9, SameRows, OutcomeMoves

LEMMA OutcomeSend ==
  ASSUME IInvOutcome, NEW w \in Workers, NEW d \in Deliveries, SendMessage(w, d)
  PROVE  IInvOutcome'
<1>1. /\ UNCHANGED <<link, notice, row, blocked, died, overran>>
      /\ worker[w].pc = "sending" /\ d \in worker[w].batch
  BY DEF SendMessage
<1>2. PICK a \in {"ok", "error", "refused"} :
        /\ Answered(w, d, a)
        /\ got' = got \/ got' = [got EXCEPT ![d] = @ + 1]
        /\ lost' = lost \/ lost' = [lost EXCEPT ![d] = @ + 1]
        /\ refused' = refused \/ (refused' = refused \cup {row[d].chat} /\ row[d].chat \in blocked)
        /\ a = "ok" => got' = [got EXCEPT ![d] = @ + 1]
        /\ a = "refused" => row[d].chat \in refused'
  BY DEF SendMessage
<1> DEFINE q == [worker[w] EXCEPT !.pc = "answered", !.now = d, !.answer = a]
<1>3. worker[w] \in Worker /\ InHandOf(worker[w]) /\ InformedOf(worker[w])
  BY DEF IInvOutcome, TypeOK, InHand, Informed
<1>4. worker' = [worker EXCEPT ![w] = q]
  BY <1>2 DEF Answered, IInvOutcome, TypeOK
<1>5. /\ q \in Worker /\ q.pc = "answered" /\ q.batch = worker[w].batch /\ q.now = d
      /\ q.answer = a /\ q.attempts = worker[w].attempts
  BY <1>3 DEF Worker
<1> HIDE DEF q
<1>6. InHandOf(q)
  BY <1>1, <1>5, NameAssumption DEF InHandOf
<1>7. \A c \in Deliveries : /\ got[c] \in Nat /\ lost[c] \in Nat /\ got'[c] \in {got[c], got[c] + 1}
                            /\ row[c].attempts \in Nat
  BY <1>2 DEF IInvOutcome, TypeOK, Row
<1>8. TypeOK'
  <2>1. got' \in [Deliveries -> Nat] /\ lost' \in [Deliveries -> Nat]
    BY <1>2, <1>7 DEF IInvOutcome, TypeOK
  <2>2. refused' \subseteq Chats
    BY <1>2 DEF IInvOutcome, TypeOK
  <2>3. worker' \in [Workers -> Worker]
    BY <1>4, <1>5 DEF IInvOutcome, TypeOK
  <2> QED BY <1>1, <2>1, <2>2, <2>3 DEF IInvOutcome, TypeOK
<1>9. Steady
  BY <1>1, <1>2, <1>7 DEF Steady
<1>10. \A c \in q.batch : row'[c].status # "absent" /\ q.attempts[c] <= row'[c].attempts
  BY <1>1, <1>3, <1>5 DEF InformedOf
<1>11. q.answer = "ok" => got'[q.now] > 0
  BY <1>2, <1>5, <1>7 DEF IInvOutcome, TypeOK
<1>12. q.answer = "refused" => row'[q.now].chat \in refused'
  BY <1>1, <1>2, <1>5
<1> QED BY <1>4, <1>5, <1>6, <1>8, <1>9, <1>10, <1>11, <1>12, OutcomeMoves

\* A recorded answer, whoever else holds the row.
LEMMA OutcomeFinish ==
  ASSUME IInvOutcome, NEW w \in Workers,
         worker[w].pc \in {"answered", "refused"}, Finished(w),
         UNCHANGED <<notice, blocked, got, lost, died, overran, refused>>,
         link' \in [Recipients -> Chats \cup {None}], row' \in [Deliveries -> Row], Steady
  PROVE  IInvOutcome'
<1>1. PICK q \in Worker :
           /\ worker' = [worker EXCEPT ![w] = q] /\ InHandOf(q)
           /\ q.batch = worker[w].batch \ {worker[w].now}
           /\ q.now = None /\ q.answer = "none" /\ q.pc # "claimed"
           /\ \A d \in q.batch : q.attempts[d] = worker[w].attempts[d]
  BY FinishedShape DEF IInvOutcome
<1>2. worker[w] \in Worker /\ InformedOf(worker[w])
  BY DEF IInvOutcome, TypeOK, Informed
<1>3. TypeOK'
  BY <1>1 DEF IInvOutcome, TypeOK
<1>4. ASSUME NEW d \in q.batch
      PROVE  row'[d].status # "absent" /\ q.attempts[d] <= row'[d].attempts
  <2>1. d \in Deliveries /\ d \in worker[w].batch
    BY <1>1, <1>2 DEF Worker
  <2>2. row[d].status # "absent" /\ q.attempts[d] <= row[d].attempts
    BY <1>1, <1>2, <2>1 DEF InformedOf
  <2>3. row'[d].status # "absent" /\ row[d].attempts <= row'[d].attempts
    BY <2>1, <2>2 DEF Steady
  <2>4. q.attempts[d] \in 0..MaxClaims
    BY <2>1 DEF Worker
  <2>5. row[d].attempts \in 0..MaxClaims /\ row'[d].attempts \in 0..MaxClaims
    BY <2>1 DEF IInvOutcome, TypeOK, Row
  <2> QED BY <2>2, <2>3, <2>4, <2>5, LimitAssumption
<1>5. q.pc \notin {"answered", "refused"}
  BY <1>1 DEF InHandOf
<1> QED BY <1>1, <1>3, <1>4, <1>5, OutcomeMoves

\* A row whose chat, attempts and being there are untouched, with an outcome it has a cause for.
LEMMA RowSteady ==
  ASSUME IInvOutcome, UNCHANGED <<notice, got, refused>>,
         \A d \in Deliveries :
           /\ row'[d].chat = row[d].chat /\ row'[d].attempts = row[d].attempts
           /\ \/ row'[d].status = row[d].status
              \/ row[d].status # "absent" /\ row'[d].status = "sent" /\ got[d] > 0
              \/ /\ row[d].status # "absent" /\ row'[d].status = "failed"
                 /\ row[d].attempts >= MAX_ATTEMPTS \/ row[d].chat \in refused
  PROVE  Steady
<1>1. \A d \in Deliveries : row[d].attempts \in Nat /\ got[d] \in Nat
  BY DEF IInvOutcome, TypeOK, Row
<1> QED BY <1>1 DEF Steady

LEMMA OutcomeRecord ==
  ASSUME IInvOutcome, NEW w \in Workers, RecordSent(w) \/ RecordFailure(w) \/ DeactivateChat(w)
  PROVE  IInvOutcome'
<1> DEFINE n == worker[w].now
<1>1. /\ worker[w].pc \in {"answered", "refused"} /\ Finished(w)
      /\ UNCHANGED <<notice, blocked, got, lost, died, overran, refused>>
  BY DEF RecordSent, RecordFailure, DeactivateChat, history
<1>2. /\ worker[w].batch \subseteq Deliveries /\ n \in worker[w].batch
      /\ row \in [Deliveries -> Row] /\ InformedOf(worker[w])
      /\ worker[w].attempts \in [Deliveries -> 0..MaxClaims]
  BY <1>1 DEF IInvOutcome, TypeOK, InHand, InHandOf, Informed, Worker
<1>3. n \in Deliveries /\ row[n] \in Row
  BY <1>2
<1>4. row[n].status # "absent"
  BY <1>2 DEF InformedOf
<1>5. CASE RecordSent(w)
  <2>1. /\ row' = [row EXCEPT ![n] = Sent(@)] /\ link' = link
        /\ worker[w].answer = "ok"
    BY <1>5 DEF RecordSent
  <2>2. /\ Sent(row[n]) \in Row /\ Sent(row[n]).status = "sent"
        /\ Sent(row[n]).attempts = row[n].attempts /\ Sent(row[n]).chat = row[n].chat
    BY <1>3 DEF Sent, Row
  <2>3. /\ row' \in [Deliveries -> Row] /\ row'[n] = Sent(row[n])
        /\ \A d \in Deliveries \ {n} : row'[d] = row[d]
    BY <1>2, <1>3, <2>1, <2>2
  <2>4. got[n] > 0
    BY <1>2, <2>1 DEF InformedOf
  <2>5. Steady
    BY <1>1, <1>4, <2>2, <2>3, <2>4, RowSteady
  <2>6. link' \in [Recipients -> Chats \cup {None}]
    BY <2>1 DEF IInvOutcome, TypeOK
  <2> QED BY <1>1, <2>3, <2>5, <2>6, OutcomeFinish
<1>6. CASE RecordFailure(w)
  <2>1. /\ link' = link /\ worker[w].pc = "answered"
        /\ row' = IF LastAttempt(worker[w].attempts[n])
                  THEN [row EXCEPT ![n].status = "failed"]
                  ELSE [row EXCEPT ![n] = PutOff(@)]
    BY <1>6 DEF RecordFailure
  <2>2. \/ /\ row' = [row EXCEPT ![n].status = "failed"]
           /\ row[n].attempts >= MAX_ATTEMPTS
        \/ row' = [row EXCEPT ![n] = PutOff(@)]
    <3>1. worker[w].attempts[n] <= row[n].attempts
      BY <1>2, <2>1 DEF InformedOf
    <3>2. worker[w].attempts[n] \in 0..MaxClaims /\ row[n].attempts \in 0..MaxClaims
      BY <1>2, <1>3 DEF Row
    <3>3. worker[w].attempts[n] >= MAX_ATTEMPTS => row[n].attempts >= MAX_ATTEMPTS
      BY <3>1, <3>2, LimitAssumption
    <3> QED BY <2>1, <3>3 DEF LastAttempt
  <2>3. /\ \A d \in Deliveries \ {n} : row'[d] = row[d]
        /\ row' = [d \in Deliveries |-> row'[d]]
        /\ \/ /\ row'[n] = [row[n] EXCEPT !.status = "failed"]
              /\ row[n].attempts >= MAX_ATTEMPTS
           \/ row'[n] = PutOff(row[n])
    BY <1>2, <1>3, <2>2
  <2>4. /\ row'[n] \in Row /\ row'[n].chat = row[n].chat /\ row'[n].attempts = row[n].attempts
        /\ \/ row'[n].status = row[n].status
           \/ row'[n].status = "failed" /\ row[n].attempts >= MAX_ATTEMPTS
    BY <1>3, <2>3 DEF Row, PutOff
  <2>5. row' \in [Deliveries -> Row]
    BY <1>2, <2>3, <2>4
  <2>6. Steady
    BY <1>1, <1>4, <2>3, <2>4, RowSteady
  <2>7. link' \in [Recipients -> Chats \cup {None}]
    BY <2>1 DEF IInvOutcome, TypeOK
  <2> QED BY <1>1, <2>5, <2>6, <2>7, OutcomeFinish
<1>7. CASE DeactivateChat(w)
  <2> DEFINE c == row[n].chat
  <2>1. /\ worker[w].pc = "refused" /\ link' = UnlinkChat(link, c)
        /\ row' = [d \in Deliveries |->
                     IF FailsWith(row[d], c) THEN [row[d] EXCEPT !.status = "failed"] ELSE row[d]]
    BY <1>7 DEF DeactivateChat
  <2>2. link' \in [Recipients -> Chats \cup {None}]
    BY <2>1 DEF IInvOutcome, TypeOK, UnlinkChat
  <2>3. c \in refused
    BY <1>2, <2>1 DEF InformedOf
  <2> HIDE DEF c
  <2>4. ASSUME NEW d \in Deliveries
        PROVE  /\ row'[d] \in Row /\ row'[d].chat = row[d].chat
               /\ row'[d].attempts = row[d].attempts
               /\ \/ row'[d].status = row[d].status
                  \/ /\ row[d].status # "absent" /\ row'[d].status = "failed"
                     /\ row[d].chat \in refused
    <3>1. row[d] \in Row
      BY <1>2
    <3>2. CASE FailsWith(row[d], c)
      <4> DEFINE x == [row[d] EXCEPT !.status = "failed"]
      <4>1. row'[d] = x /\ row[d].status = "pending" /\ row[d].chat \in refused
        BY <2>1, <2>3, <3>2 DEF FailsWith
      <4>2. /\ x \in Row /\ x.attempts = row[d].attempts /\ x.chat = row[d].chat
            /\ x.status = "failed"
        BY <3>1 DEF Row
      <4> HIDE DEF x
      <4> QED BY <4>1, <4>2
    <3>3. CASE ~FailsWith(row[d], c)
      BY <2>1, <3>1, <3>3
    <3> QED BY <3>2, <3>3
  <2>5. row' \in [Deliveries -> Row]
    BY <2>1, <2>4
  <2>6. Steady
    BY <1>1, <2>4, RowSteady
  <2> QED BY <1>1, <2>2, <2>5, <2>6, OutcomeFinish
<1> QED BY <1>5, <1>6, <1>7

LEMMA OutcomeRefusal ==
  ASSUME IInvOutcome, NEW w \in Workers, RecordRefusal(w)
  PROVE  IInvOutcome'
<1> DEFINE n == worker[w].now
           q == [worker[w] EXCEPT !.pc = "refused"]
           x == [row[n] EXCEPT !.status = "failed"]
<1>1. /\ UNCHANGED <<link, notice, blocked, got, lost, died, overran, refused>>
      /\ worker[w].pc = "answered" /\ worker[w].answer = "refused"
      /\ row' = [row EXCEPT ![n].status = "failed"]
      /\ worker' = [worker EXCEPT ![w].pc = "refused"]
  BY DEF RecordRefusal, history
<1>2. /\ worker[w] \in Worker /\ InHandOf(worker[w]) /\ n \in worker[w].batch
      /\ row \in [Deliveries -> Row] /\ InformedOf(worker[w])
  BY <1>1 DEF IInvOutcome, TypeOK, InHand, InHandOf, Informed
<1>3. n \in Deliveries /\ row[n] \in Row
  BY <1>2 DEF Worker
<1>4. row[n].status # "absent" /\ row[n].chat \in refused
  BY <1>1, <1>2 DEF InformedOf
<1>5. worker' = [worker EXCEPT ![w] = q]
  BY <1>1 DEF IInvOutcome, TypeOK
<1>6. /\ q \in Worker /\ q.pc = "refused" /\ q.batch = worker[w].batch /\ q.now = n
      /\ q.answer = "refused" /\ q.attempts = worker[w].attempts
  BY <1>1, <1>2 DEF Worker
<1>7. /\ row'[n] = x /\ \A d \in Deliveries \ {n} : row'[d] = row[d]
      /\ row' = [d \in Deliveries |-> row'[d]]
  BY <1>1, <1>2, <1>3
<1>8. x \in Row /\ x.status = "failed" /\ x.chat = row[n].chat /\ x.attempts = row[n].attempts
  BY <1>2, <1>3 DEF Row
<1> HIDE DEF q, x, n
<1>9. InHandOf(q)
  BY <1>2, <1>6, NameAssumption DEF InHandOf, Worker, n
<1>10. row' \in [Deliveries -> Row]
  BY <1>2, <1>7, <1>8
<1>11. TypeOK'
  BY <1>1, <1>5, <1>6, <1>10 DEF IInvOutcome, TypeOK
<1>12. Steady
  BY <1>1, <1>4, <1>7, <1>8, RowSteady
<1>13. ASSUME NEW d \in q.batch
       PROVE  row'[d].status # "absent" /\ q.attempts[d] <= row'[d].attempts
  <2>1. d \in Deliveries /\ d \in worker[w].batch
    BY <1>2, <1>6 DEF Worker
  <2>2. row[d].status # "absent" /\ q.attempts[d] <= row[d].attempts
    BY <1>1, <1>2, <1>6, <2>1 DEF InformedOf
  <2>3. row'[d].status # "absent" /\ row'[d].attempts = row[d].attempts
    BY <1>7, <1>8, <2>1, <2>2
  <2> QED BY <2>2, <2>3
<1>14. row'[q.now].chat \in refused'
  BY <1>1, <1>3, <1>4, <1>6, <1>7, <1>8
<1> QED BY <1>5, <1>6, <1>9, <1>11, <1>12, <1>13, <1>14, OutcomeMoves

LEMMA OutcomeDeath ==
  ASSUME IInvOutcome, NEW w \in Workers, Dies(w)
  PROVE  IInvOutcome'
<1> DEFINE q == IdleWorker
<1>1. /\ UNCHANGED <<link, notice, row, blocked, got, overran, refused>>
      /\ worker' = [worker EXCEPT ![w] = q]
      /\ died' = [d \in Deliveries |-> IF d \in worker[w].batch THEN died[d] + 1 ELSE died[d]]
      /\ lost' = IF worker[w].answer = "ok" THEN [lost EXCEPT ![worker[w].now] = @ + 1] ELSE lost
  BY DEF Dies
<1>2. q \in Worker /\ InHandOf(q) /\ q.batch = {} /\ q.answer = "none" /\ q.pc = "idle"
  BY LimitAssumption DEF IdleWorker, Worker, InHandOf
<1>3. \A d \in Deliveries : lost[d] \in Nat /\ died[d] \in Nat
  BY DEF IInvOutcome, TypeOK
<1> HIDE DEF q
<1>4. died' \in [Deliveries -> Nat]
  <2>1. \A d \in Deliveries : died[d] + 1 \in Nat
    BY <1>3
  <2> QED BY <1>1, <1>3, <2>1
<1>5. lost' \in [Deliveries -> Nat]
  <2>1. /\ lost' = [d \in Deliveries |-> lost'[d]]
        /\ \A d \in Deliveries : lost'[d] \in {lost[d], lost[d] + 1}
    BY <1>1 DEF IInvOutcome, TypeOK
  <2>2. \A d \in Deliveries : lost'[d] \in Nat
    BY <1>3, <2>1
  <2> QED BY <2>1, <2>2
<1>6. TypeOK'
  BY <1>1, <1>2, <1>4, <1>5 DEF IInvOutcome, TypeOK
<1> QED BY <1>1, <1>2, <1>6, SameRows, OutcomeMoves

LEMMA OutcomeDue ==
  ASSUME IInvOutcome, NEW d \in Deliveries, FallsDue(d)
  PROVE  IInvOutcome'
<1>1. /\ UNCHANGED <<link, notice, worker, blocked, got, lost, died, refused>>
      /\ row' = [row EXCEPT ![d].due = TRUE]
      /\ overran' = overran \/ overran' = [overran EXCEPT ![d] = @ + 1]
  BY DEF FallsDue
<1>2. \A c \in Deliveries : /\ row'[c].status = row[c].status /\ row'[c].chat = row[c].chat
                            /\ row'[c].attempts = row[c].attempts
  BY <1>1 DEF IInvOutcome, TypeOK, Row
<1>3. TypeOK'
  <2>1. \A x \in Row : [x EXCEPT !.due = TRUE] \in Row
    BY DEF Row
  <2>2. row' \in [Deliveries -> Row]
    BY <1>1, <2>1 DEF IInvOutcome, TypeOK
  <2>3. overran' \in [Deliveries -> Nat]
    <3>1. \A n \in Nat : n + 1 \in Nat
      OBVIOUS
    <3> QED BY <1>1, <3>1 DEF IInvOutcome, TypeOK
  <2> QED BY <1>1, <2>2, <2>3 DEF IInvOutcome, TypeOK
<1> QED BY <1>1, <1>2, <1>3, RowSteady, OutcomeRests

LEMMA OutcomeChat ==
  ASSUME IInvOutcome,
         \/ \E c \in Chats : \/ \E S \in SUBSET Recipients : LinkByPhone(c, S)
                             \/ Stop(c) \/ BlocksBot(c)
         \/ \E r \in Recipients : PhoneChanges(r)
  PROVE  IInvOutcome'
<1>1. UNCHANGED <<notice, row, worker, got, lost, died, overran, refused>>
  BY DEF LinkByPhone, Stop, BlocksBot, PhoneChanges, history
<1>2. link' \in [Recipients -> Chats \cup {None}] /\ blocked' \subseteq Chats
  BY DEF IInvOutcome, TypeOK, LinkByPhone, Stop, BlocksBot, PhoneChanges, UnlinkChat
<1>3. TypeOK'
  BY <1>1, <1>2 DEF IInvOutcome, TypeOK
<1> QED BY <1>1, <1>3, SameRows, OutcomeRests

\* What only speaks of rows, workers and answers.
LEMMA OutcomeUntouched ==
  ASSUME IInvOutcome, UNCHANGED <<row, worker, got, refused>>
  PROVE  InHand' /\ Informed' /\ OutcomeHasCause' /\ OneMessagePerChat'
<1>1. InHand' /\ OutcomeHasCause' /\ OneMessagePerChat'
  BY DEF IInvOutcome, InHand, OutcomeHasCause, OneMessagePerChat
<1>2. Informed'
  BY DEF IInvOutcome, Informed, InformedOf
<1> QED BY <1>1, <1>2

LEMMA OutcomeNotice ==
  ASSUME IInvOutcome, NEW e \in Events, NotifyRead(e) \/ NotifyAbort(e)
  PROVE  IInvOutcome'
<1>1. UNCHANGED <<link, row, worker, blocked, got, lost, died, overran, refused>>
  BY DEF NotifyRead, NotifyAbort, history
<1>2. Student \in Recipients
  BY DEF Recipients
<1>3. notice' \in [Events -> [state: {"none", "open", "done"}, own: Chats \cup {None}]]
  BY <1>2 DEF IInvOutcome, TypeOK, NotifyRead, NotifyAbort
<1>4. TypeOK'
  BY <1>1, <1>3 DEF IInvOutcome, TypeOK
<1>5. notice[e].state # "done" /\ \A f \in Events : f # e => notice'[f] = notice[f]
  BY DEF IInvOutcome, TypeOK, NotifyRead, NotifyAbort
<1>6. QueuedByEvent'
  BY <1>1, <1>5 DEF IInvOutcome, QueuedByEvent, Event, Deliveries
<1> QED BY <1>1, <1>4, <1>6, OutcomeUntouched DEF IInvOutcome

\* The rows of one event, queued together: the student's own chat, and one
\* parent for every other chat.
LEMMA OutcomeQueue ==
  ASSUME IInvOutcome, NEW e \in Events, NotifyCommit(e)
  PROVE  IInvOutcome'
<1> DEFINE own == notice[e].own
<1> USE LimitAssumption, NameAssumption
<1>1. /\ UNCHANGED <<link, worker, blocked, got, lost, died, overran, refused>>
      /\ notice[e].state = "open"
      /\ notice' = [notice EXCEPT ![e].state = "done", ![e].own = None]
  BY DEF NotifyCommit, history
<1>2. PICK S \in SUBSET Parents :
        /\ OneEach(S, own)
        /\ row' = [d \in Deliveries |->
            IF Event(d) = e /\ (d[2] \in S \/ (d[2] = Student /\ own # None))
            THEN [NoRow EXCEPT !.status = "pending", !.due = TRUE,
                               !.chat = IF d[2] = Student THEN own ELSE link[d[2]]]
            ELSE row[d]]
  BY DEF NotifyCommit
<1> DEFINE Queued(d) == Event(d) = e /\ (d[2] \in S \/ (d[2] = Student /\ own # None))
           To(d) == IF d[2] = Student THEN own ELSE link[d[2]]
<1>3. ASSUME NEW d \in Deliveries
      PROVE  /\ ~Queued(d) => row'[d] = row[d]
             /\ Queued(d) => /\ row'[d] \in Row /\ row'[d].status = "pending"
                             /\ row'[d].chat = To(d) /\ row'[d].attempts = 0
             /\ Event(d) = e => row[d].status = "absent"
  <2>1. d[2] \in Recipients
    BY DEF Deliveries
  <2>2. To(d) \in Chats \cup {None}
    BY <2>1 DEF IInvOutcome, TypeOK
  <2> DEFINE new == [NoRow EXCEPT !.status = "pending", !.due = TRUE, !.chat = To(d)]
  <2>3. row'[d] = IF Queued(d) THEN new ELSE row[d]
    BY <1>2
  <2>4. Event(d) = e => row[d].status = "absent"
    BY <1>1 DEF IInvOutcome, QueuedByEvent
  <2> HIDE DEF To
  <2>5. NoRow \in Row /\ NoRow.attempts = 0
    BY DEF NoRow, Row
  <2>6. new \in Row /\ new.status = "pending" /\ new.attempts = 0 /\ new.chat = To(d)
    BY <2>2, <2>5 DEF Row
  <2> HIDE DEF new, Queued
  <2> QED BY <2>3, <2>4, <2>6
<1>4. ASSUME NEW d \in Deliveries, row[d].status # "absent"
      PROVE  Event(d) # e /\ row'[d] = row[d]
  BY <1>3, <1>4
<1>5. TypeOK'
  <2>1. row' \in [Deliveries -> Row]
    BY <1>2, <1>3 DEF IInvOutcome, TypeOK
  <2>2. notice' \in [Events -> [state: {"none", "open", "done"}, own: Chats \cup {None}]]
    BY <1>1 DEF IInvOutcome, TypeOK
  <2> QED BY <1>1, <2>1, <2>2 DEF IInvOutcome, TypeOK
<1>6. InHand'
  BY <1>1 DEF IInvOutcome, InHand
<1>7. QueuedByEvent'
  <2>1. notice'[e].state = "done" /\ \A f \in Events : f # e => notice'[f] = notice[f]
    BY <1>1 DEF IInvOutcome, TypeOK
  <2> QED BY <1>3, <2>1 DEF IInvOutcome, QueuedByEvent, Event, Deliveries
<1>8. OutcomeHasCause'
  BY <1>1, <1>3 DEF IInvOutcome, OutcomeHasCause
<1>9. OneMessagePerChat'
  <2> SUFFICES ASSUME NEW d1 \in Deliveries, NEW d2 \in Deliveries,
                      d1 # d2, Event(d1) = Event(d2),
                      row'[d1].status # "absent", row'[d2].status # "absent"
               PROVE  row'[d1].chat # row'[d2].chat
    BY DEF OneMessagePerChat
  <2>1. CASE Event(d1) # e
    <3>1. row'[d1] = row[d1] /\ row'[d2] = row[d2]
      BY <1>3, <2>1
    <3> QED BY <3>1 DEF IInvOutcome, OneMessagePerChat
  <2>2. CASE Event(d1) = e
    <3>1. /\ Queued(d1) /\ row'[d1].chat = To(d1)
          /\ Queued(d2) /\ row'[d2].chat = To(d2)
      BY <1>3, <2>2
    <3>2. d1[2] # d2[2] /\ d1[2] \in Recipients /\ d2[2] \in Recipients
      BY DEF Event, Deliveries
    <3>3. \A p \in S : p # Student /\ link[p] \in ParentChats(own) /\ link[p] # own
      BY <1>2 DEF OneEach, ParentChats
    <3>4. \A p, q \in S : link[p] = link[q] => p = q
      BY <1>2 DEF OneEach
    <3> HIDE DEF own
    <3> QED BY <3>1, <3>2, <3>3, <3>4
  <2> QED BY <2>1, <2>2
<1>10. Informed'
  <2> SUFFICES ASSUME NEW w \in Workers
               PROVE  InformedOf(worker[w])'
    BY DEF Informed
  <2>1. PICK x \in Worker : x = worker[w] /\ InHandOf(x) /\ InformedOf(x)
    BY DEF IInvOutcome, TypeOK, InHand, Informed
  <2>2. x.batch \subseteq Deliveries /\ (x.now # None => x.now \in x.batch)
    BY <2>1 DEF Worker, InHandOf
  <2>3. \A d \in x.batch : row'[d] = row[d]
    BY <1>4, <2>1, <2>2 DEF InformedOf
  <2>4. x.pc \in {"answered", "refused"} => row'[x.now] = row[x.now]
    BY <2>1, <2>2, <2>3 DEF InHandOf
  <2> QED BY <1>1, <2>1, <2>3, <2>4 DEF InformedOf
<1> QED BY <1>5, <1>6, <1>7, <1>8, <1>9, <1>10 DEF IInvOutcome

LEMMA OutcomeInit == ASSUME Init PROVE IInvOutcome
<1> USE LimitAssumption, NameAssumption
<1>1. NoRow \in Row
  BY DEF NoRow, Row
<1>2. IdleWorker \in Worker
  BY DEF IdleWorker, Worker
<1>3. TypeOK
  BY <1>1, <1>2 DEF Init, TypeOK
<1>4. \A w \in Workers : worker[w] = IdleWorker
  BY DEF Init
<1>5. \A d \in Deliveries : row[d] = NoRow
  BY DEF Init
<1>6. InHand /\ QueuedByEvent
  BY <1>4, <1>5 DEF InHand, InHandOf, QueuedByEvent, IdleWorker, NoRow
<1>7. Informed /\ OutcomeHasCause /\ OneMessagePerChat
  BY <1>4, <1>5 DEF Informed, InformedOf, OutcomeHasCause, OneMessagePerChat, IdleWorker, NoRow
<1> QED BY <1>3, <1>6, <1>7 DEF IInvOutcome

LEMMA OutcomeStep == ASSUME IInvOutcome, [Next]_vars PROVE IInvOutcome'
<1>1. CASE UNCHANGED vars
  <2>1. TypeOK' /\ QueuedByEvent'
    BY <1>1 DEF IInvOutcome, TypeOK, QueuedByEvent, vars
  <2> QED BY <1>1, <2>1, OutcomeUntouched DEF IInvOutcome, vars
<1>2. ASSUME NEW w \in Workers, Claim(w) \/ Sends(w) \/ Dies(w) PROVE IInvOutcome'
  BY <1>2, OutcomeClaim, OutcomeLoad, OutcomeSend, OutcomeRecord, OutcomeRefusal, OutcomeDeath DEF Claim, Sends
<1>3. ASSUME NEW e \in Events, NotifyRead(e) \/ NotifyCommit(e) \/ NotifyAbort(e)
      PROVE  IInvOutcome'
  BY <1>3, OutcomeNotice, OutcomeQueue
<1>4. ASSUME NEW d \in Deliveries, FallsDue(d) PROVE IInvOutcome'
  BY <1>4, OutcomeDue
<1> QED BY <1>1, <1>2, <1>3, <1>4, OutcomeChat DEF Next

(***************************************************************************)
(* What a worker knows of a row stays true while others send, settle or    *)
(* claim the same row: no lease is assumed.                                *)
(***************************************************************************)
THEOREM OutcomeInvariant == Spec => []IInvOutcome
<1> QED BY OutcomeInit, OutcomeStep, PTL DEF Spec

(***************************************************************************)
(* Sent means shown, failed means tried MAX_ATTEMPTS times or refused      *)
(* (_record_failure, _record_refusal), also when batches overrun the lease.*)
(***************************************************************************)
THEOREM OutcomesAreCaused == Spec => []OutcomeHasCause
<1>1. IInvOutcome => OutcomeHasCause
  BY DEF IInvOutcome
<1> QED BY <1>1, OutcomeInvariant, PTL

(***************************************************************************)
(* One event never puts two messages into one chat (notify_student), for   *)
(* any family sharing any phones, also when links move meanwhile.          *)
(***************************************************************************)
THEOREM OneMessageEach == Spec => []OneMessagePerChat
<1>1. IInvOutcome => OneMessagePerChat
  BY DEF IInvOutcome
<1> QED BY <1>1, OutcomeInvariant, PTL

-----------------------------------------------------------------------------
(* Counting holders and showings *)

One(p) == IF p THEN 1 ELSE 0

\* Two sets of workers that differ in w at most.
LEMMA CardMoves ==
  ASSUME NEW A \in SUBSET Workers, NEW B \in SUBSET Workers, NEW w \in Workers,
         \A v \in Workers : v # w => (v \in A <=> v \in B)
  PROVE  /\ Cardinality(A) \in Nat /\ Cardinality(B) \in Nat
         /\ Cardinality(B) + One(w \in A) = Cardinality(A) + One(w \in B)
<1>1. IsFiniteSet(A) /\ IsFiniteSet(B)
  BY WorkersAssumption, FS_Subset
<1>2. Cardinality(A) \in Nat /\ Cardinality(B) \in Nat
  BY <1>1, FS_CardinalityType
<1>3. CASE w \in A /\ w \notin B
  <2>1. A = B \cup {w}
    BY <1>3
  <2>2. Cardinality(A) = Cardinality(B) + 1
    BY <1>1, <1>3, <2>1, FS_AddElement
  <2> QED BY <1>2, <1>3, <2>2 DEF One
<1>4. CASE w \notin A /\ w \in B
  <2>1. B = A \cup {w}
    BY <1>4
  <2>2. Cardinality(B) = Cardinality(A) + 1
    BY <1>1, <1>4, <2>1, FS_AddElement
  <2> QED BY <1>2, <1>4, <2>2 DEF One
<1>5. CASE w \in A <=> w \in B
  <2>1. A = B
    BY <1>5
  <2> QED BY <1>2, <1>5, <2>1 DEF One
<1> QED BY <1>2, <1>3, <1>4, <1>5

\* How the three counts of a row move when one worker does.
LEMMA CountMoves ==
  ASSUME TypeOK, NEW w \in Workers, NEW q, worker' = [worker EXCEPT ![w] = q],
         NEW d \in Deliveries
  PROVE  /\ Cardinality(Holders(d)) \in Nat /\ Cardinality(Holders(d)') \in Nat
         /\ Cardinality(Awaiting(d)) \in Nat /\ Cardinality(Awaiting(d)') \in Nat
         /\ Cardinality(Unrecorded(d)) \in Nat /\ Cardinality(Unrecorded(d)') \in Nat
         /\ Cardinality(Holders(d)') + One(d \in worker[w].batch)
              = Cardinality(Holders(d)) + One(d \in q.batch)
         /\ Cardinality(Awaiting(d)') + One(Awaits(worker[w], d))
              = Cardinality(Awaiting(d)) + One(Awaits(q, d))
         /\ Cardinality(Unrecorded(d)') + One(Unsaved(worker[w], d))
              = Cardinality(Unrecorded(d)) + One(Unsaved(q, d))
<1>1. worker'[w] = q /\ \A v \in Workers : v # w => worker'[v] = worker[v]
  BY DEF TypeOK
<1>2. /\ Cardinality(Holders(d)) \in Nat /\ Cardinality(Holders(d)') \in Nat
      /\ Cardinality(Holders(d)') + One(d \in worker[w].batch)
              = Cardinality(Holders(d)) + One(d \in q.batch)
  <2>1. /\ Holders(d) \in SUBSET Workers /\ Holders(d)' \in SUBSET Workers
        /\ \A v \in Workers : v # w => (v \in Holders(d) <=> v \in Holders(d)')
        /\ w \in Holders(d) <=> d \in worker[w].batch
        /\ w \in Holders(d)' <=> d \in q.batch
    BY <1>1 DEF Holders
  <2>2. /\ Cardinality(Holders(d)) \in Nat /\ Cardinality(Holders(d)') \in Nat
        /\ Cardinality(Holders(d)') + One(w \in Holders(d))
              = Cardinality(Holders(d)) + One(w \in Holders(d)')
    BY <2>1, CardMoves
  <2> QED BY <2>1, <2>2 DEF One
<1>3. /\ Cardinality(Awaiting(d)) \in Nat /\ Cardinality(Awaiting(d)') \in Nat
      /\ Cardinality(Awaiting(d)') + One(Awaits(worker[w], d))
              = Cardinality(Awaiting(d)) + One(Awaits(q, d))
  <2>1. /\ Awaiting(d) \in SUBSET Workers /\ Awaiting(d)' \in SUBSET Workers
        /\ \A v \in Workers : v # w => (v \in Awaiting(d) <=> v \in Awaiting(d)')
        /\ w \in Awaiting(d) <=> Awaits(worker[w], d)
        /\ w \in Awaiting(d)' <=> Awaits(q, d)
    BY <1>1 DEF Awaiting, Awaits
  <2>2. /\ Cardinality(Awaiting(d)) \in Nat /\ Cardinality(Awaiting(d)') \in Nat
        /\ Cardinality(Awaiting(d)') + One(w \in Awaiting(d))
              = Cardinality(Awaiting(d)) + One(w \in Awaiting(d)')
    BY <2>1, CardMoves
  <2> QED BY <2>1, <2>2 DEF One
<1>4. /\ Cardinality(Unrecorded(d)) \in Nat /\ Cardinality(Unrecorded(d)') \in Nat
      /\ Cardinality(Unrecorded(d)') + One(Unsaved(worker[w], d))
              = Cardinality(Unrecorded(d)) + One(Unsaved(q, d))
  <2>1. /\ Unrecorded(d) \in SUBSET Workers /\ Unrecorded(d)' \in SUBSET Workers
        /\ \A v \in Workers : v # w => (v \in Unrecorded(d) <=> v \in Unrecorded(d)')
        /\ w \in Unrecorded(d) <=> Unsaved(worker[w], d)
        /\ w \in Unrecorded(d)' <=> Unsaved(q, d)
    BY <1>1 DEF Unrecorded, Unsaved
  <2>2. /\ Cardinality(Unrecorded(d)) \in Nat /\ Cardinality(Unrecorded(d)') \in Nat
        /\ Cardinality(Unrecorded(d)') + One(w \in Unrecorded(d))
              = Cardinality(Unrecorded(d)) + One(w \in Unrecorded(d)')
    BY <2>1, CardMoves
  <2> QED BY <2>1, <2>2 DEF One
<1> QED BY <1>2, <1>3, <1>4

\* Nobody holds a row that does not exist; with no holder the counts are zero.
LEMMA NoHolder ==
  ASSUME IInvOutcome, NEW d \in Deliveries
  PROVE  /\ row[d].status = "absent" => Holders(d) = {}
         /\ Holders(d) = {} => /\ Cardinality(Holders(d)) = 0
                               /\ Cardinality(Awaiting(d)) = 0
                               /\ Cardinality(Unrecorded(d)) = 0
         /\ Cardinality(Holders(d)) = 0 => Holders(d) = {}
<1>1. row[d].status = "absent" => Holders(d) = {}
  BY DEF IInvOutcome, Informed, InformedOf, Holders
<1>2. IsFiniteSet(Holders(d))
  BY WorkersAssumption, FS_Subset DEF Holders
<1>3. Holders(d) = {} => Awaiting(d) = {}
  BY DEF Holders, Awaiting, Awaits
<1>4. Holders(d) = {} => Unrecorded(d) = {}
  <2>1. \A w \in Workers : worker[w].now = d => d \in worker[w].batch
    BY NameAssumption DEF IInvOutcome, InHand, InHandOf
  <2> QED BY <2>1 DEF Holders, Unrecorded, Unsaved
<1> QED BY <1>1, <1>2, <1>3, <1>4, FS_EmptySet

LEMMA Numbers ==
  ASSUME TypeOK, NEW d \in Deliveries
  PROVE  /\ got[d] \in Nat /\ lost[d] \in Nat /\ died[d] \in Nat /\ overran[d] \in Nat
         /\ row[d].attempts \in Nat /\ MAX_ATTEMPTS \in Nat \ {0}
         /\ Claimable(d) \in {0, 1}
  BY LimitAssumption DEF TypeOK, Row, Claimable

\* x becomes q: row d gains no holder and no showing it has not paid for.
KeepsCounts(x, q, d) ==
  /\ One(d \in q.batch) + Claimable(d)' <= One(d \in x.batch) + Claimable(d)
  /\ row'[d].status = "sent" =>
       \/ row[d].status = "sent" /\ (d \in q.batch => d \in x.batch)
       \/ d \in x.batch /\ d \notin q.batch
  /\ got'[d] + One(Awaits(q, d)) + Claimable(d)' + lost[d]
       <= got[d] + One(Awaits(x, d)) + Claimable(d) + lost'[d]
  /\ row'[d].status \in {"absent", "pending"} =>
       /\ row[d].status \in {"absent", "pending"}
       /\ got'[d] + lost[d] + One(Unsaved(x, d)) <= got[d] + lost'[d] + One(Unsaved(q, d))

LEMMA MoveCounts ==
  ASSUME IInv, IInvOutcome', NEW w \in Workers, NEW q, worker' = [worker EXCEPT ![w] = q],
         UNCHANGED overran,
         \A d \in Deliveries : KeepsCounts(worker[w], q, d)
  PROVE  Leases' /\ Accounted'
<1>1. TypeOK /\ TypeOK' /\ IInvOutcome
  BY DEF IInv, IInvOutcome
<1> DEFINE h(d) == Cardinality(Holders(d))  a(d) == Cardinality(Awaiting(d))
           u(d) == Cardinality(Unrecorded(d))
<1>2. Leases'
  <2> SUFFICES ASSUME NEW d \in Deliveries
               PROVE  /\ h(d)' + Claimable(d)' <= 1 + overran'[d]
                      /\ row'[d].status = "sent" /\ overran'[d] = 0 => Holders(d)' = {}
    BY DEF Leases
  <2>1. /\ h(d) \in Nat /\ h(d)' \in Nat
        /\ h(d)' + One(d \in worker[w].batch) = h(d) + One(d \in q.batch)
    BY <1>1, CountMoves
  <2>2. /\ One(d \in q.batch) \in {0, 1} /\ One(d \in worker[w].batch) \in {0, 1}
        /\ Claimable(d) \in {0, 1} /\ Claimable(d)' \in {0, 1} /\ overran[d] \in Nat
    BY <1>1, Numbers DEF One, Claimable
  <2>3. /\ h(d) + Claimable(d) <= 1 + overran[d]
        /\ row[d].status = "sent" /\ overran[d] = 0 => Holders(d) = {}
    BY DEF IInv, Leases
  <2>4. /\ One(d \in q.batch) + Claimable(d)' <= One(d \in worker[w].batch) + Claimable(d)
        /\ row'[d].status = "sent" =>
             \/ row[d].status = "sent" /\ (d \in q.batch => d \in worker[w].batch)
             \/ d \in worker[w].batch /\ d \notin q.batch
    BY DEF KeepsCounts
  <2>5. h(d)' + Claimable(d)' <= 1 + overran[d]
    BY <2>1, <2>2, <2>3, <2>4
  <2>6. ASSUME row'[d].status = "sent", overran[d] = 0 PROVE Holders(d)' = {}
    <3>1. CASE row[d].status = "sent" /\ (d \in q.batch => d \in worker[w].batch)
      <4>1. Holders(d) = {} /\ d \notin worker[w].batch /\ d \notin q.batch
        BY <2>3, <2>6, <3>1 DEF Holders
      <4>2. \A v \in Workers : d \notin worker'[v].batch
        BY <1>1, <4>1 DEF TypeOK, Holders
      <4> QED BY <4>2 DEF Holders
    <3>2. CASE d \in worker[w].batch /\ d \notin q.batch
      <4>1. h(d)' = 0
        BY <2>1, <2>2, <2>3, <2>6, <3>2 DEF One
      <4>2. (Cardinality(Holders(d)) = 0 => Holders(d) = {})'
        <5>1. IsFiniteSet(Holders(d)')
          BY WorkersAssumption, FS_Subset DEF Holders
        <5> QED BY <5>1, FS_EmptySet
      <4> QED BY <4>1, <4>2
    <3> QED BY <2>4, <2>6, <3>1, <3>2
  <2> QED BY <2>5, <2>6
<1>3. Accounted'
  <2> SUFFICES ASSUME NEW d \in Deliveries
               PROVE  /\ got'[d] + a(d)' + Claimable(d)' <= 1 + lost'[d] + overran'[d]
                      /\ row'[d].status \in {"absent", "pending"} => got'[d] <= lost'[d] + u(d)'
    BY DEF Accounted
  <2>1. /\ a(d) \in Nat /\ a(d)' \in Nat /\ u(d) \in Nat /\ u(d)' \in Nat
        /\ a(d)' + One(Awaits(worker[w], d)) = a(d) + One(Awaits(q, d))
        /\ u(d)' + One(Unsaved(worker[w], d)) = u(d) + One(Unsaved(q, d))
    BY <1>1, CountMoves
  <2>2. /\ One(Awaits(worker[w], d)) \in {0, 1} /\ One(Awaits(q, d)) \in {0, 1}
        /\ One(Unsaved(worker[w], d)) \in {0, 1} /\ One(Unsaved(q, d)) \in {0, 1}
    BY DEF One
  <2>3. /\ got[d] \in Nat /\ lost[d] \in Nat /\ got'[d] \in Nat /\ lost'[d] \in Nat
        /\ Claimable(d) \in {0, 1} /\ Claimable(d)' \in {0, 1} /\ overran[d] \in Nat
    BY <1>1, Numbers DEF TypeOK, Claimable
  <2>4. /\ got[d] + a(d) + Claimable(d) <= 1 + lost[d] + overran[d]
        /\ row[d].status \in {"absent", "pending"} => got[d] <= lost[d] + u(d)
    BY DEF IInv, Accounted
  <2>5. /\ got'[d] + One(Awaits(q, d)) + Claimable(d)' + lost[d]
             <= got[d] + One(Awaits(worker[w], d)) + Claimable(d) + lost'[d]
        /\ row'[d].status \in {"absent", "pending"} =>
             /\ row[d].status \in {"absent", "pending"}
             /\ got'[d] + lost[d] + One(Unsaved(worker[w], d))
                  <= got[d] + lost'[d] + One(Unsaved(q, d))
    BY DEF KeepsCounts
  <2> HIDE DEF a, u
  <2>6. got'[d] + a(d)' + Claimable(d)' <= 1 + lost'[d] + overran[d]
    BY <2>1, <2>2, <2>3, <2>4, <2>5
  <2>7. ASSUME row'[d].status \in {"absent", "pending"} PROVE got'[d] <= lost'[d] + u(d)'
    BY <2>1, <2>2, <2>3, <2>4, <2>5, <2>7
  <2> QED BY <2>6, <2>7
<1> QED BY <1>2, <1>3

\* x becomes q and claims nothing: if it made the last claim of a row that stays
\* pending, it still holds it, or it died, or there was an attempt left.
KeepsLatest(x, q, d) ==
  /\ row'[d].attempts = row[d].attempts
  /\ died'[d] \in {died[d], died[d] + 1}
  /\ row'[d].status = "pending" =>
       /\ row[d].status = "pending" /\ (row'[d].due => row[d].due)
       /\ \/ Latest(x, d) => Latest(q, d)
          \/ died'[d] = died[d] + 1
          \/ row[d].attempts < MAX_ATTEMPTS

LEMMA MoveRetries ==
  ASSUME IInv, IInvOutcome', NEW w \in Workers, NEW q, worker' = [worker EXCEPT ![w] = q],
         UNCHANGED overran,
         \A d \in Deliveries : KeepsLatest(worker[w], q, d)
  PROVE  Retries'
<1>1. TypeOK /\ worker'[w] = q /\ \A v \in Workers : v # w => worker'[v] = worker[v]
  BY DEF IInv, IInvOutcome, TypeOK
<1> SUFFICES ASSUME NEW d \in Deliveries
             PROVE  /\ row'[d].attempts <= MAX_ATTEMPTS + died'[d] + overran'[d]
                    /\ row'[d].status = "pending" =>
                         \/ row'[d].attempts < MAX_ATTEMPTS + died'[d] + overran'[d]
                         \/ ~row'[d].due /\ \E v \in Workers : Latest(worker[v], d)'
  BY DEF Retries, Latest
<1>2. /\ died[d] \in Nat /\ overran[d] \in Nat /\ row[d].attempts \in Nat
      /\ MAX_ATTEMPTS \in Nat
  BY <1>1, Numbers
<1>3. /\ row[d].attempts <= MAX_ATTEMPTS + died[d] + overran[d]
      /\ row[d].status = "pending" =>
           \/ row[d].attempts < MAX_ATTEMPTS + died[d] + overran[d]
           \/ ~row[d].due /\ \E v \in Workers : Latest(worker[v], d)
  BY DEF IInv, Retries
<1>4. /\ row'[d].attempts = row[d].attempts
      /\ died'[d] \in {died[d], died[d] + 1} /\ overran'[d] = overran[d]
  BY DEF KeepsLatest
<1>5. row'[d].attempts <= MAX_ATTEMPTS + died'[d] + overran'[d]
  BY <1>2, <1>3, <1>4
<1>6. ASSUME row'[d].status = "pending"
      PROVE  \/ row'[d].attempts < MAX_ATTEMPTS + died'[d] + overran'[d]
             \/ ~row'[d].due /\ \E v \in Workers : Latest(worker[v], d)'
  <2>1. /\ row[d].status = "pending" /\ (row'[d].due => row[d].due)
        /\ \/ Latest(worker[w], d) => Latest(q, d)
           \/ died'[d] = died[d] + 1
           \/ row[d].attempts < MAX_ATTEMPTS
    BY <1>6 DEF KeepsLatest
  <2>2. CASE row[d].attempts < MAX_ATTEMPTS + died[d] + overran[d]
    BY <1>2, <1>4, <2>2
  <2>3. CASE died'[d] = died[d] + 1
    BY <1>2, <1>3, <1>4, <2>3
  <2>4. CASE row[d].attempts < MAX_ATTEMPTS
    BY <1>2, <1>4, <2>4
  <2>5. ASSUME NEW v \in Workers, ~row[d].due, Latest(worker[v], d),
               Latest(worker[w], d) => Latest(q, d)
        PROVE  ~row'[d].due /\ \E u \in Workers : Latest(worker[u], d)'
    <3>1. CASE v = w
      BY <1>1, <1>4, <2>1, <2>5, <3>1 DEF Latest
    <3>2. CASE v # w
      BY <1>1, <1>4, <2>1, <2>5, <3>2 DEF Latest
    <3> QED BY <3>1, <3>2
  <2> QED BY <1>3, <2>1, <2>2, <2>3, <2>4, <2>5
<1> QED BY <1>5, <1>6

-----------------------------------------------------------------------------
(* The counts, step by step *)

CountsHold == Leases /\ Accounted /\ Retries

LEMMA RestCounts ==
  ASSUME IInv, UNCHANGED <<row, worker, got, lost, died, overran>>
  PROVE  CountsHold'
<1>1. \A d \in Deliveries :
        /\ Holders(d)' = Holders(d) /\ Awaiting(d)' = Awaiting(d)
        /\ Unrecorded(d)' = Unrecorded(d) /\ Claimable(d)' = Claimable(d)
        /\ \A w \in Workers : Latest(worker[w], d)' <=> Latest(worker[w], d)
  BY DEF Holders, Awaiting, Awaits, Unrecorded, Unsaved, Claimable, Latest
<1>2. Leases' /\ Accounted'
  BY <1>1 DEF IInv, Leases, Accounted
<1>3. Retries'
  BY <1>1 DEF IInv, Retries
<1> QED BY <1>2, <1>3 DEF CountsHold

\* Queued rows are new: nobody holds them and nothing was shown.
LEMMA QueueCounts ==
  ASSUME IInv, IInvOutcome', NEW e \in Events, NotifyCommit(e)
  PROVE  CountsHold'
<1> DEFINE own == notice[e].own
<1>1. /\ UNCHANGED <<worker, got, lost, died, overran>> /\ notice[e].state = "open"
      /\ \E S \in SUBSET Parents :
           row' = [d \in Deliveries |->
            IF Event(d) = e /\ (d[2] \in S \/ (d[2] = Student /\ own # None))
            THEN [NoRow EXCEPT !.status = "pending", !.due = TRUE,
                               !.chat = IF d[2] = Student THEN own ELSE link[d[2]]]
            ELSE row[d]]
  BY DEF NotifyCommit, history
<1>2. IInvOutcome /\ TypeOK
  BY DEF IInv, IInvOutcome
<1>3. ASSUME NEW d \in Deliveries
      PROVE  \/ row'[d] = row[d]
             \/ /\ row[d].status = "absent" /\ row'[d].status = "pending"
                /\ row'[d].attempts = 0 /\ Holders(d) = {}
  <2>1. Event(d) = e => row[d].status = "absent"
    BY <1>1 DEF IInv, IInvOutcome, QueuedByEvent
  <2> DEFINE c == IF d[2] = Student THEN own ELSE link[d[2]]
             new == [NoRow EXCEPT !.status = "pending", !.due = TRUE, !.chat = c]
  <2>2. row'[d] = row[d] \/ (Event(d) = e /\ row'[d] = new)
    BY <1>1
  <2> HIDE DEF c
  <2>3. new.status = "pending" /\ new.attempts = 0
    BY DEF NoRow
  <2> HIDE DEF new
  <2> QED BY <1>2, <2>1, <2>2, <2>3, NoHolder
<1>4. \A d \in Deliveries : /\ Holders(d)' = Holders(d) /\ Awaiting(d)' = Awaiting(d)
                            /\ Unrecorded(d)' = Unrecorded(d)
  BY <1>1 DEF Holders, Awaiting, Awaits, Unrecorded, Unsaved
<1>5. ASSUME NEW d \in Deliveries
      PROVE  /\ Cardinality(Holders(d)) + Claimable(d)' <= 1 + overran[d]
             /\ row'[d].status = "sent" /\ overran[d] = 0 => Holders(d) = {}
             /\ got[d] + Cardinality(Awaiting(d)) + Claimable(d)' <= 1 + lost[d] + overran[d]
             /\ row'[d].status \in {"absent", "pending"} =>
                  got[d] <= lost[d] + Cardinality(Unrecorded(d))
             /\ row'[d].attempts <= MAX_ATTEMPTS + died[d] + overran[d]
             /\ row'[d].status = "pending" =>
                  \/ row'[d].attempts < MAX_ATTEMPTS + died[d] + overran[d]
                  \/ ~row'[d].due /\ \E w \in Workers : Latest(worker[w], d)'
  <2>1. CASE row'[d] = row[d]
    <3>1. /\ Claimable(d)' = Claimable(d)
          /\ \A w \in Workers : Latest(worker[w], d) => Latest(worker[w], d)'
      BY <1>1, <2>1 DEF Claimable, Latest
    <3> QED BY <2>1, <3>1 DEF IInv, Leases, Accounted, Retries
  <2>2. CASE /\ row[d].status = "absent" /\ row'[d].status = "pending"
             /\ row'[d].attempts = 0 /\ Holders(d) = {}
    <3>1. /\ Cardinality(Holders(d)) = 0 /\ Cardinality(Awaiting(d)) = 0
          /\ Cardinality(Unrecorded(d)) = 0
      BY <1>2, <2>2, NoHolder
    <3>2. /\ got[d] \in Nat /\ lost[d] \in Nat /\ died[d] \in Nat /\ overran[d] \in Nat
          /\ MAX_ATTEMPTS \in Nat \ {0} /\ Claimable(d)' \in {0, 1}
      BY <1>2, Numbers DEF Claimable
    <3>3. got[d] <= lost[d]
      BY <2>2, <3>1, <3>2 DEF IInv, Accounted
    <3> QED BY <2>2, <3>1, <3>2, <3>3
  <2> QED BY <1>3, <2>1, <2>2
<1>6. Leases' /\ Accounted'
  BY <1>1, <1>4, <1>5 DEF Leases, Accounted
<1>7. Retries'
  BY <1>1, <1>5 DEF Retries
<1> QED BY <1>6, <1>7 DEF CountsHold

\* A row nobody holds falls due on the account of the showing it lost, any other
\* on the account of the overrun.
LEMMA DueCounts ==
  ASSUME IInv, NEW d \in Deliveries, FallsDue(d)
  PROVE  CountsHold'
<1>1. /\ UNCHANGED <<worker, got, lost, died>>
      /\ row[d].status = "pending" /\ ~row[d].due /\ row' = [row EXCEPT ![d].due = TRUE]
      /\ \/ Holders(d) = {} /\ overran' = overran
         \/ Holders(d) # {} /\ overran' = [overran EXCEPT ![d] = @ + 1]
  BY DEF FallsDue
<1>2. IInvOutcome /\ TypeOK
  BY DEF IInv, IInvOutcome
<1>3. \A c \in Deliveries : /\ Holders(c)' = Holders(c) /\ Awaiting(c)' = Awaiting(c)
                            /\ Unrecorded(c)' = Unrecorded(c)
  BY <1>1 DEF Holders, Awaiting, Awaits, Unrecorded, Unsaved
<1>4. /\ row'[d].status = "pending" /\ row'[d].attempts = row[d].attempts
      /\ Claimable(d) = 0 /\ Claimable(d)' = 1
      /\ \A c \in Deliveries : c # d => row'[c] = row[c] /\ overran'[c] = overran[c]
      /\ overran'[d] = IF Holders(d) = {} THEN overran[d] ELSE overran[d] + 1
  BY <1>1, <1>2 DEF TypeOK, Row, Claimable
<1>5. ASSUME NEW c \in Deliveries
      PROVE  /\ Cardinality(Holders(c)) + Claimable(c)' <= 1 + overran'[c]
             /\ row'[c].status = "sent" /\ overran'[c] = 0 => Holders(c) = {}
             /\ got[c] + Cardinality(Awaiting(c)) + Claimable(c)' <= 1 + lost[c] + overran'[c]
             /\ row'[c].status \in {"absent", "pending"} =>
                  got[c] <= lost[c] + Cardinality(Unrecorded(c))
             /\ row'[c].attempts <= MAX_ATTEMPTS + died[c] + overran'[c]
             /\ row'[c].status = "pending" =>
                  \/ row'[c].attempts < MAX_ATTEMPTS + died[c] + overran'[c]
                  \/ ~row'[c].due /\ \E w \in Workers : Latest(worker[w], c)'
  <2>1. CASE c # d
    <3>1. /\ row'[c] = row[c] /\ overran'[c] = overran[c] /\ Claimable(c)' = Claimable(c)
          /\ \A w \in Workers : Latest(worker[w], c) => Latest(worker[w], c)'
      BY <1>1, <1>4, <2>1 DEF Claimable, Latest
    <3> QED BY <3>1 DEF IInv, Leases, Accounted, Retries
  <2>2. CASE c = d
    <3>1. /\ got[d] \in Nat /\ lost[d] \in Nat /\ died[d] \in Nat /\ overran[d] \in Nat
          /\ row[d].attempts \in Nat /\ MAX_ATTEMPTS \in Nat
      BY <1>2, Numbers
    <3>2. Cardinality(Holders(d)) \in Nat /\ Cardinality(Awaiting(d)) \in Nat
      <4>1. IsFiniteSet(Holders(d)) /\ IsFiniteSet(Awaiting(d))
        BY WorkersAssumption, FS_Subset DEF Holders, Awaiting
      <4> QED BY <4>1, FS_CardinalityType
    <3>3. /\ Cardinality(Holders(d)) <= 1 + overran[d]
          /\ got[d] + Cardinality(Awaiting(d)) <= 1 + lost[d] + overran[d]
          /\ got[d] <= lost[d] + Cardinality(Unrecorded(d))
      BY <1>1, <1>4, <3>1, <3>2 DEF IInv, Leases, Accounted
    <3>4. /\ row[d].attempts <= MAX_ATTEMPTS + died[d] + overran[d]
          /\ \/ row[d].attempts < MAX_ATTEMPTS + died[d] + overran[d]
             \/ \E w \in Workers : Latest(worker[w], d)
      BY <1>1 DEF IInv, Retries
    <3>5. CASE Holders(d) = {}
      <4>1. /\ Cardinality(Holders(d)) = 0 /\ Cardinality(Awaiting(d)) = 0
            /\ Cardinality(Unrecorded(d)) = 0
        BY <1>2, <3>5, NoHolder
      <4>2. row[d].attempts < MAX_ATTEMPTS + died[d] + overran[d]
        BY <3>4, <3>5 DEF Latest, Holders
      <4> QED BY <1>4, <2>2, <3>1, <3>3, <3>5, <4>1, <4>2
    <3>6. CASE Holders(d) # {}
      BY <1>4, <2>2, <3>1, <3>2, <3>3, <3>4, <3>6
    <3> QED BY <3>5, <3>6
  <2> QED BY <2>1, <2>2
<1>6. Leases' /\ Accounted'
  BY <1>1, <1>3, <1>5 DEF Leases, Accounted
<1>7. Retries'
  BY <1>1, <1>5 DEF Retries
<1> QED BY <1>6, <1>7 DEF CountsHold

\* A claim takes the one due time of a row and makes one holder of it.
LEMMA ClaimCounts ==
  ASSUME IInv, IInvOutcome', NEW w \in Workers, NEW ids \in SUBSET Due, ClaimSet(w, ids)
  PROVE  CountsHold'
<1> DEFINE q == [worker[w] EXCEPT !.pc = "claimed", !.batch = ids]
<1>1. /\ UNCHANGED <<got, lost, died, overran>> /\ worker[w].pc = "idle"
      /\ row' = [d \in Deliveries |-> IF d \in ids THEN Leased(row[d]) ELSE row[d]]
      /\ worker' = [worker EXCEPT ![w].pc = "claimed", ![w].batch = ids]
  BY DEF ClaimSet, history
<1>2. IInvOutcome /\ TypeOK
  BY DEF IInv, IInvOutcome
<1>3. worker[w] \in Worker /\ worker[w].batch = {} /\ worker[w].now = None
  BY <1>1, <1>2 DEF IInvOutcome, TypeOK, InHand, InHandOf
<1>4. /\ q.pc = "claimed" /\ q.batch = ids /\ q.now = None
      /\ worker' = [worker EXCEPT ![w] = q]
  BY <1>1, <1>2, <1>3 DEF TypeOK, Worker
<1> HIDE DEF q
<1>5. ASSUME NEW d \in Deliveries
      PROVE  /\ d \notin ids => row'[d] = row[d] /\ Claimable(d)' = Claimable(d)
             /\ d \in ids => /\ row[d].status = "pending" /\ row'[d].status = "pending"
                             /\ ~row'[d].due /\ Claimable(d) = 1 /\ Claimable(d)' = 0
                             /\ row[d].due /\ row'[d].attempts = row[d].attempts + 1
  <2>1. d \notin ids => row'[d] = row[d]
    BY <1>1
  <2>2. ASSUME d \in ids
        PROVE  /\ row[d].status = "pending" /\ row[d].due /\ row'[d].status = "pending"
               /\ ~row'[d].due /\ row'[d].attempts = row[d].attempts + 1
    BY <1>1, <1>2, <2>2 DEF Due, Leased, TypeOK, Row
  <2> QED BY <2>1, <2>2 DEF Claimable
<1>6. \A d \in Deliveries :
        /\ Awaits(q, d) <=> d \in ids
        /\ ~Awaits(worker[w], d) /\ ~Unsaved(worker[w], d) /\ ~Unsaved(q, d)
  BY <1>3, <1>4, NameAssumption DEF Awaits, Unsaved
<1>7. Leases' /\ Accounted'
  <2>1. ASSUME NEW d \in Deliveries
        PROVE  KeepsCounts(worker[w], q, d)
    <3>1. /\ got[d] \in Nat /\ lost[d] \in Nat /\ Claimable(d) \in {0, 1}
          /\ got'[d] = got[d] /\ lost'[d] = lost[d]
      BY <1>1, <1>2, Numbers
    <3>2. CASE d \in ids
      BY <1>3, <1>4, <1>5, <1>6, <3>1, <3>2 DEF One, KeepsCounts
    <3>3. CASE d \notin ids
      BY <1>3, <1>4, <1>5, <1>6, <3>1, <3>3 DEF One, KeepsCounts
    <3> QED BY <3>2, <3>3
  <2>2. worker' = [worker EXCEPT ![w] = q] /\ UNCHANGED overran
    BY <1>1, <1>4
  <2> QED BY <2>1, <2>2, MoveCounts
<1>8. Retries'
  <2> SUFFICES ASSUME NEW d \in Deliveries
               PROVE  /\ row'[d].attempts <= MAX_ATTEMPTS + died[d] + overran[d]
                      /\ row'[d].status = "pending" =>
                           \/ row'[d].attempts < MAX_ATTEMPTS + died[d] + overran[d]
                           \/ ~row'[d].due /\ \E v \in Workers : Latest(worker[v], d)'
    BY <1>1 DEF Retries
  <2>1. /\ died[d] \in Nat /\ overran[d] \in Nat /\ row[d].attempts \in Nat
        /\ MAX_ATTEMPTS \in Nat
    BY <1>2, Numbers
  <2>2. CASE d \in ids
    <3>1. row[d].attempts < MAX_ATTEMPTS + died[d] + overran[d]
      BY <1>5, <2>2 DEF IInv, Retries
    <3>2. worker'[w].pc = "claimed" /\ d \in worker'[w].batch
      BY <1>2, <1>4, <2>2 DEF TypeOK
    <3>3. Latest(worker[w], d)'
      BY <3>2 DEF Latest
    <3> QED BY <1>5, <2>1, <2>2, <3>1, <3>3
  <2>3. CASE d \notin ids
    <3>1. row'[d] = row[d]
      BY <1>5, <2>3
    <3>2. ASSUME NEW v \in Workers, Latest(worker[v], d) PROVE Latest(worker[v], d)'
      <4>1. v # w
        BY <1>3, <3>2 DEF Latest
      <4>2. worker'[v] = worker[v]
        BY <1>2, <1>4, <4>1 DEF TypeOK
      <4> QED BY <3>1, <3>2, <4>2 DEF Latest
    <3> QED BY <3>1, <3>2 DEF IInv, Retries
  <2> QED BY <2>2, <2>3
<1> QED BY <1>7, <1>8 DEF CountsHold

LEMMA LoadCounts ==
  ASSUME IInv, IInvOutcome', NEW w \in Workers, Load(w)
  PROVE  CountsHold'
<1> DEFINE read == [d \in Deliveries |-> IF d \in worker[w].batch THEN row[d].attempts ELSE 0]
           q == [worker[w] EXCEPT !.pc = "sending", !.attempts = read]
<1>1. /\ UNCHANGED <<row, got, lost, died, overran>>
      /\ worker' = [worker EXCEPT ![w].pc = "sending", ![w].attempts = read]
  BY DEF Load, history
<1>2. IInvOutcome /\ TypeOK
  BY DEF IInv, IInvOutcome
<1>3. worker[w] \in Worker
  BY <1>2 DEF TypeOK
<1>4. /\ worker' = [worker EXCEPT ![w] = q] /\ q.batch = worker[w].batch
      /\ q.now = worker[w].now /\ q.answer = worker[w].answer /\ q.attempts = read
  BY <1>1, <1>2, <1>3 DEF TypeOK, Worker
<1> HIDE DEF q
<1>5. ASSUME NEW d \in Deliveries
      PROVE  /\ Claimable(d)' = Claimable(d)
             /\ Awaits(q, d) <=> Awaits(worker[w], d)
             /\ Unsaved(q, d) <=> Unsaved(worker[w], d)
             /\ Latest(worker[w], d) => Latest(q, d)
  BY <1>1, <1>4 DEF Claimable, Awaits, Unsaved, Latest
<1>6. \A d \in Deliveries : /\ got[d] \in Nat /\ lost[d] \in Nat /\ died[d] \in Nat
                            /\ Claimable(d) \in {0, 1}
  BY <1>2, Numbers
<1>7. Leases' /\ Accounted'
  <2>1. \A d \in Deliveries : KeepsCounts(worker[w], q, d)
    BY <1>1, <1>4, <1>5, <1>6 DEF One, KeepsCounts
  <2> QED BY <1>1, <1>4, <2>1, MoveCounts
<1>8. Retries'
  <2>1. \A d \in Deliveries : KeepsLatest(worker[w], q, d)
    BY <1>1, <1>5, <1>6 DEF KeepsLatest
  <2> QED BY <1>1, <1>4, <2>1, MoveRetries
<1> QED BY <1>7, <1>8 DEF CountsHold

LEMMA SendCounts ==
  ASSUME IInv, IInvOutcome', NEW w \in Workers, NEW d \in Deliveries, SendMessage(w, d)
  PROVE  CountsHold'
<1>1. /\ UNCHANGED <<row, died, overran>>
      /\ worker[w].pc = "sending" /\ d \in worker[w].batch
  BY DEF SendMessage
<1>2. PICK a \in {"ok", "error", "refused"} :
        /\ Answered(w, d, a)
        /\ \/ got' = got /\ lost' = lost /\ a # "ok"
           \/ got' = [got EXCEPT ![d] = @ + 1] /\ lost' = lost /\ a = "ok"
           \/ got' = [got EXCEPT ![d] = @ + 1] /\ lost' = [lost EXCEPT ![d] = @ + 1] /\ a # "ok"
  BY DEF SendMessage
<1> DEFINE q == [worker[w] EXCEPT !.pc = "answered", !.now = d, !.answer = a]
<1>3. IInvOutcome /\ TypeOK
  BY DEF IInv, IInvOutcome
<1>4. worker[w] \in Worker /\ worker[w].now = None
  BY <1>1, <1>3 DEF IInvOutcome, TypeOK, InHand, InHandOf
<1>5. /\ worker' = [worker EXCEPT ![w] = q] /\ q.batch = worker[w].batch
      /\ q.now = d /\ q.answer = a /\ q.attempts = worker[w].attempts
  BY <1>2, <1>3, <1>4 DEF Answered, TypeOK, Worker
<1> HIDE DEF q
<1>6. ASSUME NEW c \in Deliveries
      PROVE  /\ Claimable(c)' = Claimable(c)
             /\ Awaits(q, c) <=> c \in worker[w].batch /\ c # d
             /\ Awaits(worker[w], c) <=> c \in worker[w].batch
             /\ Unsaved(q, c) <=> c = d /\ a = "ok"
             /\ ~Unsaved(worker[w], c)
             /\ Latest(worker[w], c) => Latest(q, c)
  BY <1>1, <1>4, <1>5, NameAssumption DEF Claimable, Awaits, Unsaved, Latest
<1>7. ASSUME NEW c \in Deliveries
      PROVE  /\ got[c] \in Nat /\ lost[c] \in Nat /\ died[c] \in Nat
             /\ Claimable(c) \in {0, 1}
             /\ c # d => got'[c] = got[c] /\ lost'[c] = lost[c]
             /\ c = d => \/ got'[c] = got[c] /\ lost'[c] = lost[c] /\ a # "ok"
                         \/ got'[c] = got[c] + 1 /\ lost'[c] = lost[c] /\ a = "ok"
                         \/ got'[c] = got[c] + 1 /\ lost'[c] = lost[c] + 1 /\ a # "ok"
  <2>1. /\ got[c] \in Nat /\ lost[c] \in Nat /\ died[c] \in Nat /\ Claimable(c) \in {0, 1}
    BY <1>3, Numbers
  <2> QED BY <1>2, <1>3, <2>1 DEF TypeOK
<1>8. Leases' /\ Accounted'
  <2>1. ASSUME NEW c \in Deliveries
        PROVE  KeepsCounts(worker[w], q, c)
    <3>1. CASE c = d
      BY <1>1, <1>5, <1>6, <1>7, <3>1 DEF One, KeepsCounts
    <3>2. CASE c # d
      BY <1>1, <1>5, <1>6, <1>7, <3>2 DEF One, KeepsCounts
    <3> QED BY <3>1, <3>2
  <2> QED BY <1>1, <1>5, <2>1, MoveCounts
<1>9. Retries'
  <2>1. \A c \in Deliveries : KeepsLatest(worker[w], q, c)
    BY <1>1, <1>6, <1>7 DEF KeepsLatest
  <2> QED BY <1>1, <1>5, <2>1, MoveRetries
<1> QED BY <1>8, <1>9 DEF CountsHold

\* A worker's last write for the row in hand: it is settled or put off, and the
\* worker holds it no more.
LEMMA FinishCounts ==
  ASSUME IInv, IInvOutcome', NEW w \in Workers,
         worker[w].pc \in {"answered", "refused"}, Finished(w),
         UNCHANGED <<got, lost, died, overran>>,
         \A d \in Deliveries :
           /\ row'[d].attempts = row[d].attempts /\ (row'[d].due => row[d].due)
           /\ row'[d].status \in {"absent", "pending"} => row'[d].status = row[d].status
           /\ row'[d].status = "sent" => row[d].status = "sent" \/ d = worker[w].now
           /\ row'[d].status = "pending" /\ d = worker[w].now =>
                worker[w].answer # "ok" /\ worker[w].attempts[d] < MAX_ATTEMPTS
  PROVE  CountsHold'
<1> DEFINE n == worker[w].now
<1>1. IInvOutcome /\ TypeOK /\ InHand
  BY DEF IInv, IInvOutcome
<1>2. PICK q \in Worker :
           /\ worker' = [worker EXCEPT ![w] = q]
           /\ q.batch = worker[w].batch \ {n}
           /\ q.now = None /\ q.answer = "none" /\ q.pc # "claimed"
           /\ \A d \in q.batch : q.attempts[d] = worker[w].attempts[d]
  BY <1>1, FinishedShape
<1>3. worker[w] \in Worker /\ n \in worker[w].batch /\ n \in Deliveries
  BY <1>1 DEF TypeOK, InHand, InHandOf, Worker
<1>4. ASSUME NEW d \in Deliveries
      PROVE  /\ got[d] \in Nat /\ lost[d] \in Nat /\ died[d] \in Nat
             /\ Claimable(d) \in {0, 1} /\ Claimable(d)' \in {0, 1}
             /\ Claimable(d)' <= Claimable(d)
             /\ Awaits(q, d) <=> Awaits(worker[w], d)
             /\ ~Unsaved(q, d)
             /\ Unsaved(worker[w], d) => d = n /\ worker[w].answer = "ok"
  <2>1. /\ got[d] \in Nat /\ lost[d] \in Nat /\ died[d] \in Nat
    BY <1>1, Numbers
  <2>2. /\ Claimable(d) \in {0, 1} /\ Claimable(d)' \in {0, 1} /\ Claimable(d)' <= Claimable(d)
    BY DEF Claimable
  <2>3. /\ Awaits(q, d) <=> Awaits(worker[w], d)
        /\ ~Unsaved(q, d)
        /\ Unsaved(worker[w], d) => d = n /\ worker[w].answer = "ok"
    BY <1>2, NameAssumption DEF Awaits, Unsaved
  <2> QED BY <2>1, <2>2, <2>3
<1>5. Leases' /\ Accounted'
  <2>1. ASSUME NEW d \in Deliveries
        PROVE  KeepsCounts(worker[w], q, d)
    <3>1. One(d \in q.batch) + Claimable(d)' <= One(d \in worker[w].batch) + Claimable(d)
      BY <1>2, <1>4 DEF One
    <3>2. row'[d].status = "sent" =>
            \/ row[d].status = "sent" /\ (d \in q.batch => d \in worker[w].batch)
            \/ d \in worker[w].batch /\ d \notin q.batch
      BY <1>2, <1>3
    <3>3. got'[d] + One(Awaits(q, d)) + Claimable(d)' + lost[d]
            <= got[d] + One(Awaits(worker[w], d)) + Claimable(d) + lost'[d]
      BY <1>4 DEF One
    <3>4. ASSUME row'[d].status \in {"absent", "pending"}
          PROVE  /\ row[d].status \in {"absent", "pending"}
                 /\ got'[d] + lost[d] + One(Unsaved(worker[w], d))
                      <= got[d] + lost'[d] + One(Unsaved(q, d))
      <4>1. row[d].status = row'[d].status
        BY <3>4
      <4>2. d = n => row[d].status # "absent"
        BY <1>1, <1>3 DEF IInvOutcome, Informed, InformedOf
      <4>3. ~Unsaved(worker[w], d)
        BY <1>4, <3>4, <4>1, <4>2
      <4> QED BY <1>4, <3>4, <4>1, <4>3 DEF One
    <3> QED BY <3>1, <3>2, <3>3, <3>4 DEF KeepsCounts
  <2> QED BY <1>2, <2>1, MoveCounts
<1>6. Retries'
  <2>1. ASSUME NEW d \in Deliveries
        PROVE  KeepsLatest(worker[w], q, d)
    <3>1. CASE d = n
      <4>1. worker[w].pc # "claimed"
        OBVIOUS
      <4>2. Latest(worker[w], d) => worker[w].attempts[d] = row[d].attempts
        BY <4>1 DEF Latest
      <4> QED BY <3>1, <4>2 DEF KeepsLatest
    <3>2. CASE d # n
      BY <1>2, <3>2 DEF Latest, KeepsLatest
    <3> QED BY <3>1, <3>2
  <2>2. worker' = [worker EXCEPT ![w] = q]
    BY <1>2
  <2> QED BY <2>1, <2>2, MoveRetries
<1> QED BY <1>5, <1>6 DEF CountsHold

LEMMA RecordCounts ==
  ASSUME IInv, IInvOutcome', NEW w \in Workers,
         RecordSent(w) \/ RecordFailure(w) \/ DeactivateChat(w)
  PROVE  CountsHold'
<1> DEFINE n == worker[w].now
<1>1. /\ worker[w].pc \in {"answered", "refused"} /\ Finished(w)
      /\ UNCHANGED <<got, lost, died, overran>>
  BY DEF RecordSent, RecordFailure, DeactivateChat, history
<1>2. IInvOutcome /\ TypeOK
  BY DEF IInv, IInvOutcome
<1>3. /\ row \in [Deliveries -> Row] /\ n \in Deliveries
      /\ worker[w].attempts \in [Deliveries -> 0..MaxClaims]
      /\ worker[w].answer = "ok" => worker[w].pc = "answered"
  BY <1>1, <1>2 DEF IInvOutcome, TypeOK, InHand, InHandOf, Worker
<1>4. ASSUME NEW d \in Deliveries
      PROVE  /\ row'[d].attempts = row[d].attempts /\ (row'[d].due => row[d].due)
             /\ row'[d].status \in {"absent", "pending"} => row'[d].status = row[d].status
             /\ row'[d].status = "sent" => row[d].status = "sent" \/ d = n
             /\ row'[d].status = "pending" /\ d = n =>
                  worker[w].answer # "ok" /\ worker[w].attempts[d] < MAX_ATTEMPTS
  <2>1. row[d] \in Row
    BY <1>3
  <2>2. CASE RecordSent(w)
    <3>1. row'[d] = IF d = n THEN Sent(row[d]) ELSE row[d]
      BY <1>3, <2>2 DEF RecordSent
    <3>2. /\ Sent(row[d]).status = "sent" /\ Sent(row[d]).attempts = row[d].attempts
          /\ Sent(row[d]).due = row[d].due
      BY <2>1 DEF Sent, Row
    <3> QED BY <3>1, <3>2
  <2>3. CASE RecordFailure(w)
    <3>1. /\ worker[w].answer = "error"
          /\ row' = IF LastAttempt(worker[w].attempts[n])
                    THEN [row EXCEPT ![n].status = "failed"]
                    ELSE [row EXCEPT ![n] = PutOff(@)]
      BY <2>3 DEF RecordFailure
    <3>2. \/ row'[d] = row[d] /\ d # n
          \/ row'[d] = [row[d] EXCEPT !.status = "failed"]
          \/ row'[d] = PutOff(row[d]) /\ ~LastAttempt(worker[w].attempts[n])
      BY <1>3, <3>1
    <3>3. /\ PutOff(row[d]).status = row[d].status /\ PutOff(row[d]).due = FALSE
          /\ PutOff(row[d]).attempts = row[d].attempts
          /\ [row[d] EXCEPT !.status = "failed"].status = "failed"
          /\ [row[d] EXCEPT !.status = "failed"].due = row[d].due
          /\ [row[d] EXCEPT !.status = "failed"].attempts = row[d].attempts
      BY <2>1 DEF PutOff, Row
    <3>4. ~LastAttempt(worker[w].attempts[n]) => worker[w].attempts[n] < MAX_ATTEMPTS
      BY <1>3, LimitAssumption DEF LastAttempt
    <3> QED BY <3>1, <3>2, <3>3, <3>4
  <2>4. CASE DeactivateChat(w)
    <3> DEFINE c == row[n].chat
    <3>1. /\ worker[w].pc = "refused"
          /\ row'[d] = IF FailsWith(row[d], c) THEN [row[d] EXCEPT !.status = "failed"]
                       ELSE row[d]
      BY <2>4 DEF DeactivateChat
    <3>2. d = n => row'[d].status # "pending"
      BY <2>1, <3>1 DEF FailsWith, Row
    <3> HIDE DEF c
    <3>3. /\ [row[d] EXCEPT !.status = "failed"].status = "failed"
          /\ [row[d] EXCEPT !.status = "failed"].due = row[d].due
          /\ [row[d] EXCEPT !.status = "failed"].attempts = row[d].attempts
      BY <2>1 DEF Row
    <3> QED BY <3>1, <3>2, <3>3
  <2> QED BY <2>2, <2>3, <2>4
<1> QED BY <1>1, <1>4, FinishCounts

\* The row fails, the worker keeps it in hand.
LEMMA RefusalCounts ==
  ASSUME IInv, IInvOutcome', NEW w \in Workers, RecordRefusal(w)
  PROVE  CountsHold'
<1> DEFINE n == worker[w].now
           q == [worker[w] EXCEPT !.pc = "refused"]
<1>1. /\ UNCHANGED <<got, lost, died, overran>>
      /\ worker[w].pc = "answered"
      /\ row' = [row EXCEPT ![n].status = "failed"]
      /\ worker' = [worker EXCEPT ![w].pc = "refused"]
  BY DEF RecordRefusal, history
<1>2. IInvOutcome /\ TypeOK
  BY DEF IInv, IInvOutcome
<1>3. worker[w] \in Worker /\ row \in [Deliveries -> Row]
  BY <1>2 DEF TypeOK
<1>4. /\ worker' = [worker EXCEPT ![w] = q] /\ q.batch = worker[w].batch
      /\ q.now = n /\ q.answer = worker[w].answer /\ q.attempts = worker[w].attempts
  BY <1>1, <1>2, <1>3 DEF TypeOK, Worker
<1> HIDE DEF q
<1>5. ASSUME NEW d \in Deliveries
      PROVE  /\ row'[d].attempts = row[d].attempts /\ row'[d].due = row[d].due
             /\ row'[d].status \in {row[d].status, "failed"}
  BY <1>1, <1>3 DEF Row
<1>6. ASSUME NEW d \in Deliveries
      PROVE  /\ got[d] \in Nat /\ lost[d] \in Nat /\ died[d] \in Nat
             /\ Claimable(d) \in {0, 1} /\ Claimable(d)' \in {0, 1}
             /\ Claimable(d)' <= Claimable(d)
             /\ Awaits(q, d) <=> Awaits(worker[w], d)
             /\ Unsaved(q, d) <=> Unsaved(worker[w], d)
             /\ Latest(worker[w], d) => Latest(q, d)
  <2>1. /\ got[d] \in Nat /\ lost[d] \in Nat /\ died[d] \in Nat
    BY <1>2, Numbers
  <2>2. /\ Claimable(d) \in {0, 1} /\ Claimable(d)' \in {0, 1} /\ Claimable(d)' <= Claimable(d)
    BY <1>5 DEF Claimable
  <2>3. /\ Awaits(q, d) <=> Awaits(worker[w], d)
        /\ Unsaved(q, d) <=> Unsaved(worker[w], d)
        /\ Latest(worker[w], d) => Latest(q, d)
    BY <1>1, <1>4 DEF Awaits, Unsaved, Latest
  <2> QED BY <2>1, <2>2, <2>3
<1>7. Leases' /\ Accounted'
  <2>1. ASSUME NEW d \in Deliveries
        PROVE  KeepsCounts(worker[w], q, d)
    BY <1>1, <1>4, <1>5, <1>6 DEF One, KeepsCounts
  <2>2. worker' = [worker EXCEPT ![w] = q] /\ UNCHANGED overran
    BY <1>1, <1>4
  <2> QED BY <2>1, <2>2, MoveCounts
<1>8. Retries'
  <2>1. ASSUME NEW d \in Deliveries
        PROVE  KeepsLatest(worker[w], q, d)
    BY <1>1, <1>5, <1>6 DEF KeepsLatest
  <2>2. worker' = [worker EXCEPT ![w] = q] /\ UNCHANGED overran
    BY <1>1, <1>4
  <2> QED BY <2>1, <2>2, MoveRetries
<1> QED BY <1>7, <1>8 DEF CountsHold

\* The worker's rows lose a holder; an answer it had is lost with it.
LEMMA DeathCounts ==
  ASSUME IInv, IInvOutcome', NEW w \in Workers, Dies(w)
  PROVE  CountsHold'
<1> DEFINE q == IdleWorker
<1>1. /\ UNCHANGED <<row, got, overran>> /\ worker' = [worker EXCEPT ![w] = q]
      /\ died' = [d \in Deliveries |-> IF d \in worker[w].batch THEN died[d] + 1 ELSE died[d]]
      /\ lost' = IF worker[w].answer = "ok" THEN [lost EXCEPT ![worker[w].now] = @ + 1] ELSE lost
  BY DEF Dies
<1>2. IInvOutcome /\ TypeOK
  BY DEF IInv, IInvOutcome
<1>3. q.batch = {} /\ q.now = None /\ q.answer = "none"
  BY DEF IdleWorker
<1> HIDE DEF q
<1>4. ASSUME NEW d \in Deliveries
      PROVE  /\ got[d] \in Nat /\ lost[d] \in Nat /\ died[d] \in Nat
             /\ Claimable(d) \in {0, 1} /\ Claimable(d)' = Claimable(d)
             /\ ~Awaits(q, d) /\ ~Unsaved(q, d)
             /\ lost'[d] = IF Unsaved(worker[w], d) THEN lost[d] + 1 ELSE lost[d]
             /\ died'[d] = IF d \in worker[w].batch THEN died[d] + 1 ELSE died[d]
  <2>1. /\ got[d] \in Nat /\ lost[d] \in Nat /\ died[d] \in Nat /\ Claimable(d) \in {0, 1}
    BY <1>2, Numbers
  <2>2. /\ Claimable(d)' = Claimable(d) /\ ~Awaits(q, d) /\ ~Unsaved(q, d)
    BY <1>1, <1>3, NameAssumption DEF Claimable, Awaits, Unsaved
  <2>3. /\ lost'[d] = IF Unsaved(worker[w], d) THEN lost[d] + 1 ELSE lost[d]
        /\ died'[d] = IF d \in worker[w].batch THEN died[d] + 1 ELSE died[d]
    BY <1>1, <1>2 DEF Unsaved, TypeOK
  <2> QED BY <2>1, <2>2, <2>3
<1>5. Leases' /\ Accounted'
  <2>1. ASSUME NEW d \in Deliveries
        PROVE  KeepsCounts(worker[w], q, d)
    BY <1>1, <1>3, <1>4 DEF One, KeepsCounts
  <2>2. worker' = [worker EXCEPT ![w] = q] /\ UNCHANGED overran
    BY <1>1
  <2> QED BY <2>1, <2>2, MoveCounts
<1>6. Retries'
  <2>1. ASSUME NEW d \in Deliveries
        PROVE  KeepsLatest(worker[w], q, d)
    BY <1>1, <1>4 DEF Latest, KeepsLatest
  <2>2. worker' = [worker EXCEPT ![w] = q] /\ UNCHANGED overran
    BY <1>1
  <2> QED BY <2>1, <2>2, MoveRetries
<1> QED BY <1>5, <1>6 DEF CountsHold

LEMMA InitInv == ASSUME Init PROVE IInv
<1>1. \A w \in Workers : worker[w] = IdleWorker
  BY DEF Init
<1>2. \A d \in Deliveries : /\ row[d] = NoRow /\ got[d] = 0 /\ lost[d] = 0
                            /\ died[d] = 0 /\ overran[d] = 0
  BY DEF Init
<1>3. IInvOutcome
  BY OutcomeInit
<1>4. ASSUME NEW d \in Deliveries
      PROVE  /\ Holders(d) = {} /\ Cardinality(Holders(d)) = 0 /\ Cardinality(Awaiting(d)) = 0
             /\ Cardinality(Unrecorded(d)) = 0 /\ Claimable(d) = 0
  <2>1. Holders(d) = {}
    BY <1>1 DEF Holders, IdleWorker
  <2>2. Claimable(d) = 0
    BY <1>2 DEF Claimable, NoRow
  <2> QED BY <1>3, <2>1, <2>2, NoHolder
<1>5. Leases /\ Accounted /\ Retries
  BY <1>2, <1>4, LimitAssumption DEF Leases, Accounted, Retries, NoRow
<1> QED BY <1>3, <1>5 DEF IInv

LEMMA IInvStep == ASSUME IInv, [Next]_vars PROVE IInv'
<1>1. IInvOutcome'
  BY OutcomeStep DEF IInv
<1>2. CASE \/ UNCHANGED vars
           \/ \E c \in Chats : \/ \E S \in SUBSET Recipients : LinkByPhone(c, S)
                               \/ Stop(c) \/ BlocksBot(c)
           \/ \E r \in Recipients : PhoneChanges(r)
           \/ \E e \in Events : NotifyRead(e) \/ NotifyAbort(e)
  <2>1. UNCHANGED <<row, worker, got, lost, died, overran>>
    BY <1>2 DEF vars, LinkByPhone, Stop, BlocksBot, PhoneChanges, NotifyRead, NotifyAbort, history
  <2> QED BY <1>1, <2>1, RestCounts DEF IInv, CountsHold
<1>3. ASSUME NEW e \in Events, NotifyCommit(e) PROVE IInv'
  BY <1>1, <1>3, QueueCounts DEF IInv, CountsHold
<1>4. ASSUME NEW d \in Deliveries, FallsDue(d) PROVE IInv'
  BY <1>1, <1>4, DueCounts DEF IInv, CountsHold
<1>5. ASSUME NEW w \in Workers, Claim(w) PROVE IInv'
  BY <1>1, <1>5, ClaimCounts DEF Claim, IInv, CountsHold
<1>6. ASSUME NEW w \in Workers, Sends(w) PROVE IInv'
  BY <1>1, <1>6, LoadCounts, SendCounts, RecordCounts, RefusalCounts
     DEF Sends, IInv, CountsHold
<1>7. ASSUME NEW w \in Workers, Dies(w) PROVE IInv'
  BY <1>1, <1>7, DeathCounts DEF IInv, CountsHold
<1> QED BY <1>2, <1>3, <1>4, <1>5, <1>6, <1>7 DEF Next

(***************************************************************************)
(* The invariant of the outbox (delivery.py): what workers know of rows,   *)
(* how many may hold one, and where every showing and every claim is       *)
(* accounted for.  Leases may run out under any worker at any time.        *)
(***************************************************************************)
THEOREM OutboxInvariant == Spec => []IInv
<1>1. Init => IInv
  BY InitInv
<1>2. IInv /\ [Next]_vars => IInv'
  BY IInvStep
<1> QED BY <1>1, <1>2, PTL DEF Spec

(***************************************************************************)
(* No message is shown more often than once, plus once for every showing   *)
(* that could not be recorded and once for every lease that ran out under  *)
(* a worker (send_pending), for any number of overlapping workers.         *)
(***************************************************************************)
THEOREM RepeatsAreCaused == Spec => []RepeatsHaveCause
<1>1. IInv => RepeatsHaveCause
  <2> SUFFICES ASSUME IInv, NEW d \in Deliveries
               PROVE  got[d] <= 1 + lost[d] + overran[d]
    BY DEF RepeatsHaveCause
  <2>1. /\ got[d] \in Nat /\ lost[d] \in Nat /\ overran[d] \in Nat
        /\ Claimable(d) \in {0, 1}
    BY Numbers DEF IInv, IInvOutcome
  <2>2. Cardinality(Awaiting(d)) \in Nat
    <3>1. IsFiniteSet(Awaiting(d))
      BY WorkersAssumption, FS_Subset DEF Awaiting
    <3> QED BY <3>1, FS_CardinalityType
  <2>3. got[d] + Cardinality(Awaiting(d)) + Claimable(d) <= 1 + lost[d] + overran[d]
    BY DEF IInv, Accounted
  <2> QED BY <2>1, <2>2, <2>3
<1> QED BY <1>1, OutboxInvariant, PTL

(***************************************************************************)
(* A row is claimed at most MAX_ATTEMPTS times, plus once for every worker *)
(* that died with it and once for every lease that ran out under one       *)
(* (_claim, _record_failure).                                              *)
(***************************************************************************)
THEOREM RetriesAreBounded == Spec => []RetriesBounded
<1>1. IInv => RetriesBounded
  BY DEF IInv, Retries, RetriesBounded
<1> QED BY <1>1, OutboxInvariant, PTL

\* A row is written by its event, by claims of pending rows and by holders.
LEMMA SettledKept ==
  ASSUME IInv, [Next]_vars, NEW d \in Deliveries, row[d].status \in {"sent", "failed"}
  PROVE  /\ row'[d].status \in {"sent", "failed"} /\ row'[d].attempts = row[d].attempts
         /\ row[d].status = "sent" /\ overran[d] = 0 => row'[d].status = "sent"
<1>1. row \in [Deliveries -> Row] /\ row[d] \in Row
  BY DEF IInv, IInvOutcome, TypeOK
<1>2. CASE row'[d] = row[d]
  BY <1>2
<1>3. ASSUME NEW e \in Events, NotifyCommit(e) PROVE row'[d] = row[d]
  <2>1. Event(d) # e
    BY <1>3 DEF NotifyCommit, IInv, IInvOutcome, QueuedByEvent
  <2> QED BY <1>3, <2>1 DEF NotifyCommit
<1>4. ASSUME NEW c \in Deliveries, FallsDue(c) PROVE row'[d] = row[d]
  BY <1>1, <1>4 DEF FallsDue
<1>5. ASSUME NEW w \in Workers, Claim(w) PROVE row'[d] = row[d]
  BY <1>5 DEF Claim, ClaimSet, Due
<1>6. ASSUME NEW w \in Workers, RecordSent(w) \/ RecordFailure(w) \/ RecordRefusal(w)
      PROVE  /\ row'[d].status \in {"sent", "failed"} /\ row'[d].attempts = row[d].attempts
             /\ row[d].status = "sent" /\ overran[d] = 0 => row'[d].status = "sent"
  <2>1. CASE worker[w].now # d
    BY <1>1, <1>6, <2>1 DEF RecordSent, RecordFailure, RecordRefusal
  <2>2. CASE worker[w].now = d
    <3>1. d \in worker[w].batch
      BY <1>6, <2>2, NameAssumption
         DEF RecordSent, RecordFailure, RecordRefusal, IInv, IInvOutcome, InHand, InHandOf
    <3>2. row[d].status = "sent" => overran[d] # 0
      BY <3>1 DEF IInv, Leases, Holders
    <3>3. row'[d] \in {Sent(row[d]), PutOff(row[d]), [row[d] EXCEPT !.status = "failed"]}
      BY <1>1, <1>6, <2>2 DEF RecordSent, RecordFailure, RecordRefusal
    <3>4. /\ Sent(row[d]).status = "sent" /\ Sent(row[d]).attempts = row[d].attempts
          /\ PutOff(row[d]).status = row[d].status /\ PutOff(row[d]).attempts = row[d].attempts
          /\ [row[d] EXCEPT !.status = "failed"].status = "failed"
          /\ [row[d] EXCEPT !.status = "failed"].attempts = row[d].attempts
      BY <1>1 DEF Sent, PutOff, Row
    <3> QED BY <3>2, <3>3, <3>4
  <2> QED BY <2>1, <2>2
<1>7. ASSUME NEW w \in Workers, DeactivateChat(w) PROVE row'[d] = row[d]
  BY <1>7 DEF DeactivateChat, FailsWith
<1>8. ASSUME NEW w \in Workers, \/ Load(w) \/ Dies(w)
                                \/ \E c \in Deliveries : SendMessage(w, c)
      PROVE  row'[d] = row[d]
  BY <1>8 DEF Load, Dies, SendMessage
<1>9. CASE \/ UNCHANGED vars
           \/ \E c \in Chats : \/ \E S \in SUBSET Recipients : LinkByPhone(c, S)
                               \/ Stop(c) \/ BlocksBot(c)
           \/ \E r \in Recipients : PhoneChanges(r)
           \/ \E e \in Events : NotifyRead(e) \/ NotifyAbort(e)
  BY <1>2, <1>9 DEF vars, LinkByPhone, Stop, BlocksBot, PhoneChanges, NotifyRead, NotifyAbort
<1> QED BY <1>2, <1>3, <1>4, <1>5, <1>6, <1>7, <1>8, <1>9 DEF Next, Sends

(***************************************************************************)
(* A sent or failed row is never queued or claimed again, whatever late    *)
(* answers other workers write (delivery.py:85, 91, 98); only after a      *)
(* lease has run out under a worker can "sent" give way to "failed".       *)
(***************************************************************************)
THEOREM SettledIsSettled == Spec => SettledStaysSettled
<1>1. IInv /\ [Next]_vars =>
        [\A d \in Deliveries :
           row[d].status \in {"sent", "failed"} =>
             /\ row'[d].status \in {"sent", "failed"}
             /\ row'[d].attempts = row[d].attempts
             /\ row[d].status = "sent" /\ overran[d] = 0 => row'[d].status = "sent"]_vars
  BY SettledKept
<1> QED BY <1>1, OutboxInvariant, PTL DEF Spec, SettledStaysSettled
=============================================================================

-------------------------- MODULE PasswordReset_proofs --------------------------
(***************************************************************************)
(* Proofs about PasswordReset, for any number of requests of the site,     *)
(* reset rows and chats: what a reset demands of whoever asks for it, and  *)
(* that the account it changes still obeys Sessions.                       *)
(***************************************************************************)
EXTENDS PasswordReset, Sessions_proofs

\* The number of a new row is a number.
LEMMA BornType == Cardinality(Created) \in Nat
  BY ResetsAssumption, FS_Subset, FS_CardinalityType DEF Created

\* The row and the request everything starts from are well typed.
LEMMA BlankTypes == NoReset \in ResetRow /\ NoStep \in Call
  BY DEF NoReset, ResetRow, NoStep, Call

\* What a request of the site is about to do says what it is.
LEMMA CallKinds ==
  ASSUME ResetIInv, NEW r \in Requests
  PROVE  /\ call[r].op \in {"none", "start", "confirm"}
         /\ call[r].op = "none" => call[r].pc = "idle" /\ call[r].reset = None
         /\ call[r].pc \in {"expire", "create"} => call[r].op = "start"
         /\ call[r].pc \in {"policy", "change", "marked"} => call[r].op = "confirm"
  BY DEF ResetIInv, ResetDiscipline, CallsHaveRows, CallHasRow, NoStep, ResetTypeOK, Call

-----------------------------------------------------------------------------
(* What a step of the rows keeps, and what a step of the calls *)

\* While no row changes, the same rows are created and live, and what only rows
\* say stays so.
LEMMA RowsUntouched ==
  ASSUME ResetIInv, UNCHANGED <<reset, crowded>>
  PROVE  /\ Created' = Created /\ Older' = Older
         /\ RowsConsistent' /\ OnlyNewestLive' /\ ProvenByOwnChat' /\ GuessesBounded'
  BY DEF ResetIInv, ResetDiscipline, RowsConsistent, Created, Older, Live, OnlyNewestLive,
     ProvenByOwnChat, GuessesBounded

\* What an inserted row may become: not live unless it was, and with its codes
\* and its use still owed to a chat of the account's.
Kept(row, old) ==
  /\ row \in ResetRow /\ row.state # "absent"
  /\ row.state = "open" => old.state = "open"
  /\ old.used => row.used
  /\ row.codes_sent >= old.codes_sent
  /\ row.codes_sent > 0 \/ row.used => row.chat \in OwnChats
  /\ row.wrong = row.attempts /\ row.wrong <= MAX_CODE_ATTEMPTS

LEMMA RowKeeps ==
  ASSUME ResetIInv, NEW x \in Created, NEW row, Kept(row, reset[x]),
         reset' = [reset EXCEPT ![x] = row], UNCHANGED crowded
  PROVE  /\ reset' \in [Resets -> ResetRow]
         /\ Created' = Created /\ Older' \subseteq Older
         /\ \A y \in Resets : reset[y].codes_sent > 0 => reset'[y].codes_sent > 0
         /\ RowsConsistent' /\ OnlyNewestLive' /\ ProvenByOwnChat' /\ GuessesBounded'
  <1> USE DEF ResetIInv, ResetDiscipline
  <1>0. x \in Resets /\ reset[x].state # "absent" /\ reset[x] \in ResetRow
    BY DEF Created, ResetTypeOK
  <1>1. reset' \in [Resets -> ResetRow]
    BY <1>0 DEF ResetTypeOK, Kept
  <1>2. reset'[x] = row /\ \A y \in Resets \ {x} : reset'[y] = reset[y]
    BY <1>0 DEF ResetTypeOK
  <1>3. Created' = Created
    BY <1>0, <1>2 DEF Created, Kept
  <1>4. \A y \in Resets : reset[y].codes_sent > 0 => reset'[y].codes_sent > 0
    <2>1. reset[x].codes_sent \in Nat /\ row.codes_sent \in Nat
      BY <1>0 DEF Kept, ResetRow
    <2>2. reset[x].codes_sent > 0 => row.codes_sent > 0
      BY <2>1 DEF Kept
    <2> QED BY <1>2, <2>2
  <1>5. RowsConsistent' /\ ProvenByOwnChat' /\ GuessesBounded'
    BY <1>0, <1>2, <1>3 DEF RowsConsistent, ProvenByOwnChat, GuessesBounded, Kept
  <1>6. \A y \in Resets : Live(y)' => Live(y)
    BY <1>0, <1>2 DEF Live, Kept, ResetRow
  <1>7. OnlyNewestLive' /\ Older' \subseteq Older
    BY <1>6 DEF OnlyNewestLive, Older
  <1> QED BY <1>1, <1>3, <1>4, <1>5, <1>7

\* A request of the site that goes on with the row it has, or none, while no row
\* is created, none becomes live and none forgets its codes.
LEMMA CallKeeps ==
  ASSUME ResetIInv, NEW r \in Requests, NEW c \in Call,
         call' = [call EXCEPT ![r] = c], UNCHANGED crowded,
         Created' = Created, Older' \subseteq Older,
         \A y \in Resets : reset[y].codes_sent > 0 => reset'[y].codes_sent > 0,
         c = NoStep \/ c.reset = call[r].reset,
         c.op \in {"none", call[r].op},
         c.op = "none" => c = NoStep,
         c.op = "start" => c.pc \in {"expire", "create"} /\ c.seen \subseteq Created,
         c.op = "confirm" => c.pc \in {"policy", "change", "marked"},
         c.pc = "create" => Older \subseteq c.seen
  PROVE  call' \in [Requests -> Call] /\ CallsHaveRows' /\ StartsAlone'
  <1> USE DEF ResetIInv, ResetDiscipline
  <1>1. call' \in [Requests -> Call]
    BY DEF ResetTypeOK
  <1>2. call'[r] = c /\ \A q \in Requests \ {r} : call'[q] = call[q]
    BY DEF ResetTypeOK
  <1>3. \A q \in Requests : call'[q].reset \in {call[q].reset, None}
    BY <1>2 DEF NoStep
  <1>4. CallsHaveRows'
    <2> SUFFICES ASSUME NEW p \in Requests
                 PROVE  CallHasRow(p)'
      BY DEF CallsHaveRows
    <2>1. CallHasRow(p) /\ \A q \in Requests : call[q].op = "start" => call[q].reset # None
      BY ChatsAssumption DEF CallsHaveRows, CallHasRow
    <2>2. call'[p].op \in {"none", call[p].op} /\ (call'[p].op # "none" => call'[p].reset = call[p].reset)
      BY <1>2 DEF NoStep
    <2>3. call'[p].op = "start" => \A q \in Requests \ {p} : call'[q].reset # call'[p].reset
      BY <2>1, <2>2, <1>3 DEF CallHasRow
    <2>4. CASE p = r
      BY <2>1, <2>2, <2>3, <2>4, <1>2 DEF CallHasRow
    <2>5. CASE p # r
      BY <2>1, <2>2, <2>3, <2>5, <1>2 DEF CallHasRow
    <2> QED BY <2>4, <2>5
  <1>5. StartsAlone'
    BY <1>2 DEF StartsAlone
  <1> QED BY <1>1, <1>4, <1>5

\* Each part of the invariant is about the rows or about the calls.
LEMMA Together ==
  ASSUME reset' \in [Resets -> ResetRow], RowsConsistent', OnlyNewestLive', ProvenByOwnChat',
         GuessesBounded', call' \in [Requests -> Call], CallsHaveRows', StartsAlone',
         crowded' \in BOOLEAN
  PROVE  ResetIInv'
  BY DEF ResetIInv, ResetDiscipline, ResetTypeOK

\* A step of the calls alone.
LEMMA CallAlone ==
  ASSUME ResetIInv, UNCHANGED <<reset, crowded>>,
         call' \in [Requests -> Call], CallsHaveRows', StartsAlone'
  PROVE  ResetIInv'
  BY RowsUntouched, Together DEF ResetIInv, ResetTypeOK

\* A step of one row alone.
LEMMA RowAlone ==
  ASSUME ResetIInv, NEW x \in Created, NEW row, Kept(row, reset[x]),
         reset' = [reset EXCEPT ![x] = row], UNCHANGED <<call, crowded>>
  PROVE  ResetIInv'
  <1>1. Created' = Created /\ Older' \subseteq Older
    BY RowKeeps
  <1>2. \A y \in Resets : reset[y].codes_sent > 0 => reset'[y].codes_sent > 0
    BY RowKeeps
  <1>3. CallsHaveRows'
    BY <1>1, <1>2 DEF CallsHaveRows, CallHasRow, ResetIInv, ResetDiscipline
  <1>4. StartsAlone'
    BY <1>1 DEF StartsAlone, ResetIInv, ResetDiscipline
  <1> QED BY <1>3, <1>4, RowKeeps, Together DEF ResetIInv, ResetTypeOK

-----------------------------------------------------------------------------
(* Each step *)

\* A request of the site that ends leaves everything else as it was.
LEMMA EndingCallKeeps ==
  ASSUME ResetIInv, NEW r \in Requests,
         call' = [call EXCEPT ![r] = NoStep], UNCHANGED <<reset, crowded>>
  PROVE  ResetIInv'
  <1>1. Created' = Created /\ Older' \subseteq Older
    BY RowsUntouched
  <1>2. NoStep.op = "none" /\ NoStep.pc = "idle"
    BY DEF NoStep
  <1> QED BY <1>1, <1>2, BlankTypes, CallKeeps, CallAlone

\* A confirmation moves on, with the row it was let in by.
LEMMA ConfirmGoesKeeps ==
  ASSUME ResetIInv, NEW r \in Requests, NEW pc \in {"change", "marked"},
         call[r].pc \in {"policy", "change"},
         call' = [call EXCEPT ![r].pc = pc], UNCHANGED <<reset, crowded>>
  PROVE  ResetIInv'
  <1> DEFINE c == [call[r] EXCEPT !.pc = pc]
  <1>1. Created' = Created /\ Older' \subseteq Older
    BY RowsUntouched
  <1>2. call[r].op = "confirm" /\ call[r] \in Call
    BY CallKinds DEF ResetIInv, ResetTypeOK
  <1>3. call' = [call EXCEPT ![r] = c]
    BY DEF ResetIInv, ResetTypeOK
  <1>4. c \in Call /\ c.op = "confirm" /\ c.reset = call[r].reset /\ c.pc = pc
    BY <1>2 DEF Call
  <1> HIDE DEF c
  <1>5. call' \in [Requests -> Call] /\ CallsHaveRows' /\ StartsAlone'
    BY <1>1, <1>2, <1>3, <1>4, CallKeeps
  <1> QED BY <1>5, CallAlone

\* A start finds that the user may ask once more.
LEMMA StartLimitKeeps ==
  ASSUME ResetIInv, NEW r \in Requests, NEW x \in Resets, StartLimit(r, x)
  PROVE  ResetIInv'
  <1> DEFINE c == [op |-> "start", pc |-> "expire", reset |-> x, seen |-> {}]
  <1>0. c \in Call
    BY DEF Call
  <1>1. call' = [call EXCEPT ![r] = c] /\ UNCHANGED reset /\ x \notin Created
    BY DEF StartLimit
  <1>2. /\ call' \in [Requests -> Call] /\ crowded' \in BOOLEAN
        /\ call'[r] = c /\ \A q \in Requests \ {r} : call'[q] = call[q]
    BY <1>0, <1>1 DEF ResetIInv, ResetTypeOK, StartLimit
  <1>3. Created' = Created /\ Older' = Older
    BY <1>1 DEF Created, Older, Live
  <1>4. CallsHaveRows'
    <2> SUFFICES ASSUME NEW p \in Requests
                 PROVE  CallHasRow(p)'
      BY DEF CallsHaveRows
    <2>1. CallHasRow(p) /\ \A q \in Requests : call[q].reset # x
      BY DEF CallsHaveRows, ResetIInv, ResetDiscipline, StartLimit
    <2>2. CASE p = r
      BY <2>1, <2>2, <1>1, <1>2, <1>3 DEF CallHasRow
    <2>3. CASE p # r
      <3>1. \A q \in Requests : call'[q].reset \in {call[q].reset, x}
        BY <1>2
      <3> QED BY <2>1, <2>3, <3>1, <1>1, <1>2, <1>3 DEF CallHasRow
    <2> QED BY <2>2, <2>3
  <1>5. crowded' = (crowded \/ \E q \in Requests : call[q].op = "start")
    BY DEF StartLimit
  <1>6. StartsAlone'
    <2>1. CASE crowded'
      BY <2>1 DEF StartsAlone
    <2>2. CASE ~crowded'
      <3>1. ~crowded /\ \A q \in Requests : call[q].op # "start"
        BY <2>2, <1>5
      <3>2. \A q \in Requests : call'[q].pc # "create"
        BY <3>1, <1>2, CallKinds
      <3> QED BY <3>1, <3>2, <1>2 DEF StartsAlone
    <2> QED BY <2>1, <2>2
  <1>7. RowsConsistent' /\ ProvenByOwnChat' /\ GuessesBounded' /\ OnlyNewestLive'
    BY <1>1, <1>3, <1>5 DEF RowsConsistent, ProvenByOwnChat, GuessesBounded, OnlyNewestLive, Live,
       ResetIInv, ResetTypeOK, ResetDiscipline
  <1>8. reset' \in [Resets -> ResetRow]
    BY <1>1 DEF ResetIInv, ResetTypeOK
  <1> QED BY <1>2, <1>4, <1>6, <1>7, <1>8, Together

\* A start expires every live row it finds.
LEMMA StartExpireKeeps ==
  ASSUME ResetIInv, NEW r \in Requests, StartExpire(r)
  PROVE  ResetIInv'
  <1> DEFINE c == [call[r] EXCEPT !.pc = "create", !.seen = Older]
  <1>1. call' = [call EXCEPT ![r] = c] /\ UNCHANGED <<reset, crowded>>
    BY DEF StartExpire, ResetIInv, ResetTypeOK
  <1>2. call[r].op = "start" /\ call[r] \in Call
    BY CallKinds DEF StartExpire, ResetIInv, ResetTypeOK
  <1>3. Older \subseteq Resets /\ Older \subseteq Created
    BY DEF Older, Live, Created
  <1>4. /\ c \in Call /\ c.op = "start" /\ c.pc = "create" /\ c.reset = call[r].reset
        /\ c.seen = Older
    BY <1>2, <1>3 DEF Call
  <1> HIDE DEF c
  <1>5. Created' = Created /\ Older' \subseteq Older
    BY <1>1, RowsUntouched
  <1>6. call' \in [Requests -> Call] /\ CallsHaveRows' /\ StartsAlone'
    BY <1>1, <1>2, <1>3, <1>4, <1>5, CallKeeps
  <1> QED BY <1>1, <1>6, CallAlone

\* The lifetime of a link passes.
LEMMA ExpiresKeeps ==
  ASSUME ResetIInv, NEW x \in Resets, Expires(x)
  PROVE  ResetIInv'
  <1> DEFINE row == [reset[x] EXCEPT !.state = "expired"]
  <1>1. x \in Created /\ reset' = [reset EXCEPT ![x] = row] /\ UNCHANGED <<call, crowded>>
    BY DEF Expires, Created, ResetIInv, ResetTypeOK
  <1>2. Kept(row, reset[x])
    BY DEF Kept, ResetIInv, ResetTypeOK, ResetRow, ResetDiscipline, RowsConsistent,
       ProvenByOwnChat, GuessesBounded
  <1> HIDE DEF row
  <1> QED BY <1>1, <1>2, RowAlone

\* A chat opens the link: no code was sent yet.
LEMMA BindChatKeeps ==
  ASSUME ResetIInv, NEW x \in Resets, NEW c \in Chats, BindChat(c, x)
  PROVE  ResetIInv'
  <1> DEFINE row == [reset[x] EXCEPT !.chat = c]
  <1>1. x \in Created /\ reset' = [reset EXCEPT ![x] = row] /\ UNCHANGED <<call, crowded>>
    BY DEF BindChat, Bindable, Live, Created, ResetIInv, ResetTypeOK
  <1>2. reset[x].codes_sent = 0 /\ reset[x].state = "open" /\ ~reset[x].used
    BY DEF BindChat, Bindable, Live
  <1>3. Kept(row, reset[x])
    BY <1>2 DEF Kept, ResetIInv, ResetTypeOK, ResetRow, ResetDiscipline, RowsConsistent,
       GuessesBounded
  <1> HIDE DEF row
  <1> QED BY <1>1, <1>3, RowAlone

\* A chat whose phone is the account's gets a code.
LEMMA HandleContactKeeps ==
  ASSUME ResetIInv, NEW x \in Resets, NEW c \in Chats, HandleContact(c, x)
  PROVE  ResetIInv'
  <1> DEFINE row == CodeSent(reset[x])
  <1>1. x \in Created /\ reset' = [reset EXCEPT ![x] = row] /\ UNCHANGED <<call, crowded>>
    BY DEF HandleContact, Live, Created, ResetIInv, ResetTypeOK
  <1>2. reset[x].chat \in OwnChats
    BY DEF HandleContact
  <1>3. Kept(row, reset[x])
    BY <1>2, <1>1 DEF Kept, CodeSent, Created, ResetIInv, ResetTypeOK, ResetRow, ResetDiscipline,
       RowsConsistent, GuessesBounded
  <1> HIDE DEF row
  <1> QED BY <1>1, <1>3, RowAlone

\* A code is tried: a wrong one costs an attempt, the last one sent lets the
\* confirmation in.
LEMMA ConfirmCodeKeeps ==
  ASSUME ResetIInv, NEW r \in Requests, NEW x \in Resets, NEW n \in 1..MAX_CODES,
         ConfirmCode(r, x, n)
  PROVE  ResetIInv'
  <1> USE DEF ResetIInv, ResetDiscipline
  <1>0. /\ reset[x].state = "open" /\ ~reset[x].used /\ reset[x].codes_sent > 0
        /\ reset[x].attempts < MAX_CODE_ATTEMPTS /\ reset[x] \in ResetRow
        /\ x \in Created
    BY DEF ConfirmCode, Guessable, Live, ResetTypeOK, Created
  <1>1. CASE n # reset[x].codes_sent
    <2> DEFINE row == WrongCode(reset[x])
    <2>1. reset' = [reset EXCEPT ![x] = row] /\ UNCHANGED <<call, crowded>>
      BY <1>1 DEF ConfirmCode, ResetTypeOK
    <2>2. /\ row.state = "open" /\ ~row.used /\ row.codes_sent = reset[x].codes_sent
          /\ row.chat = reset[x].chat
          /\ row.wrong = reset[x].wrong + 1 /\ row.attempts = reset[x].attempts + 1
      BY <1>0 DEF WrongCode, ResetRow
    <2>5. row \in ResetRow
      <3>1. reset[x].attempts + 1 \in Nat /\ reset[x].wrong + 1 \in Nat
        BY <1>0 DEF ResetRow
      <3>2. \A a, w \in Nat : [reset[x] EXCEPT !.attempts = a, !.wrong = w] \in ResetRow
        BY <1>0 DEF ResetRow
      <3> QED BY <3>1, <3>2 DEF WrongCode
    <2>3. row.wrong = row.attempts /\ row.wrong <= MAX_CODE_ATTEMPTS
      BY <1>0, <2>2, LimitsAssumption DEF RowsConsistent, ResetRow
    <2> HIDE DEF row
    <2>4. Kept(row, reset[x])
      BY <1>0, <2>2, <2>3, <2>5 DEF Kept, ResetRow, ProvenByOwnChat
    <2> QED BY <1>0, <2>1, <2>4, RowAlone
  <1>2. CASE n = reset[x].codes_sent
    <2> DEFINE c == [op |-> "confirm", pc |-> "policy", reset |-> x, seen |-> {}]
    <2>0. call' = [call EXCEPT ![r] = c] /\ UNCHANGED <<reset, crowded>> /\ c \in Call
      BY <1>2 DEF ConfirmCode, Call
    <2>1. /\ call' \in [Requests -> Call]
          /\ call'[r] = c /\ \A q \in Requests \ {r} : call'[q] = call[q]
      BY <2>0 DEF ResetTypeOK
    <2>2. Created' = Created /\ Older' = Older
      BY <2>0, RowsUntouched
    <2>3. CallsHaveRows'
      <3> SUFFICES ASSUME NEW p \in Requests
                   PROVE  CallHasRow(p)'
        BY DEF CallsHaveRows
      <3>1. CASE p = r
        BY <3>1, <1>0, <2>0, <2>1 DEF CallHasRow
      <3>2. CASE p # r
        <4>1. CallHasRow(p) /\ (call[p].op = "start" => call[p].reset # x)
          BY <1>0 DEF CallsHaveRows, CallHasRow
        <4>2. \A q \in Requests : call'[q].reset \in {call[q].reset, x}
          BY <2>1
        <4> QED BY <3>2, <4>1, <4>2, <2>0, <2>1, <2>2 DEF CallHasRow
      <3> QED BY <3>1, <3>2
    <2>4. StartsAlone'
      BY <2>0, <2>1, <2>2 DEF StartsAlone
    <2> QED BY <2>0, <2>1, <2>3, <2>4, CallAlone
  <1> QED BY <1>1, <1>2

\* A start inserts its row and expires the older ones.
LEMMA StartCommitKeeps ==
  ASSUME ResetIInv, NEW r \in Requests, StartCommit(r)
  PROVE  ResetIInv'
  <1> USE DEF ResetIInv, ResetDiscipline
  <1> DEFINE x == call[r].reset
             new == [NoReset EXCEPT !.state = "open", !.born = Cardinality(Created)]
             old(y) == IF y \in call[r].seen THEN [reset[y] EXCEPT !.state = "expired"] ELSE reset[y]
  <1>1. call[r].op = "start" /\ call[r].pc = "create"
    BY CallKinds DEF StartCommit
  <1>2. x \in Resets /\ x \notin Created /\ \A q \in Requests \ {r} : call[q].reset # x
    BY <1>1 DEF CallsHaveRows, CallHasRow
  <1>3. reset' = [y \in Resets |-> IF y = x THEN new ELSE old(y)]
    BY DEF StartCommit
  <1>4. /\ call' = [call EXCEPT ![r] = NoStep] /\ UNCHANGED crowded
        /\ call'[r] = NoStep /\ \A q \in Requests \ {r} : call'[q] = call[q]
    BY DEF StartCommit, ResetTypeOK
  <1>5. new \in ResetRow
    BY BornType DEF NoReset, ResetRow
  <1>6. ResetTypeOK'
    <2>1. \A y \in Resets : old(y) \in ResetRow
      BY DEF ResetTypeOK, ResetRow
    <2> QED BY <2>1, <1>3, <1>4, <1>5, BlankTypes DEF ResetTypeOK
  <1>7. /\ reset'[x].state = "open" /\ ~reset'[x].used /\ reset'[x].codes_sent = 0
        /\ reset'[x].wrong = 0 /\ reset'[x].attempts = 0
    BY <1>2, <1>3 DEF NoReset
  <1>8. \A y \in Resets \ {x} :
          /\ reset'[y] = old(y)
          /\ reset'[y].used <=> reset[y].used
          /\ reset'[y].chat = reset[y].chat
          /\ reset'[y].codes_sent = reset[y].codes_sent
          /\ reset'[y].wrong = reset[y].wrong /\ reset'[y].attempts = reset[y].attempts
    BY <1>3 DEF ResetTypeOK, ResetRow
  <1>9. call[r].seen \subseteq Created /\ x \notin call[r].seen
    BY <1>1, <1>2 DEF CallsHaveRows, CallHasRow
  <1>10. Created' = Created \cup {x}
    <2>1. \A y \in Resets \ {x} : reset'[y].state = "absent" <=> reset[y].state = "absent"
      <3> SUFFICES ASSUME NEW y \in Resets \ {x} PROVE reset'[y].state = "absent" <=> reset[y].state = "absent"
        OBVIOUS
      <3>1. reset'[y] = old(y) /\ reset[y] \in ResetRow
        BY <1>8 DEF ResetTypeOK
      <3>2. CASE y \in call[r].seen
        <4>1. reset[y].state # "absent"
          BY <1>9, <3>2 DEF Created
        <4> QED BY <3>1, <3>2, <4>1 DEF ResetRow
      <3>3. CASE y \notin call[r].seen
        BY <3>1, <3>3
      <3> QED BY <3>2, <3>3
    <2> QED BY <2>1, <1>2, <1>7 DEF Created
  <1> HIDE DEF new
  <1>11. CallsHaveRows'
    <2> SUFFICES ASSUME NEW p \in Requests
                 PROVE  CallHasRow(p)'
      BY DEF CallsHaveRows
    <2>0. CallHasRow(p)
      BY DEF CallsHaveRows
    <2>1. CASE p = r
      BY <2>1, <1>4 DEF CallHasRow, NoStep
    <2>2. CASE p # r
      <3>1. \A q \in Requests : call'[q].reset \in {call[q].reset, None}
        BY <1>4 DEF NoStep
      <3>2. call[p].reset # x /\ call'[p] = call[p]
        BY <2>2, <1>2, <1>4
      <3>3. call[p].op = "start" => CallHasRow(p)'
        <4>1. SUFFICES ASSUME call[p].op = "start"
                       PROVE  \A q \in Requests \ {p} : call'[q].reset # call[p].reset
          BY <2>0, <3>2, <1>10 DEF CallHasRow
        <4> QED BY <2>0, <3>1, <4>1, ChatsAssumption DEF CallHasRow
      <3>4. ASSUME call[p].op = "confirm"
            PROVE  CallHasRow(p)'
        <4>1. call[p].reset \in Resets \ {x} /\ reset[call[p].reset].codes_sent > 0
          BY <2>0, <3>2, <3>4 DEF CallHasRow
        <4>2. reset'[call[p].reset].codes_sent > 0
          BY <4>1, <1>8
        <4> QED BY <2>0, <3>2, <3>4, <4>1, <4>2 DEF CallHasRow
      <3>5. call[p].op = "none" => CallHasRow(p)'
        BY <2>0, <3>2 DEF CallHasRow
      <3> QED BY <3>3, <3>4, <3>5, CallKinds
    <2> QED BY <2>1, <2>2
  <1>12. RowsConsistent'
    BY <1>2, <1>7, <1>8, <1>10, <1>3, <1>9 DEF RowsConsistent
  <1>13. ProvenByOwnChat' /\ GuessesBounded'
    <2>1. 0 <= MAX_CODE_ATTEMPTS
      BY LimitsAssumption
    <2>2. \A y \in Resets : y = x \/ y \in Resets \ {x}
      OBVIOUS
    <2>3. ProvenByOwnChat'
      <3> SUFFICES ASSUME NEW y \in Resets, reset'[y].codes_sent > 0 \/ reset'[y].used
                   PROVE  reset'[y].chat \in OwnChats
        BY DEF ProvenByOwnChat
      <3>1. y \in Resets \ {x}
        BY <1>7
      <3> QED BY <3>1, <1>8 DEF ProvenByOwnChat
    <2>4. GuessesBounded'
      BY <2>1, <2>2, <1>7, <1>8 DEF GuessesBounded
    <2> QED BY <2>3, <2>4
  <1>14. OnlyNewestLive'
    <2> SUFFICES ASSUME ~crowded, NEW y \in Resets, Live(y)', y # x
                 PROVE  FALSE
      BY <1>4 DEF OnlyNewestLive
    <2>1. y \notin call[r].seen
      BY <1>8 DEF Live, ResetTypeOK, ResetRow
    <2>2. Live(y)
      BY <2>1, <1>8 DEF Live
    <2> QED BY <2>1, <2>2, <1>1 DEF StartsAlone, Older
  <1>15. StartsAlone'
    <2>1. ASSUME ~crowded, NEW p \in Requests
          PROVE  call'[p].op # "start" /\ call'[p].pc # "create"
      <3>1. CASE p = r
        BY <3>1, <1>4 DEF NoStep
      <3>2. CASE p # r
        <4>1. call[p].op # "start"
          BY <3>2, <2>1, <1>1 DEF StartsAlone
        <4> QED BY <4>1, <3>2, <1>4, CallKinds
      <3> QED BY <3>1, <3>2
    <2> QED BY <2>1, <1>4 DEF StartsAlone
  <1> QED BY <1>6, <1>11, <1>12, <1>13, <1>14, <1>15


\* A confirmation that changed the password uses its row up.
LEMMA ConfirmCommitKeeps ==
  ASSUME ResetIInv, NEW r \in Requests, ConfirmCommit(r)
  PROVE  ResetIInv'
  <1> DEFINE x == call[r].reset
             row == [reset[x] EXCEPT !.used = TRUE]
  <1>1. call[r].op = "confirm"
    BY CallKinds DEF ConfirmCommit
  <1>2. x \in Resets /\ reset[x].codes_sent > 0 /\ reset[x] \in ResetRow
    BY <1>1 DEF ResetIInv, ResetDiscipline, CallsHaveRows, CallHasRow, ResetTypeOK
  <1>3. x \in Created
    BY <1>2 DEF ResetIInv, ResetDiscipline, RowsConsistent, NoReset
  <1>4. /\ reset' = [reset EXCEPT ![x] = row]
        /\ call' = [call EXCEPT ![r] = NoStep] /\ UNCHANGED crowded
    BY DEF ConfirmCommit, ResetIInv, ResetTypeOK
  <1>5. Kept(row, reset[x])
    <2>1. /\ row \in ResetRow /\ row.used /\ row.state = reset[x].state /\ row.chat = reset[x].chat
          /\ row.codes_sent = reset[x].codes_sent
          /\ row.wrong = reset[x].wrong /\ row.attempts = reset[x].attempts
      BY <1>2 DEF ResetRow
    <2> QED BY <1>2, <1>3, <2>1 DEF Kept, ResetRow, Created, ResetIInv, ResetDiscipline, RowsConsistent,
       ProvenByOwnChat, GuessesBounded
  <1> HIDE DEF row, x
  <1>6. /\ reset' \in [Resets -> ResetRow]
        /\ Created' = Created /\ Older' \subseteq Older
        /\ \A y \in Resets : reset[y].codes_sent > 0 => reset'[y].codes_sent > 0
        /\ RowsConsistent' /\ OnlyNewestLive' /\ ProvenByOwnChat' /\ GuessesBounded'
    BY <1>3, <1>4, <1>5, RowKeeps
  <1>7. NoStep.op = "none" /\ NoStep.pc = "idle"
    BY DEF NoStep
  <1>8. call' \in [Requests -> Call] /\ CallsHaveRows' /\ StartsAlone'
    BY <1>4, <1>6, <1>7, BlankTypes, CallKeeps
  <1> QED BY <1>4, <1>6, <1>8, Together DEF ResetIInv, ResetTypeOK

-----------------------------------------------------------------------------
(* The specification *)

\* Every step keeps the invariant.
LEMMA ResetNextKeeps ==
  ASSUME ResetIInv, [ResetNext]_resetVars
  PROVE  ResetIInv'
  <1>1. CASE UNCHANGED resetVars
    BY <1>1, RowsUntouched, CallAlone DEF resetVars, ResetIInv, ResetTypeOK, ResetDiscipline,
       CallsHaveRows, CallHasRow, StartsAlone
  <1>2. ASSUME NEW x \in Resets,
               Expires(x) \/ \E c \in Chats : BindChat(c, x) \/ HandleContact(c, x)
        PROVE  ResetIInv'
    BY <1>2, ExpiresKeeps, BindChatKeeps, HandleContactKeeps
  <1>3. ASSUME NEW r \in Requests, NEW x \in Resets,
               StartLimit(r, x) \/ \E n \in 1..MAX_CODES : ConfirmCode(r, x, n)
        PROVE  ResetIInv'
    BY <1>3, StartLimitKeeps, ConfirmCodeKeeps
  <1>4. ASSUME NEW r \in Requests, ResetProceeds(r)
        PROVE  ResetIInv'
    <2>1. CASE WeakPassword(r)
      BY <2>1, EndingCallKeeps DEF WeakPassword
    <2>2. CASE ConfirmChange(r)
      BY <2>2, ConfirmGoesKeeps DEF ConfirmChange
    <2>3. CASE ConfirmMark(r)
      BY <2>3, ConfirmGoesKeeps DEF ConfirmMark
    <2> QED BY <1>4, <2>1, <2>2, <2>3, StartExpireKeeps, StartCommitKeeps, ConfirmCommitKeeps
         DEF ResetProceeds
  <1>5. ASSUME NEW r \in Requests, RolledBack(r)
        PROVE  ResetIInv'
    BY <1>5, EndingCallKeeps DEF RolledBack
  <1>6. ASSUME NEW r \in Requests, AccountStep(r)
        PROVE  ResetIInv'
    BY <1>6, <1>1, RowsUntouched, CallAlone DEF AccountStep, ResetIInv, ResetTypeOK,
       ResetDiscipline, CallsHaveRows, CallHasRow, StartsAlone
  <1> QED BY <1>1, <1>2, <1>3, <1>4, <1>5, <1>6 DEF ResetNext

LEMMA ResetInitDiscipline ==
  ASSUME ResetInit
  PROVE  ResetIInv
  <1>1. /\ \A x \in Resets : reset[x] = NoReset
        /\ \A r \in Requests : call[r] = NoStep
        /\ crowded = FALSE
    BY DEF ResetInit
  <1>2. ResetTypeOK
    BY BlankTypes DEF ResetInit, ResetTypeOK
  <1>3. CallsHaveRows /\ StartsAlone
    BY <1>1 DEF CallsHaveRows, CallHasRow, StartsAlone, NoStep
  <1>4. \A x \in Resets : /\ reset[x].state = "absent" /\ ~reset[x].used
                           /\ reset[x].codes_sent = 0 /\ reset[x].attempts = 0 /\ reset[x].wrong = 0
    BY <1>1 DEF NoReset
  <1>5. RowsConsistent /\ OnlyNewestLive /\ ProvenByOwnChat
    BY <1>1, <1>4 DEF RowsConsistent, OnlyNewestLive, ProvenByOwnChat, Live
  <1>6. GuessesBounded
    BY <1>4, LimitsAssumption DEF GuessesBounded
  <1> QED BY <1>2, <1>3, <1>5, <1>6 DEF ResetIInv, ResetDiscipline

(***************************************************************************)
(* What a reset rests on is an invariant: the row of every start and       *)
(* confirmation, and what its codes, wrong codes and chat say.             *)
(***************************************************************************)
THEOREM ResetsDisciplined == ResetSpec => []ResetIInv
  <1>1. ResetIInv /\ [ResetNext]_resetVars => ResetIInv'
    BY ResetNextKeeps
  <1> QED BY ResetInitDiscipline, <1>1, PTL DEF ResetSpec

(***************************************************************************)
(* Only the latest request is valid, unless two were started at once:      *)
(* start_reset expires the older ones in the transaction that inserts it.  *)
(***************************************************************************)
THEOREM NewestAlone == ResetSpec => []OnlyNewestLive
  <1>1. ResetIInv => OnlyNewestLive
    BY DEF ResetIInv, ResetDiscipline
  <1> QED BY <1>1, ResetsDisciplined, PTL

(***************************************************************************)
(* No code goes to, and no password is changed from, a chat that is not    *)
(* the account's: bind_chat leaves a request alone once it sent a code.    *)
(***************************************************************************)
THEOREM CodesGoToTheOwner == ResetSpec => []ProvenByOwnChat
  <1>1. ResetIInv => ProvenByOwnChat
    BY DEF ResetIInv, ResetDiscipline
  <1> QED BY <1>1, ResetsDisciplined, PTL

(***************************************************************************)
(* A request takes a bounded number of wrong codes, however many codes it  *)
(* sends and confirmations overlap.                                        *)
(***************************************************************************)
THEOREM GuessesRunOut == ResetSpec => []GuessesBounded
  <1>1. ResetIInv => GuessesBounded
    BY DEF ResetIInv, ResetDiscipline
  <1> QED BY <1>1, ResetsDisciplined, PTL

-----------------------------------------------------------------------------
(* The account under its resets *)

\* A step of the composition is a step of the account, or leaves it alone.
LEMMA ResetStepsAreSteps ==
  ASSUME [ResetNext]_resetVars
  PROVE  [Next]_vars
  <1>1. ASSUME NEW r \in Requests, ResetProceeds(r)
        PROVE  [Next]_vars
    <2>1. CASE ConfirmChange(r)
      BY <2>1 DEF ConfirmChange, Next
    <2>2. CASE ConfirmMark(r)
      BY <2>2 DEF ConfirmMark, Next, Proceeds, Works
    <2>3. CASE ConfirmCommit(r)
      BY <2>3 DEF ConfirmCommit, Next, Proceeds
    <2> QED BY <1>1, <2>1, <2>2, <2>3 DEF ResetProceeds, StartExpire, StartCommit, WeakPassword
  <1>2. ASSUME NEW r \in Requests, AccountStep(r)
        PROVE  [Next]_vars
    BY <1>2 DEF AccountStep, Next, Proceeds
  <1>3. ASSUME NEW r \in Requests, RolledBack(r)
        PROVE  [Next]_vars
    BY <1>3 DEF RolledBack, Next
  <1>4. ASSUME NEW x \in Resets, NEW r \in Requests,
               StartLimit(r, x) \/ \E n \in 1..MAX_CODES : ConfirmCode(r, x, n)
        PROVE  UNCHANGED vars
    BY <1>4 DEF StartLimit, ConfirmCode
  <1>5. ASSUME NEW x \in Resets,
               Expires(x) \/ \E c \in Chats : BindChat(c, x) \/ HandleContact(c, x)
        PROVE  UNCHANGED vars
    BY <1>5 DEF Expires, BindChat, HandleContact
  <1>6. UNCHANGED resetVars => UNCHANGED vars
    BY DEF resetVars
  <1> QED BY <1>1, <1>2, <1>3, <1>4, <1>5, <1>6 DEF ResetNext

(***************************************************************************)
(* Composed with the reset over Telegram the account still behaves as      *)
(* Sessions says: the second transaction of confirm_reset is one of its    *)
(* password changes, interleaved with the marking of its request.          *)
(***************************************************************************)
THEOREM ResetsRefineSessions == ResetSpec => Spec
  <1>1. ResetInit => Init
    BY DEF ResetInit
  <1>2. [ResetNext]_resetVars => [Next]_vars
    BY ResetStepsAreSteps
  <1> QED BY <1>1, <1>2, PTL DEF ResetSpec, Spec

(***************************************************************************)
(* So a reset over Telegram ends the account's sessions like any other     *)
(* password change.                                                        *)
(***************************************************************************)
THEOREM ResetsEndSessions == ResetSpec => []SessionsFollowPassword
  BY ResetsRefineSessions, SessionsDoNotOutlive, PTL

-----------------------------------------------------------------------------
(* Who changes the password *)

\* The work of a request never makes it, or another, a reset over Telegram.
LEMMA WorkKeepsOps ==
  ASSUME TypeOK, NEW r \in Requests,
         Works(r) \/ ChangeCommit(r) \/ DeadlockVictim(r) \/ Dies(r), NEW q \in Requests
  PROVE  req'[q].op \in {req[q].op, "none"}
  <1>1. CASE Ends(r)
    BY <1>1 DEF Ends, TypeOK, NoCall
  <1>2. ASSUME NEW pc \in Steps, Goes(r, pc)
        PROVE  req'[q].op = req[q].op
    BY <1>2 DEF Goes, TypeOK, Request
  <1>3. CASE \/ CountTokens(r) \/ PickOldest(r) \/ RetireToken(r) \/ SessionsUpdate(r)
             \/ (\E t \in SessionIds : RevokeRead(r, t)) \/ ChangeRead(r)
             \/ (\E s \in SessionIds : LockSession(r, s))
    <2>3. CASE CountTokens(r)
      BY <2>3 DEF CountTokens, TypeOK, Request
    <2>4. CASE PickOldest(r)
      BY <2>4 DEF PickOldest, TypeOK, Request
    <2>5. CASE RetireToken(r)
      BY <2>5 DEF RetireToken, TypeOK, Request
    <2>6. CASE SessionsUpdate(r)
      BY <2>6 DEF SessionsUpdate, TypeOK, Request
    <2>7. CASE \E t \in SessionIds : RevokeRead(r, t)
      <3> PICK t \in SessionIds : RevokeRead(r, t)
        BY <2>7
      <3> DEFINE p == [req[r] EXCEPT !.pc = "save", !.target = t]
      <3>1. p.op = req[r].op
        BY DEF TypeOK, Request
      <3>2. req' = [req EXCEPT ![r] = p] \/ Ends(r)
        BY DEF RevokeRead
      <3> HIDE DEF p
      <3> QED BY <1>1, <3>1, <3>2 DEF TypeOK
    <2>8. CASE ChangeRead(r)
      <3> DEFINE p == [req[r] EXCEPT !.pc = "save", !.era = account.era]
      <3>1. p.op = req[r].op
        BY DEF TypeOK, Request
      <3>2. req' = [req EXCEPT ![r] = p] \/ Ends(r)
        BY <2>8 DEF ChangeRead
      <3> HIDE DEF p
      <3> QED BY <1>1, <3>1, <3>2 DEF TypeOK
    <2>9. CASE \E s \in SessionIds : LockSession(r, s)
      <3>1. PICK s \in SessionIds : LockSession(r, s)
        BY <2>9
      <3>2. req' = [req EXCEPT ![r] = [req[r] EXCEPT !.todo = req[r].todo \ {s}]]
        BY <3>1 DEF LockSession, TypeOK
      <3>3. [req[r] EXCEPT !.todo = req[r].todo \ {s}].op = req[r].op
        BY DEF TypeOK, Request
      <3> QED BY <3>2, <3>3 DEF TypeOK
    <2> QED BY <1>3, <2>3, <2>4, <2>5, <2>6, <2>7, <2>8, <2>9
  <1>4. CASE \/ OpenSession(r) \/ RotateToken(r) \/ BumpSession(r) \/ Touch(r) \/ LogoutToken(r)
             \/ RevokeSave(r) \/ TokensUpdate(r)
    BY <1>2, <1>4 DEF OpenSession, RotateToken, BumpSession, Touch, LogoutToken, RevokeSave,
       TokensUpdate, Steps
  <1>5. CASE RefreshSession(r)
    BY <1>1, <1>2, <1>5 DEF RefreshSession, Steps
  <1>6. CASE SaveUser(r)
    BY <1>6 DEF SaveUser, TypeOK, Request
  <1>7. CASE \/ MintToken(r) \/ LogoutCommit(r) \/ RevokeCommit(r) \/ EditSave(r)
             \/ ChangeCommit(r) \/ DeadlockVictim(r) \/ Dies(r)
    BY <1>1, <1>7 DEF MintToken, LogoutCommit, RevokeCommit, EditSave, ChangeCommit, DeadlockVictim,
       Dies
  <1> QED BY <1>3, <1>4, <1>5, <1>6, <1>7 DEF Works

\* The part of it that relates a request's operation to its call.
Proven == \A r \in Requests : req[r].op = "reset" => call[r].pc \in {"change", "marked"}

LEMMA ProvenKeeps ==
  ASSUME TypeOK, ResetIInv, Proven, [ResetNext]_resetVars
  PROVE  Proven'
  <1> USE DEF Proven
  <1>1. ASSUME UNCHANGED req, NEW r \in Requests, NEW c, call' = [call EXCEPT ![r] = c],
               call[r].pc \in {"change", "marked"} => c.pc \in {"change", "marked"}
        PROVE  Proven'
    BY <1>1 DEF ResetIInv, ResetTypeOK
  <1>2. ASSUME NEW r \in Requests, call' = [call EXCEPT ![r] = NoStep], req'[r].op # "reset",
               \A q \in Requests : req'[q].op \in {req[q].op, "none"}
        PROVE  Proven'
    BY <1>2 DEF ResetIInv, ResetTypeOK
  <1>3. ASSUME UNCHANGED call, \A q \in Requests : req'[q].op = "reset" => req[q].op = "reset"
        PROVE  Proven'
    BY <1>3
  <1>4. UNCHANGED vars => UNCHANGED req
    BY DEF vars
  <1>5. CASE UNCHANGED resetVars
    BY <1>3, <1>5 DEF resetVars, vars
  <1>6. ASSUME NEW x \in Resets,
               Expires(x) \/ \E c \in Chats : BindChat(c, x) \/ HandleContact(c, x)
        PROVE  Proven'
    BY <1>3, <1>4, <1>6 DEF Expires, BindChat, HandleContact
  <1>7. ASSUME NEW r \in Requests, NEW x \in Resets,
               StartLimit(r, x) \/ \E n \in 1..MAX_CODES : ConfirmCode(r, x, n)
        PROVE  Proven'
    <2>1. UNCHANGED req /\ call[r].pc = "idle"
      BY <1>4, <1>7, CallKinds DEF StartLimit, ConfirmCode, Free
    <2>2. UNCHANGED call \/ \E c : call' = [call EXCEPT ![r] = c]
      BY <1>7 DEF StartLimit, ConfirmCode
    <2> QED BY <1>1, <1>3, <2>1, <2>2
  <1>8. ASSUME NEW r \in Requests, ResetProceeds(r)
        PROVE  Proven'
    <2>1. CASE StartExpire(r)
      <3>1. UNCHANGED req /\ call[r].pc = "expire"
        BY <1>4, <2>1 DEF StartExpire
      <3>2. call' = [call EXCEPT ![r] = [call[r] EXCEPT !.pc = "create", !.seen = Older]]
        BY <2>1 DEF StartExpire, ResetIInv, ResetTypeOK
      <3> QED BY <1>1, <3>1, <3>2
    <2>2. CASE StartCommit(r) \/ WeakPassword(r)
      BY <1>1, <1>4, <2>2 DEF StartCommit, WeakPassword
    <2>3. CASE ConfirmChange(r)
      <3>1. req'[r].op = "reset" /\ \A q \in Requests \ {r} : req'[q] = req[q]
        BY <2>3 DEF ConfirmChange, StartChange, TypeOK
      <3>2. call'[r].pc = "change" /\ \A q \in Requests \ {r} : call'[q] = call[q]
        BY <2>3 DEF ConfirmChange, ResetIInv, ResetTypeOK, Call
      <3> QED BY <3>1, <3>2
    <2>4. CASE ConfirmMark(r)
      <3>1. \A q \in Requests : req'[q].op = "reset" => req[q].op = "reset"
        BY <2>4, WorkKeepsOps DEF ConfirmMark, Works
      <3>2. call'[r].pc = "marked" /\ \A q \in Requests \ {r} : call'[q] = call[q]
        BY <2>4 DEF ConfirmMark, ResetIInv, ResetTypeOK, Call
      <3> QED BY <3>1, <3>2
    <2>5. CASE ConfirmCommit(r)
      <3>1. req'[r].op = "none"
        BY <2>5 DEF ConfirmCommit, ChangeCommit, Ends, NoCall, TypeOK
      <3> QED BY <1>2, <2>5, <3>1, WorkKeepsOps DEF ConfirmCommit
    <2> QED BY <1>8, <2>1, <2>2, <2>3, <2>4, <2>5 DEF ResetProceeds
  <1>9. ASSUME NEW r \in Requests, AccountStep(r)
        PROVE  Proven'
    <2>1. CASE Starts(r) \/ StartChange(r, "admin")
      <3>1. \A q \in Requests : req'[q].op = "reset" => req[q].op = "reset"
        <4>1. ASSUME NEW s \in SessionIds, NEW k \in TokenIds, LoginRead(r, s, k)
              PROVE  \A q \in Requests : req'[q].op = "reset" => req[q].op = "reset"
          BY <4>1 DEF LoginRead, NoCall, TypeOK
        <4>2. ASSUME NEW k \in TokenIds, NEW m \in TokenIds, RefreshRead(r, k, m)
              PROVE  \A q \in Requests : req'[q].op = "reset" => req[q].op = "reset"
          BY <4>2 DEF RefreshRead, NoCall, TypeOK
        <4>3. ASSUME NEW op \in SignedIn, NEW s \in SessionIds, NEW k \in TokenIds \cup {None},
                     Authenticate(r, op, s, k)
              PROVE  \A q \in Requests : req'[q].op = "reset" => req[q].op = "reset"
          BY <4>3 DEF Authenticate, SignedIn, NoCall, TypeOK
        <4>4. CASE EditRead(r)
          BY <4>4 DEF EditRead, NoCall, TypeOK
        <4>5. CASE StartChange(r, "admin")
          BY <4>5 DEF StartChange, NoCall, TypeOK
        <4> QED BY <2>1, <4>1, <4>2, <4>3, <4>4, <4>5 DEF Starts
      <3> QED BY <1>3, <1>9, <3>1 DEF AccountStep
    <2>2. CASE Works(r) \/ ChangeCommit(r)
      <3>1. \A q \in Requests : req'[q].op = "reset" => req[q].op = "reset"
        BY <2>2, WorkKeepsOps
      <3> QED BY <1>3, <1>9, <3>1 DEF AccountStep
    <2> QED BY <1>9, <2>1, <2>2 DEF AccountStep
  <1>10. ASSUME NEW r \in Requests, RolledBack(r)
         PROVE  Proven'
    <2>1. req'[r].op = "none"
      BY <1>10 DEF RolledBack, DeadlockVictim, Dies, Ends, NoCall, TypeOK, Idle, vars
    <2>2. \A q \in Requests : req'[q].op \in {req[q].op, "none"}
      BY <1>4, <1>10, WorkKeepsOps DEF RolledBack
    <2> QED BY <1>2, <1>10, <2>1, <2>2 DEF RolledBack
  <1> QED BY <1>5, <1>6, <1>7, <1>8, <1>9, <1>10 DEF ResetNext

(***************************************************************************)
(* The password is changed over Telegram only by a request that was given  *)
(* the code sent to a chat whose phone is the account's, at any step of    *)
(* the change.                                                             *)
(***************************************************************************)
THEOREM ResetsAreTheOwners == ResetSpec => []ResetByOwner
  <1>1. ResetInit => Proven
    BY DEF ResetInit, Init, NoCall, Proven
  <1>2. TypeOK /\ ResetIInv /\ Proven /\ [ResetNext]_resetVars => Proven'
    BY ProvenKeeps
  <1>3. ResetIInv /\ Proven => ResetByOwner
    BY CallKinds DEF ResetIInv, ResetDiscipline, CallsHaveRows, CallHasRow, ProvenByOwnChat, Proven,
       ResetByOwner
  <1> QED BY <1>1, <1>2, <1>3, ResetsDisciplined, ResetsRefineSessions, TypeCorrect, PTL
      DEF ResetSpec
=============================================================================

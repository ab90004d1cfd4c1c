--------------------------- MODULE Sessions_proofs ---------------------------
(***************************************************************************)
(* Proofs about Sessions, for any number of requests, sessions and tokens: *)
(* types; who keeps which row (IInv) and what a password change therefore  *)
(* meets; who mints and rotates tokens under which lock (TokenDiscipline); *)
(* and who can wait for whom in a circle (HangsThroughLogout).             *)
(***************************************************************************)
EXTENDS Sessions, FiniteSetTheorems, WellFoundedInduction, TLAPS

\* The sets of tokens that are counted are finite.
LEMMA TokensCountable ==
  ASSUME NEW K \in SUBSET TokenIds
  PROVE  Cardinality(K) \in Nat
  BY TokensAssumption, FS_Subset, FS_CardinalityType

\* How far a count is over the limit is a number.
LEMMA ExcessType ==
  ASSUME NEW n \in Nat
  PROVE  Excess(n) \in Nat
  BY BoundAssumption DEF Excess

-----------------------------------------------------------------------------
(* Types *)

\* Updating one request's record keeps the types if the record keeps its own.
LEMMA UpdateType ==
  ASSUME TypeOK, NEW r \in Requests, NEW q \in Request, req' = [req EXCEPT ![r] = q]
  PROVE  req' \in [Requests -> Request]
  BY DEF TypeOK

\* The fields of a request, one at a time.
LEMMA FieldType ==
  ASSUME NEW q \in Request
  PROVE  /\ \A pc \in Steps : [q EXCEPT !.pc = pc] \in Request
         /\ \A op \in AllOps : [q EXCEPT !.op = op] \in Request
         /\ \A s \in SessionIds : [q EXCEPT !.session = s] \in Request
         /\ \A s \in SessionIds : [q EXCEPT !.target = s] \in Request
         /\ \A k \in TokenIds \cup {None} : [q EXCEPT !.token = k] \in Request
         /\ \A k \in TokenIds : [q EXCEPT !.minted = k] \in Request
         /\ \A n \in Nat : [q EXCEPT !.password = n] \in Request
         /\ \A n \in Nat : [q EXCEPT !.excess = n] \in Request
         /\ \A n \in Nat : [q EXCEPT !.era = n] \in Request
         /\ \A b \in BOOLEAN : [q EXCEPT !.late = b] \in Request
         /\ \A K \in SUBSET TokenIds : [q EXCEPT !.doomed = K] \in Request
         /\ \A S \in SUBSET SessionIds : [q EXCEPT !.todo = S] \in Request
  <1>1. \A pc \in Steps : [q EXCEPT !.pc = pc] \in Request
    BY DEF Request
  <1>2. \A op \in AllOps : [q EXCEPT !.op = op] \in Request
    BY DEF Request
  <1>3. \A s \in SessionIds : [q EXCEPT !.session = s] \in Request
    BY DEF Request
  <1>4. \A s \in SessionIds : [q EXCEPT !.target = s] \in Request
    BY DEF Request
  <1>5. \A k \in TokenIds \cup {None} : [q EXCEPT !.token = k] \in Request
    BY DEF Request
  <1>6. \A k \in TokenIds : [q EXCEPT !.minted = k] \in Request
    BY DEF Request
  <1>7. \A n \in Nat : [q EXCEPT !.password = n] \in Request
    BY DEF Request
  <1>8. \A n \in Nat : [q EXCEPT !.excess = n] \in Request
    BY DEF Request
  <1>9. \A n \in Nat : [q EXCEPT !.era = n] \in Request
    BY DEF Request
  <1>10. \A b \in BOOLEAN : [q EXCEPT !.late = b] \in Request
    BY DEF Request
  <1>11. \A K \in SUBSET TokenIds : [q EXCEPT !.doomed = K] \in Request
    BY DEF Request
  <1>12. \A S \in SUBSET SessionIds : [q EXCEPT !.todo = S] \in Request
    BY DEF Request
  <1> QED BY <1>1, <1>2, <1>3, <1>4, <1>5, <1>6, <1>7, <1>8, <1>9, <1>10, <1>11, <1>12

\* Moving a request on, or ending it, keeps the types.
LEMMA GoesType ==
  ASSUME TypeOK, NEW r \in Requests, NEW pc \in Steps, Goes(r, pc)
  PROVE  req' \in [Requests -> Request]
  <1> DEFINE q == [req[r] EXCEPT !.pc = pc]
  <1>1. q \in Request
    BY FieldType DEF TypeOK
  <1>2. req' = [req EXCEPT ![r] = q]
    BY DEF Goes, TypeOK
  <1> HIDE DEF q
  <1> QED BY <1>1, <1>2, UpdateType

\* The record of an idle request is well typed.
LEMMA NoCallType == NoCall \in Request
  BY DEF NoCall, Request, Steps, AllOps, Steps

\* Ending a request keeps the types and frees its locks.
LEMMA EndsType ==
  ASSUME TypeOK, NEW r \in Requests, Ends(r)
  PROVE  req' \in [Requests -> Request] /\ lock' \in Locks
  <1>1. req' \in [Requests -> Request]
    BY NoCallType DEF TypeOK, Ends
  <1>2. Unlocked(r) \in Locks
    BY DEF TypeOK, Unlocked, Locks
  <1> QED BY <1>1, <1>2 DEF Ends

\* Starting a request of any kind keeps the types.
LEMMA StartsType ==
  ASSUME TypeOK, NEW r \in Requests, Starts(r) \/ \E op \in {"admin", "reset"} : StartChange(r, op)
  PROVE  TypeOK'
  <1> USE DEF TypeOK
  <1>1. CASE \E s \in SessionIds, k \in TokenIds : LoginRead(r, s, k)
    <2> PICK s \in SessionIds, k \in TokenIds : LoginRead(r, s, k) BY <1>1
    <2> DEFINE late == \E q \in Requests : Open(q)
               q == [NoCall EXCEPT !.op = "login", !.pc = "count", !.session = s, !.minted = k,
                                   !.era = account.era, !.late = late]
    <2>1. account.era \in Nat /\ late \in BOOLEAN /\ "login" \in AllOps /\ "count" \in Steps
      BY DEF Account, AllOps, Changes, SignedIn, Steps
    <2> HIDE DEF late
    <2>2. q \in Request
      BY <2>1, NoCallType, FieldType
    <2>3. req' = [req EXCEPT ![r] = q]
      BY DEF LoginRead, late
    <2> HIDE DEF q
    <2>4. req' \in [Requests -> Request]
      BY <2>2, <2>3, UpdateType
    <2>5. overlap' \in Overlap
      BY DEF LoginRead, Overlap, Crowd
    <2> QED BY <2>4, <2>5 DEF LoginRead
  <1>2. CASE \E k, m \in TokenIds : RefreshRead(r, k, m)
    <2> PICK k, m \in TokenIds : RefreshRead(r, k, m) BY <1>2
    <2>0. token[k].session \in SessionIds \cup {None}
      BY DEF TokenRow
    <2>1. req' \in [Requests -> Request]
      BY <2>0, NoCallType DEF RefreshRead, Request, Steps, AllOps
    <2>2. overlap' \in Overlap
      BY DEF RefreshRead, Overlap, Crowd
    <2> QED BY <2>1, <2>2 DEF RefreshRead
  <1>3. CASE \E op \in SignedIn, s \in SessionIds, k \in TokenIds \cup {None} :
               Authenticate(r, op, s, k)
    <2> PICK op \in SignedIn, s \in SessionIds, k \in TokenIds \cup {None} :
               Authenticate(r, op, s, k)
      BY <1>3
    <2> DEFINE q == [NoCall EXCEPT !.op = op, !.pc = "touch", !.session = s, !.token = k]
    <2>1. op \in AllOps /\ "touch" \in Steps
      BY DEF AllOps, Changes, SignedIn, Steps
    <2>2. q \in Request
      BY <2>1, NoCallType, FieldType
    <2>3. req' = [req EXCEPT ![r] = q]
      BY DEF Authenticate
    <2> HIDE DEF q
    <2>4. req' \in [Requests -> Request]
      BY <2>2, <2>3, UpdateType
    <2> QED BY <2>4 DEF Authenticate
  <1>4. CASE EditRead(r)
    <2> DEFINE q == [NoCall EXCEPT !.op = "edit", !.pc = "save", !.password = account.password]
    <2>1. account.password \in Nat /\ "edit" \in AllOps /\ "save" \in Steps
      BY DEF Account, AllOps, Changes, SignedIn, Steps
    <2>2. q \in Request
      BY <2>1, NoCallType, FieldType
    <2>3. req' = [req EXCEPT ![r] = q]
      BY <1>4 DEF EditRead
    <2> HIDE DEF q
    <2>4. req' \in [Requests -> Request]
      BY <2>2, <2>3, UpdateType
    <2> QED BY <1>4, <2>4 DEF EditRead
  <1>5. CASE \E op \in {"admin", "reset"} : StartChange(r, op)
    <2> PICK op \in {"admin", "reset"} : StartChange(r, op) BY <1>5
    <2> DEFINE q == [NoCall EXCEPT !.op = op, !.pc = "save"]
    <2>1. op \in AllOps /\ "save" \in Steps
      BY DEF AllOps, Changes, SignedIn, Steps
    <2>2. q \in Request
      BY <2>1, NoCallType, FieldType
    <2>3. req' = [req EXCEPT ![r] = q]
      BY DEF StartChange
    <2> HIDE DEF q
    <2>4. req' \in [Requests -> Request]
      BY <2>2, <2>3, UpdateType
    <2> QED BY <2>4 DEF StartChange
  <1> QED BY <1>1, <1>2, <1>3, <1>4, <1>5 DEF Starts

\* A step of a login or a refresh keeps the types.
LEMMA IssueType ==
  ASSUME TypeOK, NEW r \in Requests,
         \/ CountTokens(r) \/ PickOldest(r) \/ RetireToken(r) \/ OpenSession(r) \/ MintToken(r)
         \/ RefreshSession(r) \/ RotateToken(r) \/ BumpSession(r)
  PROVE  TypeOK'
  <1> USE DEF TypeOK
  <1>1. CASE CountTokens(r)
    <2>1. Excess(Cardinality(ActiveTokens)) \in Nat
      BY TokensCountable, ExcessType DEF ActiveTokens
    <2> DEFINE n == Excess(Cardinality(ActiveTokens))
               q == [req[r] EXCEPT !.pc = IF n > 0 THEN "pick" ELSE "open", !.excess = n]
    <2>2. req' = [req EXCEPT ![r] = q]
      BY <1>1 DEF CountTokens
    <2>3. req[r] \in Request
      OBVIOUS
    <2>4. q \in Request
      <3>1. (IF n > 0 THEN "pick" ELSE "open") \in Steps
        BY DEF Steps
      <3> QED BY <2>1, <2>3, <3>1, FieldType
    <2> HIDE DEF q
    <2>5. req' \in [Requests -> Request]
      BY <2>2, <2>4, UpdateType
    <2> QED BY <1>1, <2>5 DEF CountTokens
  <1>2. CASE PickOldest(r)
    <2>1. Oldest(ActiveTokens, req[r].excess) \subseteq TokenIds
      BY DEF Oldest, ActiveTokens
    <2> DEFINE K == Oldest(ActiveTokens, req[r].excess)
               q == [req[r] EXCEPT !.pc = IF K = {} THEN "open" ELSE "retire",
                                   !.excess = 0, !.doomed = K]
    <2>2. req' = [req EXCEPT ![r] = q]
      BY <1>2 DEF PickOldest
    <2>3. req[r] \in Request /\ (IF K = {} THEN "open" ELSE "retire") \in Steps /\ 0 \in Nat
      BY DEF Steps
    <2>4. q \in Request
      <3> HIDE DEF K
      <3> QED BY <2>1, <2>3, FieldType DEF K
    <2> HIDE DEF q
    <2>5. req' \in [Requests -> Request]
      BY <2>2, <2>4, UpdateType
    <2> QED BY <1>2, <2>5 DEF PickOldest
  <1>3. CASE RetireToken(r)
    <2>1. PICK k \in Oldest(req[r].doomed, 1) :
            /\ token' = [token EXCEPT ![k].status = "revoked"]
            /\ req' = [req EXCEPT ![r] = [@ EXCEPT !.doomed = req[r].doomed \ {k},
                                  !.pc = IF req[r].doomed = {k} THEN "open" ELSE "retire"]]
      BY <1>3 DEF RetireToken
    <2> DEFINE D == req[r].doomed \ {k}
               pc == IF req[r].doomed = {k} THEN "open" ELSE "retire"
               q == [req[r] EXCEPT !.doomed = D, !.pc = pc]
    <2>a. req[r] \in Request /\ pc \in Steps /\ D \in SUBSET TokenIds
      BY DEF Steps, Request
    <2>b. q \in Request
      <3> HIDE DEF D, pc
      <3> QED BY <2>a, FieldType
    <2>c. req' = [req EXCEPT ![r] = q]
      BY <2>1
    <2>2. req' \in [Requests -> Request]
      <3> HIDE DEF q
      <3> QED BY <2>b, <2>c, UpdateType
    <2>3. token' \in [TokenIds -> TokenRow]
      BY <2>1 DEF TokenRow
    <2> QED BY <1>3, <2>2, <2>3 DEF RetireToken
  <1>4. CASE OpenSession(r)
    <2>1. req' \in [Requests -> Request]
      BY <1>4, GoesType DEF Steps, OpenSession
    <2>2. session' \in [SessionIds -> SessionRow]
      BY <1>4 DEF OpenSession, SessionRow, Request
    <2> QED BY <1>4, <2>1, <2>2 DEF OpenSession
  <1>5. CASE MintToken(r)
    <2>1. Cardinality({k \in TokenIds : token[k].status # "absent"}) \in Nat
      BY TokensCountable
    <2>2. token' \in [TokenIds -> TokenRow]
      BY <1>5, <2>1 DEF MintToken, TokenRow, Request
    <2>3. overlap' \in Overlap
      BY <1>5 DEF MintToken, Overlap
    <2> QED BY <1>5, <2>2, <2>3, EndsType DEF MintToken
  <1>6. CASE RefreshSession(r)
    BY <1>6, GoesType, EndsType DEF Steps, RefreshSession
  <1>7. CASE RotateToken(r)
    <2>a. \A x \in TokenRow : [x EXCEPT !.status = "revoked"] \in TokenRow
      BY DEF TokenRow
    <2>1. token' \in [TokenIds -> TokenRow]
      BY <1>7, <2>a DEF RotateToken
    <2> QED BY <1>7, <2>1, GoesType DEF Steps, RotateToken
  <1>8. CASE BumpSession(r)
    BY <1>8, GoesType DEF Steps, BumpSession
  <1> QED BY <1>1, <1>2, <1>3, <1>4, <1>5, <1>6, <1>7, <1>8

\* The records of absent and ended sessions are well typed.
LEMMA EndedType == Ended \in SessionRow /\ NoSession \in SessionRow
  BY DEF Ended, NoSession, SessionRow

\* A step of a logout, a revocation or an edit keeps the types.
LEMMA SignedInType ==
  ASSUME TypeOK, NEW r \in Requests,
         \/ Touch(r) \/ LogoutToken(r) \/ LogoutCommit(r)
         \/ (\E t \in SessionIds : RevokeRead(r, t)) \/ RevokeSave(r) \/ RevokeCommit(r)
         \/ EditSave(r)
  PROVE  TypeOK'
  <1> USE DEF TypeOK
  <1>1. CASE Touch(r)
    <2>1. lock' \in Locks
      BY <1>1 DEF Touch, Touched, Locks
    <2> QED BY <1>1, <2>1, GoesType DEF Steps, Touch
  <1>2. CASE LogoutToken(r)
    <2>1. token' \in [TokenIds -> TokenRow]
      BY <1>2 DEF LogoutToken, TokenRow
    <2> QED BY <1>2, <2>1, GoesType DEF Steps, LogoutToken
  <1>3. CASE LogoutCommit(r)
    BY <1>3, EndsType, EndedType DEF LogoutCommit, EndSessions
  <1>4. CASE \E t \in SessionIds : RevokeRead(r, t)
    <2> PICK t \in SessionIds : RevokeRead(r, t) BY <1>4
    <2>1. CASE Active(t)
      <3> DEFINE q == [req[r] EXCEPT !.pc = "save", !.target = t]
      <3>a. req[r] \in Request /\ "save" \in Steps
        BY DEF Steps
      <3>b. q \in Request
        BY <3>a, FieldType
      <3>c. req' = [req EXCEPT ![r] = q]
        BY <2>1 DEF RevokeRead
      <3>1. req' \in [Requests -> Request]
        <4> HIDE DEF q
        <4> QED BY <3>b, <3>c, UpdateType
      <3> QED BY <2>1, <3>1 DEF RevokeRead
    <2>2. CASE ~Active(t)
      BY <2>2, EndsType DEF RevokeRead
    <2> QED BY <2>1, <2>2
  <1>5. CASE RevokeSave(r)
    <2>1. lock' \in Locks
      BY <1>5 DEF RevokeSave, Locks
    <2> QED BY <1>5, <2>1, GoesType DEF Steps, RevokeSave
  <1>6. CASE RevokeCommit(r)
    BY <1>6, EndsType, EndedType DEF RevokeCommit, EndSessions
  <1>7. CASE EditSave(r)
    <2>1. account' \in Account
      BY <1>7 DEF EditSave, Account, Request
    <2> QED BY <1>7, <2>1, EndsType DEF EditSave
  <1> QED BY <1>1, <1>2, <1>3, <1>4, <1>5, <1>6, <1>7

\* A step of a password change keeps the types.
LEMMA ChangeType ==
  ASSUME TypeOK, NEW r \in Requests,
         \/ ChangeRead(r) \/ SaveUser(r) \/ TokensUpdate(r) \/ SessionsUpdate(r)
         \/ (\E s \in SessionIds : LockSession(r, s)) \/ ChangeCommit(r)
  PROVE  TypeOK'
  <1> USE DEF TypeOK
  <1>1. CASE ChangeRead(r)
    <2>1. CASE Ends(r)
      BY <1>1, <2>1, EndsType DEF ChangeRead
    <2>2. CASE ~Ends(r)
      <3> DEFINE q == [req[r] EXCEPT !.pc = "save", !.era = account.era]
      <3>a. req[r] \in Request /\ "save" \in Steps /\ account.era \in Nat
        BY DEF Steps, Account
      <3>b. q \in Request
        BY <3>a, FieldType
      <3>c. req' = [req EXCEPT ![r] = q]
        BY <1>1, <2>2 DEF ChangeRead
      <3>1. req' \in [Requests -> Request]
        <4> HIDE DEF q
        <4> QED BY <3>b, <3>c, UpdateType
      <3> QED BY <1>1, <2>2, <3>1 DEF ChangeRead
    <2> QED BY <2>1, <2>2
  <1>2. CASE SaveUser(r)
    <2> DEFINE pc == IF req[r].op = "change" THEN "sessions" ELSE "tokens"
    <2>a. pc \in Steps
      BY DEF Steps
    <2>b. \A q \in Requests : /\ req[q] \in Request
                              /\ [req[q] EXCEPT !.pc = pc] \in Request
                              /\ [req[q] EXCEPT !.late = TRUE] \in Request
      <3> HIDE DEF pc
      <3> QED BY <2>a, FieldType
    <2>1. req' \in [Requests -> Request]
      BY <1>2, <2>b DEF SaveUser
    <2>2. lock' \in Locks
      BY <1>2 DEF SaveUser, Locks
    <2> QED BY <1>2, <2>1, <2>2 DEF SaveUser
  <1>3. CASE TokensUpdate(r)
    <2>1. lock' \in Locks
      BY <1>3 DEF TokensUpdate, Locks
    <2> QED BY <1>3, <2>1, GoesType DEF Steps, TokensUpdate
  <1>4. CASE SessionsUpdate(r)
    <2>1. Outdated(req[r]) \subseteq SessionIds
      BY DEF Outdated
    <2> DEFINE q == [req[r] EXCEPT !.pc = "ending", !.todo = Outdated(req[r])]
    <2>a. req[r] \in Request /\ "ending" \in Steps
      BY DEF Steps
    <2>b. q \in Request
      BY <2>1, <2>a, FieldType
    <2>c. req' = [req EXCEPT ![r] = q]
      BY <1>4 DEF SessionsUpdate
    <2>2. req' \in [Requests -> Request]
      <3> HIDE DEF q
      <3> QED BY <2>b, <2>c, UpdateType
    <2> QED BY <1>4, <2>2 DEF SessionsUpdate
  <1>5. CASE \E s \in SessionIds : LockSession(r, s)
    <2> PICK s \in SessionIds : LockSession(r, s) BY <1>5
    <2> DEFINE q == [req[r] EXCEPT !.todo = req[r].todo \ {s}]
    <2>a. req[r] \in Request /\ req[r].todo \ {s} \in SUBSET SessionIds
      BY DEF Request
    <2>b. q \in Request
      BY <2>a, FieldType
    <2>c. req' = [req EXCEPT ![r] = q]
      BY DEF LockSession
    <2>1. req' \in [Requests -> Request]
      <3> HIDE DEF q
      <3> QED BY <2>b, <2>c, UpdateType
    <2>2. lock' \in Locks
      BY DEF LockSession, Locks
    <2> QED BY <2>1, <2>2 DEF LockSession
  <1>6. CASE ChangeCommit(r)
    <2>1. account' \in Account
      BY <1>6 DEF ChangeCommit, Account
    <2>2. session' \in [SessionIds -> SessionRow]
      BY <1>6, EndedType DEF ChangeCommit, SessionRow, Account
    <2>3. token' \in [TokenIds -> TokenRow]
      BY <1>6 DEF ChangeCommit, TokenRow
    <2> QED BY <1>6, <2>1, <2>2, <2>3, EndsType DEF ChangeCommit
  <1> QED BY <1>1, <1>2, <1>3, <1>4, <1>5, <1>6

\* Every step keeps the types.
LEMMA NextType ==
  ASSUME TypeOK, [Next]_vars
  PROVE  TypeOK'
  <1>1. CASE UNCHANGED vars
    BY <1>1 DEF TypeOK, vars
  <1>2. CASE Next
    <2> PICK r \in Requests :
          \/ Starts(r) \/ (\E op \in {"admin", "reset"} : StartChange(r, op))
          \/ Proceeds(r) \/ DeadlockVictim(r) \/ Dies(r)
      BY <1>2 DEF Next
    <2>1. CASE DeadlockVictim(r) \/ Dies(r)
      BY <2>1, EndsType DEF DeadlockVictim, Dies, TypeOK
    <2>2. CASE Proceeds(r)
      BY <2>2, IssueType, SignedInType, ChangeType DEF Proceeds, Works
    <2> QED BY <2>1, <2>2, StartsType
  <1> QED BY <1>1, <1>2

\* So do the initial states.
LEMMA InitType ==
  ASSUME Init
  PROVE  TypeOK
  BY EndedType, NoCallType DEF Init, TypeOK, Account, TokenRow, NoToken, Locks, Overlap

\* Every variable keeps its type, whatever the requests do.
THEOREM TypeCorrect == Spec => []TypeOK
  <1>1. TypeOK /\ [Next]_vars => TypeOK'
    BY NextType
  <1> QED BY InitType, <1>1, PTL DEF Spec

-----------------------------------------------------------------------------
(* The locking discipline *)

Others(r) == \A q \in Requests \ {r} : req'[q] = req[q]

\* Everything of a call but its step, its tokens and its count.
SameCall(r) ==
  /\ req'[r].op = req[r].op /\ req'[r].session = req[r].session
  /\ req'[r].target = req[r].target /\ req'[r].era = req[r].era
  /\ req'[r].late = req[r].late /\ req'[r].todo = req[r].todo

Opening == {"count", "pick", "retire", "open"}

\* What moving on changes: the step of one request.
LEMMA GoesFacts ==
  ASSUME TypeOK, NEW r \in Requests, NEW pc, Goes(r, pc)
  PROVE  Others(r) /\ SameCall(r) /\ req'[r].pc = pc
  BY DEF TypeOK, Goes, Others, SameCall, Request

\* What ending changes: one request, and the locks it kept.
LEMMA EndsFacts ==
  ASSUME TypeOK, NEW r \in Requests, Ends(r)
  PROVE  /\ Others(r) /\ req'[r].op = "none" /\ req'[r].late = FALSE
         /\ lock'.user = IF lock.user = r THEN None ELSE lock.user
         /\ \A s \in SessionIds :
              lock'.session[s] = IF lock.session[s] = r THEN None ELSE lock.session[s]
         /\ \A k \in TokenIds :
              lock'.token[k] = IF lock.token[k] = r THEN None ELSE lock.token[k]
  BY DEF TypeOK, Ends, Others, Unlocked, NoCall

\* A refresh, a step of a login before it opens its session and the token of a
\* logout leave the discipline alone.
LEMMA Quiet ==
  ASSUME TypeOK, Discipline, NEW r \in Requests, Others(r), SameCall(r),
         UNCHANGED <<account, session, lock>>,
         \/ req[r].op = "refresh"
         \/ req[r].op = "login" /\ req[r].pc \in Opening /\ req'[r].pc \in Opening
         \/ req[r].op = "logout" /\ req[r].pc = "token" /\ req'[r].pc = "commit"
  PROVE  Discipline'
  <1> USE DEF Others, SameCall, Opening
  <1>1. /\ lock.user \in Requests \cup {None}
        /\ \A s \in SessionIds : lock.session[s] \in Requests \cup {None}
        /\ \A n \in TokenIds : lock.token[n] \in Requests \cup {None}
    BY DEF TypeOK, Locks
  <1>c1. LocksOwned'
    <2>1. /\ UNCHANGED lock /\ req[r].op \notin Changes
          /\ req[r].op \in SignedIn => req[r].pc # "touch" /\ req'[r].pc # "touch"
          /\ req[r].op # "revoke"
      BY DEF SignedIn, Changes
    <2>2. LocksOwned
      BY DEF Discipline
    <2>3. lock.user # r
      BY <2>1, <2>2, NoneAssumption DEF LocksOwned
    <2>4. ASSUME NEW x \in SessionIds, lock.session[x] # None
          PROVE  LET q == req'[lock.session[x]] IN
                 \/ q.op \in SignedIn /\ q.session = x /\ q.pc # "touch"
                 \/ q.op = "revoke" /\ q.pc = "commit" /\ q.target = x
                 \/ q.op \in Changes /\ q.pc = "ending" /\ x \notin q.todo
      <3>1. CASE lock.session[x] = r
        BY <2>1, <2>2, <2>4, <3>1 DEF LocksOwned, At
      <3>2. CASE lock.session[x] # r
        BY <1>1, <2>2, <2>4, <3>2 DEF LocksOwned, At
      <3> QED BY <3>1, <3>2
    <2>5. ASSUME lock.user # None
          PROVE  req'[lock.user].op = req[lock.user].op /\ req'[lock.user].pc = req[lock.user].pc
      BY <1>1, <2>3, <2>5
    <2>6. \A x \in TokenIds : lock.token[x] # None => lock.user # None
      BY <2>2, NoneAssumption DEF LocksOwned
    <2>7. UNCHANGED lock
      OBVIOUS
    <2>8. lock.user # None =>
            req'[lock.user].op \in Changes /\ req'[lock.user].pc \in {"tokens", "sessions", "ending"}
      BY <2>2, <2>5 DEF LocksOwned
    <2>9. \A k \in TokenIds : lock.token[k] # None =>
            lock.token[k] = lock.user /\ req'[lock.user].op \in {"admin", "reset"}
      BY <2>2, <2>5, <2>6 DEF LocksOwned
    <2> QED BY <2>4, <2>7, <2>8, <2>9 DEF LocksOwned, At
  <1>c2. ChangeOwnsUser'
    BY DEF Discipline, ChangeOwnsUser, Changes
  <1>c3. CallerOwnsSession'
    BY DEF Discipline, CallerOwnsSession, SignedIn
  <1>c4. ChangeMeetsSessions'
    BY DEF Discipline, ChangeMeetsSessions, Active, Spared, Changes
  <1>c5. LoginsCurrent'
    BY DEF Discipline, LoginsCurrent, Open, Changes
  <1>c6. OpensFresh'
    BY DEF Discipline, OpensFresh
  <1>c7. SessionsFollowPassword'
    BY DEF Discipline, SessionsFollowPassword, Active
  <1>c8. ProvenStillCurrent'
    BY DEF Discipline, CallerOwnsSession, SignedIn, ProvenStillCurrent, Active
  <1> QED BY <1>c1, <1>c2, <1>c3, <1>c4, <1>c5, <1>c6, <1>c7, <1>c8 DEF Discipline

\* So does the end of a request, with the sessions it has ended.
LEMMA Ending ==
  ASSUME TypeOK, Discipline, NEW r \in Requests, Ends(r),
         account'.era = account.era,
         NEW S \in SUBSET {s \in SessionIds : session[s].state # "absent"},
         session' = [s \in SessionIds |-> IF s \in S THEN Ended ELSE session[s]]
  PROVE  Discipline'
  <1>1. /\ Others(r) /\ req'[r].op = "none"
        /\ lock'.user = IF lock.user = r THEN None ELSE lock.user
        /\ \A s \in SessionIds :
             lock'.session[s] = IF lock.session[s] = r THEN None ELSE lock.session[s]
        /\ \A k \in TokenIds :
             lock'.token[k] = IF lock.token[k] = r THEN None ELSE lock.token[k]
    BY EndsFacts
  <1>2. \A s \in SessionIds : session'[s] = IF s \in S THEN Ended ELSE session[s]
    OBVIOUS
  <1>3. Ended.state = "ended"
    BY DEF Ended, NoSession
  <1>4. \A s \in SessionIds : lock.session[s] \in Requests \cup {None}
    BY DEF TypeOK, Locks
  <1>5. lock.user \in Requests \cup {None} /\ \A n \in TokenIds : lock.token[n] \in Requests \cup {None}
    BY DEF TypeOK, Locks
  <1> USE DEF Others
  <1>c1. LocksOwned'
    BY <1>1, <1>2, <1>3, <1>4, <1>5, NoneAssumption DEF Discipline, LocksOwned, SignedIn, At, Changes
  <1>c2. ChangeOwnsUser'
    BY <1>1, <1>2, <1>3, <1>4, <1>5, NoneAssumption DEF Discipline, ChangeOwnsUser, Changes
  <1>c3. CallerOwnsSession'
    BY <1>1, <1>2, <1>3, <1>4, <1>5, NoneAssumption DEF Discipline, CallerOwnsSession, SignedIn
  <1>c4. ChangeMeetsSessions'
    BY <1>1, <1>2, <1>3, <1>4, <1>5, NoneAssumption DEF Discipline, ChangeMeetsSessions, Active, Spared, Changes
  <1>c5. LoginsCurrent'
    BY <1>1, <1>2, <1>3, <1>4, <1>5, NoneAssumption DEF Discipline, LoginsCurrent, Open, Changes
  <1>c6. OpensFresh'
    BY <1>1, <1>2, <1>3, <1>4, <1>5, NoneAssumption DEF Discipline, OpensFresh
  <1>c7. SessionsFollowPassword'
    BY <1>1, <1>2, <1>3, <1>4, <1>5, NoneAssumption DEF Discipline, SessionsFollowPassword, Active
  <1>c8. ProvenStillCurrent'
    BY <1>1, <1>2, <1>3, <1>4, <1>5, NoneAssumption DEF Discipline, CallerOwnsSession, SignedIn, ProvenStillCurrent, Active
  <1> QED BY <1>c1, <1>c2, <1>c3, <1>c4, <1>c5, <1>c6, <1>c7, <1>c8 DEF Discipline

\* A request that starts, other than a login, keeps the discipline.
LEMMA Launch ==
  ASSUME TypeOK, Discipline, NEW r \in Requests, Idle(r), Others(r),
         UNCHANGED <<account, session, lock>>,
         \/ req'[r].op \in {"refresh", "edit", "admin", "reset"} /\ req'[r].pc \in {"session", "save"}
         \/ /\ req'[r].op \in SignedIn /\ req'[r].pc = "touch"
            /\ req'[r].session \in SessionIds /\ Active(req'[r].session)
  PROVE  Discipline'
  <1>0. /\ lock.user \in Requests \cup {None}
        /\ \A x \in SessionIds : lock.session[x] \in Requests \cup {None}
        /\ \A n \in TokenIds : lock.token[n] \in Requests \cup {None}
    BY DEF TypeOK, Locks
  <1> USE DEF Others, Idle
  <1>c1. LocksOwned'
    BY <1>0, NoneAssumption DEF Discipline, LocksOwned, SignedIn, At, Changes
  <1>c2. ChangeOwnsUser'
    BY <1>0, NoneAssumption DEF Discipline, ChangeOwnsUser, Changes
  <1>c3. CallerOwnsSession'
    BY <1>0, NoneAssumption DEF Discipline, CallerOwnsSession, SignedIn, Active
  <1>c4. ChangeMeetsSessions'
    BY <1>0, NoneAssumption DEF Discipline, ChangeMeetsSessions, Active, Spared, Changes
  <1>1. lock.user # r
    BY <1>0, NoneAssumption DEF Discipline, LocksOwned, SignedIn, Changes
  <1>c5. LoginsCurrent'
    BY <1>0, <1>1, NoneAssumption DEF Discipline, LoginsCurrent, SignedIn, Open, Changes
  <1>c6. OpensFresh'
    BY <1>0, NoneAssumption DEF Discipline, OpensFresh, SignedIn
  <1>c7. SessionsFollowPassword'
    BY <1>0, NoneAssumption DEF Discipline, SessionsFollowPassword, Active
  <1>c8. ProvenStillCurrent'
    BY <1>0, NoneAssumption DEF Discipline, ProvenStillCurrent, SignedIn, CallerOwnsSession, Active
  <1> QED BY <1>c1, <1>c2, <1>c3, <1>c4, <1>c5, <1>c6, <1>c7, <1>c8 DEF Discipline

\* A login that starts knows the changes it overlaps.
LEMMA LoginReadKeeps ==
  ASSUME TypeOK, Discipline, NEW r \in Requests, NEW s \in SessionIds, NEW k \in TokenIds,
         LoginRead(r, s, k)
  PROVE  Discipline'
  <1>0. /\ lock.user \in Requests \cup {None}
        /\ \A x \in SessionIds : lock.session[x] \in Requests \cup {None}
        /\ \A n \in TokenIds : lock.token[n] \in Requests \cup {None}
    BY DEF TypeOK, Locks
  <1>1. /\ Others(r) /\ req'[r].op = "login" /\ req'[r].pc = "count"
        /\ req'[r].session = s /\ req'[r].era = account.era
        /\ req'[r].late = \E q \in Requests : Open(q)
    BY DEF LoginRead, Others, TypeOK, NoCall
  <1>2. /\ Idle(r) /\ FreshSession(s) /\ UNCHANGED <<account, session, lock>>
    BY DEF LoginRead
  <1>3. \A q \in Requests : Open(q)' <=> Open(q)
    BY <1>1, <1>2 DEF Open, Changes, Idle, Others
  <1>4. \A q \in Requests : (Open(q)' => req'[r].late) /\ (q # r => (Open(q)' => Open(q)))
    BY <1>1, <1>3
  <1> USE DEF Others, Idle
  <1>c1. LocksOwned'
    BY <1>0, <1>1, <1>2, NoneAssumption DEF Discipline, LocksOwned, SignedIn, At, Changes
  <1>c2. ChangeOwnsUser'
    BY <1>0, <1>1, <1>2, NoneAssumption DEF Discipline, ChangeOwnsUser, Changes
  <1>c3. CallerOwnsSession'
    BY <1>0, <1>1, <1>2, NoneAssumption DEF Discipline, CallerOwnsSession, SignedIn
  <1>c4. ChangeMeetsSessions'
    BY <1>0, <1>1, <1>2, NoneAssumption DEF Discipline, ChangeMeetsSessions, Active, Spared, Changes
  <1>c5. LoginsCurrent'
    <2> SUFFICES ASSUME NEW q \in Requests, req'[q].op = "login"
                 PROVE  /\ (\E p \in Requests : Open(p)') => req'[q].late
                        /\ req'[q].late \/ req'[q].era = account'.era
      BY DEF LoginsCurrent
    <2>1. CASE q = r
      BY <1>1, <1>2, <1>4, <2>1
    <2>2. CASE q # r
      BY <1>1, <1>2, <1>3, <2>2 DEF Discipline, LoginsCurrent
    <2> QED BY <2>1, <2>2
  <1>c6. OpensFresh'
    BY <1>0, <1>1, <1>2, NoneAssumption DEF Discipline, OpensFresh, FreshSession
  <1>c7. SessionsFollowPassword'
    BY <1>0, <1>1, <1>2, NoneAssumption DEF Discipline, SessionsFollowPassword, Active
  <1>c8. ProvenStillCurrent'
    BY <1>0, <1>1, <1>2, NoneAssumption DEF Discipline, ProvenStillCurrent, SignedIn, CallerOwnsSession, Active
  <1> QED BY <1>c1, <1>c2, <1>c3, <1>c4, <1>c5, <1>c6, <1>c7, <1>c8 DEF Discipline

\* The session a login opens carries what the login knows.
LEMMA OpenSessionKeeps ==
  ASSUME TypeOK, Discipline, NEW r \in Requests, OpenSession(r)
  PROVE  Discipline'
  <1>0. /\ lock.user \in Requests \cup {None}
        /\ \A x \in SessionIds : lock.session[x] \in Requests \cup {None}
        /\ \A n \in TokenIds : lock.token[n] \in Requests \cup {None}
    BY DEF TypeOK, Locks
  <1> DEFINE s == req[r].session
  <1>1. /\ Others(r) /\ SameCall(r) /\ req'[r].pc = "mint"
        /\ req[r].op = "login" /\ req[r].pc = "open"
    BY GoesFacts DEF OpenSession, At
  <1>2. s \in SessionIds /\ session[s].state = "absent"
    BY <1>1 DEF Discipline, OpensFresh
  <1>3. /\ session'[s].state = "active" /\ session'[s].era = req[r].era
        /\ session'[s].late = req[r].late
        /\ \A x \in SessionIds \ {s} : session'[x] = session[x]
        /\ UNCHANGED <<account, lock>>
    BY <1>2 DEF OpenSession, TypeOK
  <1>4. /\ req[r].late \/ req[r].era = account.era
        /\ (\E q \in Requests : Open(q)) => req[r].late
    BY <1>1 DEF Discipline, LoginsCurrent
  <1> HIDE DEF s
  <1>5. s = req[r].session
    BY DEF s
  <1> USE DEF Others, SameCall
  <1>c1. LocksOwned'
    <2>1. /\ UNCHANGED lock /\ req[r].op \notin Changes \cup SignedIn
          /\ \A q \in Requests : /\ req'[q].op = req[q].op /\ req'[q].session = req[q].session
                                 /\ req'[q].target = req[q].target /\ req'[q].todo = req[q].todo
                                 /\ q # r => req'[q].pc = req[q].pc
      BY <1>1, <1>3 DEF Changes, SignedIn
    <2>2. LocksOwned
      BY DEF Discipline
    <2>3. \A x \in SessionIds : lock.session[x] # r
      BY <1>0, <1>1, <2>1, <2>2, NoneAssumption DEF LocksOwned, At
    <2>4. lock.user # r
      BY <2>1, <2>2, NoneAssumption DEF LocksOwned
    <2>5. ASSUME NEW x \in SessionIds, lock.session[x] # None
          PROVE  LET q == req'[lock.session[x]] IN
                 \/ q.op \in SignedIn /\ q.session = x /\ q.pc # "touch"
                 \/ q.op = "revoke" /\ q.pc = "commit" /\ q.target = x
                 \/ q.op \in Changes /\ q.pc = "ending" /\ x \notin q.todo
      BY <1>0, <2>1, <2>2, <2>3, <2>5 DEF LocksOwned, At
    <2>6. ASSUME lock.user # None
          PROVE  req'[lock.user].op = req[lock.user].op /\ req'[lock.user].pc = req[lock.user].pc
      BY <1>0, <2>1, <2>4, <2>6
    <2>7. \A x \in TokenIds : lock.token[x] # None => lock.user # None
      BY <2>2, NoneAssumption DEF LocksOwned
    <2> QED BY <2>1, <2>2, <2>5, <2>6, <2>7 DEF LocksOwned, At
  <1>c2. ChangeOwnsUser'
    BY <1>0, <1>1, <1>2, <1>3, <1>4, <1>5, NoneAssumption DEF Discipline, ChangeOwnsUser, Changes
  <1>c3. CallerOwnsSession'
    BY <1>0, <1>1, <1>2, <1>3, <1>4, <1>5, NoneAssumption DEF Discipline, CallerOwnsSession, SignedIn
  <1>c4. ChangeMeetsSessions'
    BY <1>0, <1>1, <1>2, <1>3, <1>4, <1>5, NoneAssumption DEF Discipline, ChangeMeetsSessions, Active, Spared, Open, ChangeOwnsUser, Changes
  <1>c5. LoginsCurrent'
    BY <1>0, <1>1, <1>2, <1>3, <1>4, <1>5, NoneAssumption DEF Discipline, LoginsCurrent, Open, Changes
  <1>c6. OpensFresh'
    BY <1>0, <1>1, <1>2, <1>3, <1>4, <1>5, NoneAssumption DEF Discipline, OpensFresh
  <1>c7. SessionsFollowPassword'
    BY <1>0, <1>1, <1>2, <1>3, <1>4, <1>5, NoneAssumption DEF Discipline, SessionsFollowPassword, Active
  <1>c8. ProvenStillCurrent'
    BY <1>0, <1>1, <1>2, <1>3, <1>4, <1>5, NoneAssumption DEF Discipline, ProvenStillCurrent, SignedIn, CallerOwnsSession, Active, ChangeOwnsUser, Open, Changes
  <1> QED BY <1>c1, <1>c2, <1>c3, <1>c4, <1>c5, <1>c6, <1>c7, <1>c8 DEF Discipline

\* A signed-in request takes the row of its session.
LEMMA TouchKeeps ==
  ASSUME TypeOK, Discipline, NEW r \in Requests, Touch(r)
  PROVE  Discipline'
  <1>0. /\ lock.user \in Requests \cup {None}
        /\ \A x \in SessionIds : lock.session[x] \in Requests \cup {None}
        /\ \A n \in TokenIds : lock.token[n] \in Requests \cup {None}
    BY DEF TypeOK, Locks
  <1> DEFINE s == req[r].session
  <1>1. /\ Others(r) /\ SameCall(r) /\ req[r].op \in SignedIn /\ req[r].pc = "touch" /\ req'[r].pc \in {"token", "read"}
        /\ UNCHANGED <<account, session>>
    BY GoesFacts DEF Touch
  <1>2. s \in SessionIds
    BY DEF Touch, Discipline, CallerOwnsSession
  <1>3. /\ lock.session[s] = None /\ lock'.session[s] = r
        /\ \A x \in SessionIds \ {s} : lock'.session[x] = lock.session[x]
        /\ lock'.user = lock.user /\ lock'.token = lock.token
    BY <1>2 DEF Touch, Touched, TypeOK, Locks
  <1> HIDE DEF s
  <1>4. s = req[r].session
    BY DEF s
  <1> USE DEF Others, SameCall
  <1>c1. LocksOwned'
    BY <1>0, <1>1, <1>2, <1>3, <1>4, NoneAssumption DEF Discipline, LocksOwned, SignedIn, At, Changes
  <1>c2. ChangeOwnsUser'
    BY <1>0, <1>1, <1>2, <1>3, <1>4, NoneAssumption DEF Discipline, ChangeOwnsUser, Changes
  <1>c3. CallerOwnsSession'
    BY <1>0, <1>1, <1>2, <1>3, <1>4, NoneAssumption DEF Discipline, CallerOwnsSession, SignedIn
  <1>c4. ChangeMeetsSessions'
    BY <1>0, <1>1, <1>2, <1>3, <1>4, NoneAssumption DEF Discipline, ChangeMeetsSessions, Active, Spared, Changes
  <1>c5. LoginsCurrent'
    BY <1>0, <1>1, <1>2, <1>3, <1>4, NoneAssumption DEF Discipline, LoginsCurrent, Open, Changes
  <1>c6. OpensFresh'
    BY <1>0, <1>1, <1>2, <1>3, <1>4, NoneAssumption DEF Discipline, OpensFresh
  <1>c7. SessionsFollowPassword'
    BY <1>0, <1>1, <1>2, <1>3, <1>4, NoneAssumption DEF Discipline, SessionsFollowPassword, Active
  <1>c8. ProvenStillCurrent'
    BY <1>0, <1>1, <1>2, <1>3, <1>4, NoneAssumption DEF Discipline, ProvenStillCurrent, SignedIn, CallerOwnsSession, Active
  <1> QED BY <1>c1, <1>c2, <1>c3, <1>c4, <1>c5, <1>c6, <1>c7, <1>c8 DEF Discipline

\* A revocation finds its target active.
LEMMA RevokeReadKeeps ==
  ASSUME TypeOK, Discipline, NEW r \in Requests, NEW t \in SessionIds, RevokeRead(r, t), Active(t)
  PROVE  Discipline'
  <1>0. /\ lock.user \in Requests \cup {None}
        /\ \A x \in SessionIds : lock.session[x] \in Requests \cup {None}
        /\ \A n \in TokenIds : lock.token[n] \in Requests \cup {None}
    BY DEF TypeOK, Locks
  <1>1. /\ Others(r) /\ req[r].op = "revoke" /\ req[r].pc = "read"
        /\ req'[r].op = "revoke" /\ req'[r].pc = "save" /\ req'[r].target = t
        /\ req'[r].session = req[r].session /\ req'[r].late = req[r].late
        /\ UNCHANGED <<account, session, lock>>
    <2> DEFINE q == [req[r] EXCEPT !.pc = "save", !.target = t]
    <2>1. req' = [req EXCEPT ![r] = q] /\ UNCHANGED <<account, session, lock>>
      BY DEF RevokeRead
    <2>2. req[r] \in Request /\ req \in [Requests -> Request]
      BY DEF TypeOK
    <2>3. q.op = req[r].op /\ q.pc = "save" /\ q.target = t /\ q.session = req[r].session /\ q.late = req[r].late
      BY <2>2 DEF Request
    <2> HIDE DEF q
    <2>4. req'[r] = q /\ Others(r)
      BY <2>1, <2>2 DEF Others
    <2>5. req[r].op = "revoke" /\ req[r].pc = "read"
      BY DEF RevokeRead, At
    <2> QED BY <2>1, <2>3, <2>4, <2>5
  <1>2. session[t].state # "absent"
    BY DEF Active
  <1> USE DEF Others
  <1>c1. LocksOwned'
    BY <1>0, <1>1, <1>2, NoneAssumption DEF Discipline, LocksOwned, SignedIn, At, Changes
  <1>c2. ChangeOwnsUser'
    BY <1>0, <1>1, <1>2, NoneAssumption DEF Discipline, ChangeOwnsUser, Changes
  <1>c3. CallerOwnsSession'
    BY <1>0, <1>1, <1>2, NoneAssumption DEF Discipline, CallerOwnsSession, SignedIn
  <1>c4. ChangeMeetsSessions'
    BY <1>0, <1>1, <1>2, NoneAssumption DEF Discipline, ChangeMeetsSessions, Active, Spared, Changes
  <1>c5. LoginsCurrent'
    BY <1>0, <1>1, <1>2, NoneAssumption DEF Discipline, LoginsCurrent, Open, Changes
  <1>c6. OpensFresh'
    BY <1>0, <1>1, <1>2, NoneAssumption DEF Discipline, OpensFresh
  <1>c7. SessionsFollowPassword'
    BY <1>0, <1>1, <1>2, NoneAssumption DEF Discipline, SessionsFollowPassword, Active
  <1>c8. ProvenStillCurrent'
    BY <1>0, <1>1, <1>2, NoneAssumption DEF Discipline, ProvenStillCurrent, SignedIn, CallerOwnsSession, Active
  <1> QED BY <1>c1, <1>c2, <1>c3, <1>c4, <1>c5, <1>c6, <1>c7, <1>c8 DEF Discipline

\* A revocation takes the row of its target.
LEMMA RevokeSaveKeeps ==
  ASSUME TypeOK, Discipline, NEW r \in Requests, RevokeSave(r)
  PROVE  Discipline'
  <1>0. /\ lock.user \in Requests \cup {None}
        /\ \A x \in SessionIds : lock.session[x] \in Requests \cup {None}
        /\ \A n \in TokenIds : lock.token[n] \in Requests \cup {None}
    BY DEF TypeOK, Locks
  <1> DEFINE t == req[r].target
  <1>1. /\ Others(r) /\ SameCall(r) /\ req[r].op = "revoke" /\ req[r].pc = "save"
        /\ req'[r].pc = "commit" /\ UNCHANGED <<account, session>>
    BY GoesFacts DEF RevokeSave, At
  <1>2. t \in SessionIds
    BY <1>1 DEF Discipline, CallerOwnsSession, SignedIn
  <1>3. /\ lock.session[t] = None /\ lock'.session[t] = r
        /\ \A x \in SessionIds \ {t} : lock'.session[x] = lock.session[x]
        /\ lock'.user = lock.user /\ lock'.token = lock.token
    BY <1>2 DEF RevokeSave, TypeOK, Locks
  <1> HIDE DEF t
  <1>4. t = req[r].target
    BY DEF t
  <1> USE DEF Others, SameCall
  <1>c1. LocksOwned'
    BY <1>0, <1>1, <1>2, <1>3, <1>4, NoneAssumption DEF Discipline, LocksOwned, SignedIn, At, Changes
  <1>c2. ChangeOwnsUser'
    BY <1>0, <1>1, <1>2, <1>3, <1>4, NoneAssumption DEF Discipline, ChangeOwnsUser, Changes
  <1>c3. CallerOwnsSession'
    BY <1>0, <1>1, <1>2, <1>3, <1>4, NoneAssumption DEF Discipline, CallerOwnsSession, SignedIn
  <1>c4. ChangeMeetsSessions'
    BY <1>0, <1>1, <1>2, <1>3, <1>4, NoneAssumption DEF Discipline, ChangeMeetsSessions, Active, Spared, Changes
  <1>c5. LoginsCurrent'
    BY <1>0, <1>1, <1>2, <1>3, <1>4, NoneAssumption DEF Discipline, LoginsCurrent, Open, Changes
  <1>c6. OpensFresh'
    BY <1>0, <1>1, <1>2, <1>3, <1>4, NoneAssumption DEF Discipline, OpensFresh
  <1>c7. SessionsFollowPassword'
    BY <1>0, <1>1, <1>2, <1>3, <1>4, NoneAssumption DEF Discipline, SessionsFollowPassword, Active
  <1>c8. ProvenStillCurrent'
    BY <1>0, <1>1, <1>2, <1>3, <1>4, NoneAssumption DEF Discipline, ProvenStillCurrent, SignedIn, CallerOwnsSession, Active
  <1> QED BY <1>c1, <1>c2, <1>c3, <1>c4, <1>c5, <1>c6, <1>c7, <1>c8 DEF Discipline

\* An owner proves the current password.
LEMMA ChangeReadKeeps ==
  ASSUME TypeOK, Discipline, NEW r \in Requests, ChangeRead(r), ~Ends(r)
  PROVE  Discipline'
  <1>0. /\ lock.user \in Requests \cup {None}
        /\ \A x \in SessionIds : lock.session[x] \in Requests \cup {None}
        /\ \A n \in TokenIds : lock.token[n] \in Requests \cup {None}
    BY DEF TypeOK, Locks
  <1>1. /\ Others(r) /\ req[r].op = "change" /\ req[r].pc = "read"
        /\ req'[r].op = "change" /\ req'[r].pc = "save" /\ req'[r].era = account.era
        /\ req'[r].session = req[r].session /\ req'[r].late = req[r].late
        /\ UNCHANGED <<account, session, lock>>
    BY DEF ChangeRead, At, Others, TypeOK, Request
  <1> USE DEF Others
  <1>c1. LocksOwned'
    BY <1>0, <1>1, NoneAssumption DEF Discipline, LocksOwned, SignedIn, At, Changes
  <1>c2. ChangeOwnsUser'
    BY <1>0, <1>1, NoneAssumption DEF Discipline, ChangeOwnsUser, Changes
  <1>c3. CallerOwnsSession'
    BY <1>0, <1>1, NoneAssumption DEF Discipline, CallerOwnsSession, SignedIn
  <1>c4. ChangeMeetsSessions'
    BY <1>0, <1>1, NoneAssumption DEF Discipline, ChangeMeetsSessions, Active, Spared, Changes
  <1>c5. LoginsCurrent'
    BY <1>0, <1>1, NoneAssumption DEF Discipline, LoginsCurrent, Open, Changes
  <1>c6. OpensFresh'
    BY <1>0, <1>1, NoneAssumption DEF Discipline, OpensFresh
  <1>c7. SessionsFollowPassword'
    BY <1>0, <1>1, NoneAssumption DEF Discipline, SessionsFollowPassword, Active
  <1>c8. ProvenStillCurrent'
    BY <1>0, <1>1, NoneAssumption DEF Discipline, ProvenStillCurrent, SignedIn, CallerOwnsSession, Active
  <1> QED BY <1>c1, <1>c2, <1>c3, <1>c4, <1>c5, <1>c6, <1>c7, <1>c8 DEF Discipline

\* A password change opens when it takes the user, and every login in flight is late.
LEMMA SaveUserKeeps ==
  ASSUME TypeOK, Discipline, NEW r \in Requests, SaveUser(r)
  PROVE  Discipline'
  <1>0. /\ lock.user \in Requests \cup {None}
        /\ \A x \in SessionIds : lock.session[x] \in Requests \cup {None}
        /\ \A n \in TokenIds : lock.token[n] \in Requests \cup {None}
    BY DEF TypeOK, Locks
  <1>1. /\ req[r].op \in Changes /\ req[r].pc = "save"
        /\ req'[r].pc \in {"tokens", "sessions"}
        /\ \A q \in Requests :
             /\ req'[q].op = req[q].op /\ req'[q].session = req[q].session
             /\ req'[q].target = req[q].target /\ req'[q].era = req[q].era
             /\ q # r => req'[q].pc = req[q].pc
             /\ req'[q].todo = req[q].todo
             /\ req[q].op = "login" => req'[q].late = TRUE
    BY DEF SaveUser, TypeOK, Request, Changes
  <1>2. /\ lock.user = None /\ lock'.user = r
        /\ lock'.session = lock.session /\ lock'.token = lock.token
        /\ UNCHANGED <<account, session>>
    BY DEF SaveUser, TypeOK, Locks
  <1>c1. LocksOwned'
    BY <1>0, <1>1, <1>2, NoneAssumption DEF Discipline, LocksOwned, At, SignedIn, Changes
  <1>c2. ChangeOwnsUser'
    BY <1>0, <1>1, <1>2, NoneAssumption DEF Discipline, ChangeOwnsUser, Changes
  <1>c3. CallerOwnsSession'
    BY <1>0, <1>1, <1>2, NoneAssumption DEF Discipline, CallerOwnsSession, SignedIn, Changes
  <1>c4. ChangeMeetsSessions'
    BY <1>0, <1>1, <1>2, NoneAssumption DEF Discipline, ChangeMeetsSessions, Active, Spared, Changes
  <1>c5. LoginsCurrent'
    BY <1>0, <1>1, <1>2, NoneAssumption DEF Discipline, LoginsCurrent, Open, Changes
  <1>c6. OpensFresh'
    BY <1>0, <1>1, <1>2, NoneAssumption DEF Discipline, OpensFresh
  <1>c7. SessionsFollowPassword'
    BY <1>0, <1>1, <1>2, NoneAssumption DEF Discipline, SessionsFollowPassword, Active
  <1>c8. ProvenStillCurrent'
    BY <1>0, <1>1, <1>2, NoneAssumption DEF Discipline, ProvenStillCurrent, SignedIn, CallerOwnsSession, Active, Changes
  <1> QED BY <1>c1, <1>c2, <1>c3, <1>c4, <1>c5, <1>c6, <1>c7, <1>c8 DEF Discipline

\* It takes the tokens only with the user.
LEMMA TokensUpdateKeeps ==
  ASSUME TypeOK, Discipline, NEW r \in Requests, TokensUpdate(r)
  PROVE  Discipline'
  <1>0. /\ lock.user \in Requests \cup {None}
        /\ \A x \in SessionIds : lock.session[x] \in Requests \cup {None}
        /\ \A n \in TokenIds : lock.token[n] \in Requests \cup {None}
    BY DEF TypeOK, Locks
  <1>1. /\ Others(r) /\ SameCall(r) /\ req[r].op \in {"admin", "reset"} /\ req[r].pc = "tokens"
        /\ req'[r].pc = "sessions" /\ UNCHANGED <<account, session>>
    BY GoesFacts DEF TokensUpdate
  <1>2. /\ lock'.user = lock.user /\ lock'.session = lock.session
        /\ \A k \in TokenIds : lock'.token[k] \in {r, lock.token[k]}
    BY DEF TokensUpdate, TypeOK, Locks
  <1>3. lock.user = r
    BY <1>1 DEF Discipline, ChangeOwnsUser, Changes
  <1> USE DEF Others, SameCall
  <1>c1. LocksOwned'
    BY <1>0, <1>1, <1>2, <1>3, NoneAssumption DEF Discipline, LocksOwned, At, SignedIn, Changes
  <1>c2. ChangeOwnsUser'
    BY <1>0, <1>1, <1>2, <1>3, NoneAssumption DEF Discipline, ChangeOwnsUser, Changes
  <1>c3. CallerOwnsSession'
    BY <1>0, <1>1, <1>2, <1>3, NoneAssumption DEF Discipline, CallerOwnsSession, SignedIn
  <1>c4. ChangeMeetsSessions'
    BY <1>0, <1>1, <1>2, <1>3, NoneAssumption DEF Discipline, ChangeMeetsSessions, Active, Spared, Changes
  <1>c5. LoginsCurrent'
    BY <1>0, <1>1, <1>2, <1>3, NoneAssumption DEF Discipline, LoginsCurrent, Open, Changes
  <1>c6. OpensFresh'
    BY <1>0, <1>1, <1>2, <1>3, NoneAssumption DEF Discipline, OpensFresh
  <1>c7. SessionsFollowPassword'
    BY <1>0, <1>1, <1>2, <1>3, NoneAssumption DEF Discipline, SessionsFollowPassword, Active
  <1>c8. ProvenStillCurrent'
    BY <1>0, <1>1, <1>2, <1>3, NoneAssumption DEF Discipline, ProvenStillCurrent, SignedIn, CallerOwnsSession, Active
  <1> QED BY <1>c1, <1>c2, <1>c3, <1>c4, <1>c5, <1>c6, <1>c7, <1>c8 DEF Discipline

\* Its UPDATE finds every session that is not spared.
LEMMA SessionsUpdateKeeps ==
  ASSUME TypeOK, Discipline, NEW r \in Requests, SessionsUpdate(r)
  PROVE  Discipline'
  <1>0. /\ lock.user \in Requests \cup {None}
        /\ \A x \in SessionIds : lock.session[x] \in Requests \cup {None}
        /\ \A n \in TokenIds : lock.token[n] \in Requests \cup {None}
    BY DEF TypeOK, Locks
  <1>1. /\ Others(r) /\ req[r].op \in Changes /\ req[r].pc = "sessions"
        /\ req'[r].op = req[r].op /\ req'[r].session = req[r].session
        /\ req'[r].era = req[r].era /\ req'[r].pc = "ending"
        /\ req'[r].todo = Outdated(req[r])
        /\ UNCHANGED <<account, session, lock>>
    BY DEF SessionsUpdate, Others, TypeOK, Request
  <1>2. lock.user = r /\ \A s \in SessionIds : lock.session[s] = r => s \notin Outdated(req[r])
    <2>1. lock.user = r
      BY <1>1 DEF Discipline, ChangeOwnsUser
    <2>2. \A s \in SessionIds : lock.session[s] = r => s = req[r].session /\ req[r].op = "change"
      BY <1>1, NoneAssumption DEF Discipline, LocksOwned, At, SignedIn, Changes
    <2> QED BY <2>1, <2>2 DEF Outdated, Spared
  <1>3. \A s \in SessionIds : s \in Outdated(req[r]) \/ lock.session[s] = r => session[s].state # "absent"
    <2>1. \A s \in SessionIds : lock.session[s] = r => s = req[r].session /\ req[r].op = "change"
      BY <1>1, NoneAssumption DEF Discipline, LocksOwned, At, SignedIn, Changes
    <2> QED BY <2>1 DEF Outdated, Active, Discipline, CallerOwnsSession, SignedIn
  <1> USE DEF Others
  <1>c1. LocksOwned'
    BY <1>0, <1>1, <1>2, NoneAssumption DEF Discipline, LocksOwned, At, SignedIn, Changes
  <1>c2. ChangeOwnsUser'
    BY <1>0, <1>1, <1>2, NoneAssumption DEF Discipline, ChangeOwnsUser, Changes
  <1>c3. CallerOwnsSession'
    BY <1>0, <1>1, <1>2, NoneAssumption DEF Discipline, CallerOwnsSession, SignedIn, Changes
  <1>c4. ChangeMeetsSessions'
    BY <1>0, <1>1, <1>2, <1>3, NoneAssumption DEF Discipline, ChangeMeetsSessions, Active, Spared, Outdated, Changes
  <1>c5. LoginsCurrent'
    BY <1>0, <1>1, <1>2, NoneAssumption DEF Discipline, LoginsCurrent, Open, Changes
  <1>c6. OpensFresh'
    BY <1>0, <1>1, <1>2, NoneAssumption DEF Discipline, OpensFresh
  <1>c7. SessionsFollowPassword'
    BY <1>0, <1>1, <1>2, NoneAssumption DEF Discipline, SessionsFollowPassword, Active
  <1>c8. ProvenStillCurrent'
    BY <1>0, <1>1, <1>2, NoneAssumption DEF Discipline, ProvenStillCurrent, SignedIn, CallerOwnsSession, Active
  <1> QED BY <1>c1, <1>c2, <1>c3, <1>c4, <1>c5, <1>c6, <1>c7, <1>c8 DEF Discipline

\* A row the UPDATE found is locked by it in the end.
LEMMA LockSessionKeeps ==
  ASSUME TypeOK, Discipline, NEW r \in Requests, NEW s \in SessionIds,
         LockSession(r, s)
  PROVE  Discipline'
  <1>0. /\ lock.user \in Requests \cup {None}
        /\ \A x \in SessionIds : lock.session[x] \in Requests \cup {None}
        /\ \A n \in TokenIds : lock.token[n] \in Requests \cup {None}
    BY DEF TypeOK, Locks
  <1>1. /\ Others(r) /\ req[r].op \in Changes /\ req[r].pc = "ending"
        /\ req'[r].op = req[r].op /\ req'[r].session = req[r].session
        /\ req'[r].era = req[r].era /\ req'[r].pc = req[r].pc /\ req'[r].late = req[r].late
        /\ req'[r].todo = req[r].todo \ {s}
        /\ UNCHANGED <<account, session>>
    BY DEF LockSession, Others, TypeOK, Request
  <1>2. /\ lock.session[s] = None /\ lock'.session[s] = r
        /\ \A x \in SessionIds \ {s} : lock'.session[x] = lock.session[x]
        /\ lock'.user = lock.user /\ lock'.token = lock.token
    BY DEF LockSession, TypeOK, Locks
  <1> USE DEF Others
  <1>c1. LocksOwned'
    BY <1>0, <1>1, <1>2, NoneAssumption DEF Discipline, LocksOwned, At, SignedIn, Changes
  <1>c2. ChangeOwnsUser'
    BY <1>0, <1>1, <1>2, NoneAssumption DEF Discipline, ChangeOwnsUser, Changes
  <1>c3. CallerOwnsSession'
    BY <1>0, <1>1, <1>2, NoneAssumption DEF Discipline, CallerOwnsSession, SignedIn, Changes
  <1>c4. ChangeMeetsSessions'
    <2> SUFFICES ASSUME NEW q \in Requests, req'[q].op \in Changes, req'[q].pc = "ending",
                        NEW x \in SessionIds
                 PROVE  /\ x \in req'[q].todo \/ lock'.session[x] = q => session'[x].state # "absent"
                        /\ Active(x)' /\ ~session'[x].late /\ x \notin Spared(req'[q]) =>
                             x \in req'[q].todo \/ lock'.session[x] = q
      BY DEF ChangeMeetsSessions, Active
    <2>1. req[q].op \in Changes /\ req[q].pc = "ending" /\ Spared(req'[q]) = Spared(req[q])
      BY <1>1 DEF Spared
    <2>2. /\ x \in req[q].todo \/ lock.session[x] = q => session[x].state # "absent"
          /\ Active(x) /\ ~session[x].late /\ x \notin Spared(req[q]) =>
               x \in req[q].todo \/ lock.session[x] = q
      BY <2>1 DEF Discipline, ChangeMeetsSessions
    <2>3. CASE q = r
      <3>1. s \in req[r].todo
        BY DEF LockSession
      <3> QED BY <1>1, <1>2, <2>1, <2>2, <2>3, <3>1 DEF Active
    <2>4. CASE q # r
      BY <1>0, <1>1, <1>2, <2>1, <2>2, <2>4, NoneAssumption DEF Active
    <2> QED BY <2>3, <2>4
  <1>c5. LoginsCurrent'
    BY <1>0, <1>1, <1>2, NoneAssumption DEF Discipline, LoginsCurrent, Open, Changes
  <1>c6. OpensFresh'
    BY <1>0, <1>1, <1>2, NoneAssumption DEF Discipline, OpensFresh
  <1>c7. SessionsFollowPassword'
    BY <1>0, <1>1, <1>2, NoneAssumption DEF Discipline, SessionsFollowPassword, Active
  <1>c8. ProvenStillCurrent'
    BY <1>0, <1>1, <1>2, NoneAssumption DEF Discipline, ProvenStillCurrent, SignedIn, CallerOwnsSession, Active
  <1> QED BY <1>c1, <1>c2, <1>c3, <1>c4, <1>c5, <1>c6, <1>c7, <1>c8 DEF Discipline

\* The commit of a password change: every session that is left was spared or
\* opened by a login that overlapped the change.
LEMMA ChangeCommitKeeps ==
  ASSUME TypeOK, Discipline, NEW r \in Requests, ChangeCommit(r)
  PROVE  Discipline'
  <1>0. /\ lock.user \in Requests \cup {None}
        /\ \A x \in SessionIds : lock.session[x] \in Requests \cup {None}
        /\ \A n \in TokenIds : lock.token[n] \in Requests \cup {None}
    BY DEF TypeOK, Locks
  <1>1. /\ req[r].op \in Changes /\ req[r].pc = "ending" /\ req[r].todo = {} /\ Ends(r)
        /\ account'.era = account.era + 1
    BY DEF ChangeCommit
  <1>2. /\ Others(r) /\ req'[r].op = "none"
        /\ lock'.user = IF lock.user = r THEN None ELSE lock.user
        /\ \A s \in SessionIds :
             lock'.session[s] = IF lock.session[s] = r THEN None ELSE lock.session[s]
        /\ \A k \in TokenIds :
             lock'.token[k] = IF lock.token[k] = r THEN None ELSE lock.token[k]
    BY <1>1, EndsFacts
  <1>3. lock.user = r
    BY <1>1 DEF Discipline, ChangeOwnsUser
  <1>4. \A q \in Requests : req[q].op = "login" => req[q].late
    BY <1>1, <1>3 DEF Discipline, LoginsCurrent, Open
  <1>5. \A s \in SessionIds :
          /\ session[s].state = "absent" => session'[s].state = "absent"
          /\ session[s].state # "absent" => session'[s].state # "absent"
          /\ session'[s].state = "active" => session[s].state = "active" /\ session'[s].late = session[s].late
    <2>1. Ended.state = "ended"
      BY DEF Ended, NoSession
    <2>2. \A s \in SessionIds : lock.session[s] = r => session[s].state # "absent"
      BY <1>1 DEF Discipline, ChangeMeetsSessions
    <2> QED BY <2>1, <2>2 DEF ChangeCommit, TypeOK, SessionRow, Active
  <1>6. \A s \in SessionIds :
          Active(s)' /\ ~session[s].late => s \in Spared(req[r]) /\ session'[s].era = account'.era
    <2>1. Ended.state = "ended"
      BY DEF Ended, NoSession
    <2>2. \A s \in SessionIds : Active(s) /\ ~session[s].late /\ s \notin Spared(req[r]) => lock.session[s] = r
      BY <1>1 DEF Discipline, ChangeMeetsSessions
    <2>3. \A s \in SessionIds :
            session'[s] = IF s \in Spared(req[r]) /\ Active(s)
                          THEN [session[s] EXCEPT !.era = account.era + 1]
                          ELSE IF lock.session[s] = r THEN Ended ELSE session[s]
      BY DEF ChangeCommit
    <2>4. \A s \in SessionIds : [session[s] EXCEPT !.era = account.era + 1].era = account.era + 1
      BY DEF TypeOK, SessionRow
    <2> QED BY <1>1, <1>5, <2>1, <2>2, <2>3, <2>4 DEF Active
  <1> USE DEF Others
  <1>c1. LocksOwned'
    BY <1>0, <1>1, <1>2, <1>3, <1>4, <1>5, <1>6, NoneAssumption DEF Discipline, LocksOwned, At, SignedIn, Changes
  <1>c2. ChangeOwnsUser'
    BY <1>0, <1>1, <1>2, <1>3, <1>4, <1>5, <1>6, NoneAssumption DEF Discipline, ChangeOwnsUser, Changes
  <1>c3. CallerOwnsSession'
    BY <1>0, <1>1, <1>2, <1>3, <1>4, <1>5, <1>6, NoneAssumption DEF Discipline, CallerOwnsSession, SignedIn
  <1>c4. ChangeMeetsSessions'
    BY <1>0, <1>1, <1>2, <1>3, <1>4, <1>5, <1>6, NoneAssumption DEF Discipline, ChangeMeetsSessions, Active, Spared, Changes
  <1>c5. LoginsCurrent'
    BY <1>0, <1>1, <1>2, <1>3, <1>4, <1>5, <1>6, NoneAssumption DEF Discipline, LoginsCurrent, Open, Changes
  <1>c6. OpensFresh'
    BY <1>0, <1>1, <1>2, <1>3, <1>4, <1>5, <1>6, NoneAssumption DEF Discipline, OpensFresh
  <1>c7. SessionsFollowPassword'
    BY <1>0, <1>1, <1>2, <1>3, <1>4, <1>5, <1>6, NoneAssumption DEF Discipline, SessionsFollowPassword, Active
  <1>c8. ProvenStillCurrent'
    <2> SUFFICES ASSUME NEW q \in Requests, req'[q].op = "change",
                        req'[q].pc \in {"save", "sessions", "ending"},
                        session'[req'[q].session].state = "active",
                        ~session'[req'[q].session].late
                 PROVE  FALSE
      BY DEF ProvenStillCurrent, Active
    <2>1. q # r /\ req'[q] = req[q]
      BY <1>2
    <2>2. PICK s \in SessionIds : s = req[q].session /\ lock.session[s] = q
      BY <2>1 DEF Discipline, CallerOwnsSession, SignedIn
    <2>3. Active(s)' /\ ~session[s].late
      BY <1>5, <2>1, <2>2 DEF Active
    <2>4. s \in Spared(req[r])
      BY <1>6, <2>2, <2>3
    <2>5. lock.session[s] = r
      BY <1>1, <2>4 DEF Spared, Discipline, CallerOwnsSession, SignedIn
    <2> QED BY <2>1, <2>2, <2>5
  <1> QED BY <1>c1, <1>c2, <1>c3, <1>c4, <1>c5, <1>c6, <1>c7, <1>c8 DEF Discipline

-----------------------------------------------------------------------------
(* The steps together *)

\* Every start keeps the discipline.
LEMMA StartsKeeps ==
  ASSUME TypeOK, Discipline, NEW r \in Requests,
         Starts(r) \/ \E op \in {"admin", "reset"} : StartChange(r, op)
  PROVE  Discipline'
  <1>1. CASE \E s \in SessionIds, k \in TokenIds : LoginRead(r, s, k)
    BY <1>1, LoginReadKeeps
  <1>2. CASE \E k, m \in TokenIds : RefreshRead(r, k, m)
    BY <1>2, Launch DEF RefreshRead, Others, TypeOK, NoCall
  <1>3. CASE \E op \in SignedIn, s \in SessionIds, k \in TokenIds \cup {None} :
               Authenticate(r, op, s, k)
    <2> PICK op \in SignedIn, s \in SessionIds, k \in TokenIds \cup {None} :
               Authenticate(r, op, s, k)
      BY <1>3
    <2>1. /\ Idle(r) /\ Others(r) /\ UNCHANGED <<account, session, lock>>
          /\ req'[r].op = op /\ req'[r].pc = "touch" /\ req'[r].session = s /\ Active(s)
      BY DEF Authenticate, Others, TypeOK, NoCall
    <2>2. req'[r].op \in SignedIn /\ req'[r].session \in SessionIds /\ Active(req'[r].session)
      BY <2>1
    <2> QED BY <2>1, <2>2, Launch
  <1>4. CASE EditRead(r)
    BY <1>4, Launch DEF EditRead, Others, TypeOK, NoCall
  <1>5. CASE \E op \in {"admin", "reset"} : StartChange(r, op)
    BY <1>5, Launch DEF StartChange, Others, TypeOK, NoCall
  <1> QED BY <1>1, <1>2, <1>3, <1>4, <1>5 DEF Starts

\* Ending without touching a session.
LEMMA PlainEnding ==
  ASSUME TypeOK, Discipline, NEW r \in Requests, Ends(r),
         account'.era = account.era, UNCHANGED session
  PROVE  Discipline'
  <1> DEFINE S == {}
  <1>1. /\ S \in SUBSET {s \in SessionIds : session[s].state # "absent"}
        /\ session' = [s \in SessionIds |-> IF s \in S THEN Ended ELSE session[s]]
    BY DEF TypeOK
  <1> HIDE DEF S
  <1> QED BY <1>1, Ending

\* Every step of a login or a refresh keeps the discipline.
LEMMA IssueKeeps ==
  ASSUME TypeOK, Discipline, NEW r \in Requests,
         \/ CountTokens(r) \/ PickOldest(r) \/ RetireToken(r) \/ OpenSession(r) \/ MintToken(r)
         \/ RefreshSession(r) \/ RotateToken(r) \/ BumpSession(r)
  PROVE  Discipline'
  <1>1. CASE CountTokens(r)
    <2> DEFINE n == Excess(Cardinality(ActiveTokens))
    <2>1. /\ req[r].op = "login" /\ req[r].pc = "count"
          /\ req' = [req EXCEPT ![r] = [@ EXCEPT !.pc = IF n > 0 THEN "pick" ELSE "open", !.excess = n]]
      BY <1>1 DEF CountTokens, At
    <2> HIDE DEF n
    <2>2. (IF n > 0 THEN "pick" ELSE "open") \in Opening
      BY DEF Opening
    <2>3. Others(r) /\ SameCall(r) /\ req'[r].pc \in Opening
      BY <2>1, <2>2 DEF Others, SameCall, TypeOK, Request
    <2> QED BY <1>1, <2>1, <2>3, Quiet DEF CountTokens, Opening
  <1>2. CASE PickOldest(r)
    <2> DEFINE K == Oldest(ActiveTokens, req[r].excess)
    <2>1. /\ req[r].op = "login" /\ req[r].pc = "pick"
          /\ req' = [req EXCEPT ![r] = [@ EXCEPT !.pc = IF K = {} THEN "open" ELSE "retire",
                                               !.excess = 0, !.doomed = K]]
      BY <1>2 DEF PickOldest, At
    <2> HIDE DEF K
    <2>2. (IF K = {} THEN "open" ELSE "retire") \in Opening
      BY DEF Opening
    <2>3. Others(r) /\ SameCall(r) /\ req'[r].pc \in Opening
      BY <2>1, <2>2 DEF Others, SameCall, TypeOK, Request
    <2> QED BY <1>2, <2>1, <2>3, Quiet DEF PickOldest, Opening
  <1>3. CASE RetireToken(r)
    <2>1. PICK k \in TokenIds :
            req' = [req EXCEPT ![r] = [@ EXCEPT !.doomed = req[r].doomed \ {k},
                                  !.pc = IF req[r].doomed = {k} THEN "open" ELSE "retire"]]
      BY <1>3 DEF RetireToken, Oldest, TypeOK, Request
    <2> DEFINE pc == IF req[r].doomed = {k} THEN "open" ELSE "retire"
    <2>2. pc \in Opening
      BY DEF Opening
    <2>3. req' = [req EXCEPT ![r] = [@ EXCEPT !.doomed = req[r].doomed \ {k}, !.pc = pc]]
      BY <2>1
    <2> HIDE DEF pc
    <2>4. Others(r) /\ SameCall(r) /\ req'[r].pc \in Opening
      BY <2>2, <2>3 DEF Others, SameCall, TypeOK, Request
    <2> QED BY <1>3, <2>4, Quiet DEF RetireToken, At, Opening
  <1>4. CASE OpenSession(r)
    BY <1>4, OpenSessionKeeps
  <1>5. CASE MintToken(r)
    BY <1>5, PlainEnding DEF MintToken
  <1>6. CASE RefreshSession(r)
    <2>1. CASE Active(req[r].session)
      BY <1>6, <2>1, GoesFacts, Quiet DEF RefreshSession, At
    <2>2. CASE ~Active(req[r].session)
      BY <1>6, <2>2, PlainEnding DEF RefreshSession
    <2> QED BY <2>1, <2>2
  <1>7. CASE RotateToken(r)
    BY <1>7, GoesFacts, Quiet DEF RotateToken, At
  <1>8. CASE BumpSession(r)
    BY <1>8, GoesFacts, Quiet DEF BumpSession, At
  <1> QED BY <1>1, <1>2, <1>3, <1>4, <1>5, <1>6, <1>7, <1>8

\* Every step of a logout, a revocation or an edit keeps the discipline.
LEMMA SignedInKeeps ==
  ASSUME TypeOK, Discipline, NEW r \in Requests,
         \/ Touch(r) \/ LogoutToken(r) \/ LogoutCommit(r)
         \/ (\E t \in SessionIds : RevokeRead(r, t)) \/ RevokeSave(r) \/ RevokeCommit(r)
         \/ EditSave(r)
  PROVE  Discipline'
  <1>1. CASE Touch(r)
    BY <1>1, TouchKeeps
  <1>2. CASE LogoutToken(r)
    BY <1>2, GoesFacts, Quiet DEF LogoutToken, At
  <1>3. CASE LogoutCommit(r)
    <2> DEFINE S == {req[r].session}
    <2>1. S \subseteq {s \in SessionIds : session[s].state # "absent"}
      BY <1>3 DEF LogoutCommit, At, Discipline, CallerOwnsSession, SignedIn
    <2>2. session' = [s \in SessionIds |-> IF s \in S THEN Ended ELSE session[s]]
      BY <1>3 DEF LogoutCommit, EndSessions
    <2>3. Ends(r) /\ account'.era = account.era
      BY <1>3 DEF LogoutCommit
    <2> HIDE DEF S
    <2> QED BY <2>1, <2>2, <2>3, Ending
  <1>4. CASE \E t \in SessionIds : RevokeRead(r, t)
    <2> PICK t \in SessionIds : RevokeRead(r, t) BY <1>4
    <2>1. CASE Active(t)
      BY <2>1, RevokeReadKeeps
    <2>2. CASE ~Active(t)
      BY <2>2, PlainEnding DEF RevokeRead
    <2> QED BY <2>1, <2>2
  <1>5. CASE RevokeSave(r)
    BY <1>5, RevokeSaveKeeps
  <1>6. CASE RevokeCommit(r)
    <2> DEFINE S == {req[r].target}
    <2>1. S \subseteq {s \in SessionIds : session[s].state # "absent"}
      BY <1>6 DEF RevokeCommit, At, Discipline, CallerOwnsSession, SignedIn
    <2>2. session' = [s \in SessionIds |-> IF s \in S THEN Ended ELSE session[s]]
      BY <1>6 DEF RevokeCommit, EndSessions
    <2>3. Ends(r) /\ account'.era = account.era
      BY <1>6 DEF RevokeCommit
    <2> HIDE DEF S
    <2> QED BY <2>1, <2>2, <2>3, Ending
  <1>7. CASE EditSave(r)
    <2>1. account'.era = account.era
      BY <1>7 DEF EditSave, TypeOK, Account
    <2> QED BY <1>7, <2>1, PlainEnding DEF EditSave
  <1> QED BY <1>1, <1>2, <1>3, <1>4, <1>5, <1>6, <1>7

\* Every step of a password change keeps the discipline.
LEMMA ChangeKeeps ==
  ASSUME TypeOK, Discipline, NEW r \in Requests,
         \/ ChangeRead(r) \/ SaveUser(r) \/ TokensUpdate(r) \/ SessionsUpdate(r)
         \/ (\E s \in SessionIds : LockSession(r, s)) \/ ChangeCommit(r)
  PROVE  Discipline'
  <1>1. CASE ChangeRead(r) /\ Ends(r)
    BY <1>1, PlainEnding DEF ChangeRead
  <1>2. CASE ChangeRead(r) /\ ~Ends(r)
    BY <1>2, ChangeReadKeeps
  <1> QED BY <1>1, <1>2, SaveUserKeeps, TokensUpdateKeeps, SessionsUpdateKeeps,
             LockSessionKeeps, ChangeCommitKeeps

\* The invariant is inductive.
LEMMA NextKeeps ==
  ASSUME IInv, [Next]_vars
  PROVE  IInv'
  <1> USE DEF IInv
  <1>1. TypeOK'
    BY NextType
  <1>2. CASE UNCHANGED vars
    BY <1>1, <1>2 DEF vars, Discipline, LocksOwned, ChangeOwnsUser, CallerOwnsSession,
       ChangeMeetsSessions, LoginsCurrent, OpensFresh, SessionsFollowPassword,
       ProvenStillCurrent, Active, At, Open
  <1>3. CASE Next
    <2> PICK r \in Requests :
          \/ Starts(r) \/ (\E op \in {"admin", "reset"} : StartChange(r, op))
          \/ Proceeds(r) \/ DeadlockVictim(r) \/ Dies(r)
      BY <1>3 DEF Next
    <2>1. CASE DeadlockVictim(r) \/ Dies(r)
      BY <1>1, <2>1, PlainEnding DEF DeadlockVictim, Dies
    <2>2. CASE Proceeds(r)
      BY <1>1, <2>2, IssueKeeps, SignedInKeeps, ChangeKeeps DEF Proceeds, Works
    <2> QED BY <1>1, <2>1, <2>2, StartsKeeps
  <1> QED BY <1>2, <1>3

\* The initial states satisfy it.
LEMMA InitDiscipline ==
  ASSUME Init
  PROVE  IInv
  <1>1. /\ \A r \in Requests : req[r].op = "none"
        /\ lock.user = None
        /\ \A s \in SessionIds : lock.session[s] = None /\ session[s].state = "absent"
        /\ \A k \in TokenIds : lock.token[k] = None
    BY DEF Init, NoCall, NoSession
  <1>2. Discipline
    BY <1>1 DEF Discipline, LocksOwned, ChangeOwnsUser, CallerOwnsSession, SignedIn, Changes,
       ChangeMeetsSessions, LoginsCurrent, OpensFresh, SessionsFollowPassword,
       ProvenStillCurrent, Active
  <1> QED BY <1>2, InitType DEF IInv

(***************************************************************************)
(* The locking discipline is an invariant: who keeps which row, and what a *)
(* password change has met when it commits.                                *)
(***************************************************************************)
THEOREM DisciplineHolds == Spec => []IInv
  <1>1. IInv /\ [Next]_vars => IInv'
    BY NextKeeps
  <1> QED BY InitDiscipline, <1>1, PTL DEF Spec

(***************************************************************************)
(* A password change ends every other session: only a login that           *)
(* overlapped it leaves one signed in under the old password.              *)
(***************************************************************************)
THEOREM SessionsDoNotOutlive == Spec => []SessionsFollowPassword
  <1>1. IInv => SessionsFollowPassword
    BY DEF IInv, Discipline
  <1> QED BY <1>1, DisciplineHolds, PTL

(***************************************************************************)
(* An owner's change never commits over another change it has not seen,    *)
(* unless its session was opened by an overlapping login.                  *)
(***************************************************************************)
THEOREM ProofStaysGood == Spec => []ProvenStillCurrent
  <1>1. IInv => ProvenStillCurrent
    BY DEF IInv, Discipline
  <1> QED BY <1>1, DisciplineHolds, PTL

-----------------------------------------------------------------------------
(* Tokens *)

\* A set of numbers has a least one.
LEMMA LeastNumber ==
  ASSUME NEW S \in SUBSET Nat, S # {}
  PROVE  \E n \in S : \A m \in S : ~(m < n)
  <1>1. PICK n \in S : \A m \in S : ~(<<m, n>> \in OpToRel(<, Nat))
    BY NatLessThanWellFounded, WFMin
  <1>2. \A m \in S : ~(m < n)
    BY <1>1 DEF OpToRel
  <1> QED BY <1>2

\* Some token of a set is the oldest.
LEMMA OldestExists ==
  ASSUME TypeOK, NEW K \in SUBSET TokenIds, K # {}
  PROVE  Oldest(K, 1) # {}
  <1> DEFINE B == {token[k].born : k \in K}
  <1>1. \A k \in K : token[k].born \in Nat
    BY DEF TypeOK, TokenRow
  <1>2. B \subseteq Nat /\ B # {}
    BY <1>1
  <1> HIDE DEF B
  <1>3. PICK n \in B : \A m \in B : ~(m < n)
    BY <1>2, LeastNumber
  <1> USE DEF B
  <1>4. PICK k \in K : token[k].born = n
    OBVIOUS
  <1>5. {j \in K : token[j].born < token[k].born} = {}
    BY <1>3, <1>4
  <1>6. Cardinality({j \in K : token[j].born < token[k].born}) = 0
    BY <1>5, FS_EmptySet
  <1> QED BY <1>6 DEF Oldest

\* Fewer tokens never count for more.
LEMMA Fewer ==
  ASSUME NEW K \in SUBSET TokenIds, NEW L \in SUBSET K
  PROVE  /\ Cardinality(L) \in Nat /\ Cardinality(K) \in Nat /\ Cardinality(L) <= Cardinality(K)
         /\ L # K => Cardinality(L) < Cardinality(K)
  BY TokensAssumption, FS_Subset, FS_CardinalityType

\* The n oldest of a set are n, or all of it: whoever is not among them has n
\* older than itself, and these are among them if it is the oldest left out.
LEMMA OldestMany ==
  ASSUME TypeOK, NEW K \in SUBSET TokenIds, NEW n \in Nat, Oldest(K, n) # K
  PROVE  Cardinality(Oldest(K, n)) >= n
  <1> DEFINE O == Oldest(K, n)
             B == {token[k].born : k \in K \ O}
  <1>1. O \subseteq K /\ K \ O # {}
    BY DEF Oldest
  <1>2. \A k \in K : token[k].born \in Nat
    BY DEF TypeOK, TokenRow
  <1>3. B \subseteq Nat /\ B # {}
    BY <1>1, <1>2
  <1>4. PICK b \in B : \A m \in B : ~(m < b)
    <2> HIDE DEF B
    <2> QED BY <1>3, LeastNumber
  <1>5. PICK k \in K \ O : token[k].born = b
    OBVIOUS
  <1> DEFINE Older == {j \in K : token[j].born < token[k].born}
  <1>6. ~(Cardinality(Older) < n)
    BY <1>5 DEF Oldest
  <1>7. Older \subseteq O
    BY <1>4, <1>5
  <1>8. Cardinality(Older) \in Nat /\ Cardinality(O) \in Nat /\ Cardinality(Older) <= Cardinality(O)
    <2> HIDE DEF Older, O
    <2> QED BY <1>1, <1>7, Fewer
  <1> QED BY <1>6, <1>8

\* Without its n oldest, a set that has fewer than n to spare fits.
LEMMA RestFits ==
  ASSUME TypeOK, NEW K \in SUBSET TokenIds, NEW n \in Nat, n > 0, Cardinality(K) < MAX_ACTIVE + n
  PROVE  Cardinality(K \ Oldest(K, n)) < MAX_ACTIVE
  <1> DEFINE O == Oldest(K, n)
  <1>1. O \subseteq K
    BY DEF Oldest
  <1>2. CASE O = K
    BY <1>2, FS_EmptySet, BoundAssumption
  <1>3. CASE O # K
    <2>1. Cardinality(O) >= n
      BY <1>3, OldestMany
    <2> HIDE DEF O
    <2>2. IsFiniteSet(K) /\ K \cap O = O
      BY <1>1, TokensAssumption, FS_Subset
    <2>3. Cardinality(K \ O) = Cardinality(K) - Cardinality(O)
      BY <2>2, FS_Difference
    <2>4. Cardinality(K) \in Nat /\ Cardinality(O) \in Nat
      BY <1>1, Fewer
    <2>5. Cardinality(K \ O) < MAX_ACTIVE
      BY <2>1, <2>3, <2>4, BoundAssumption
    <2> QED BY <2>5 DEF O
  <1> QED BY <1>2, <1>3

\* The steps of an issuing request, one at a time.
LEMMA OneToken ==
  ASSUME NEW K \in SUBSET TokenIds, NEW k \in TokenIds, Cardinality(K) < MAX_ACTIVE
  PROVE  Cardinality(K \cup {k}) <= MAX_ACTIVE
  BY TokensAssumption, BoundAssumption, FS_Subset, FS_CardinalityType, FS_AddElement

\* What every step but the insertion of a token does to tokens: it revokes some
\* that were issued.
Ages ==
  \A k \in TokenIds :
    /\ token'[k].from = token[k].from
    /\ \/ token'[k].status = token[k].status
       \/ token[k].status # "absent" /\ token'[k].status = "revoked"

\* What another request keeps while one works.
SameIssue(q) ==
  /\ req'[q].op = req[q].op /\ req'[q].pc = req[q].pc /\ req'[q].token = req[q].token
  /\ req'[q].minted = req[q].minted /\ req'[q].excess = req[q].excess
  /\ req'[q].doomed = req[q].doomed

LEMMA AgesActive ==
  ASSUME Ages
  PROVE  ActiveTokens' \subseteq ActiveTokens
  BY DEF Ages, ActiveTokens

\* Room that was left stays left.
LEMMA RoomStays ==
  ASSUME TypeOK, Ages, NEW q \in Requests, SameIssue(q), LeavesRoom(q)
  PROVE  LeavesRoom(q)'
  <1> DEFINE A == ActiveTokens
  <1>1. ActiveTokens' \subseteq A /\ A \subseteq TokenIds
    BY AgesActive DEF ActiveTokens
  <1>2. Cardinality(ActiveTokens') <= Cardinality(A)
    BY <1>1, Fewer
  <1>3. Cardinality(ActiveTokens' \ req[q].doomed) <= Cardinality(A \ req[q].doomed)
    BY <1>1, Fewer
  <1>4. Cardinality(ActiveTokens' \ {req[q].token}) <= Cardinality(A \ {req[q].token})
    BY <1>1, Fewer
  <1>5. \A K \in SUBSET A : Cardinality(K) \in Nat
    BY <1>1, Fewer
  <1>6. MAX_ACTIVE \in Nat
    BY BoundAssumption
  <1> HIDE DEF A
  <1> DEFINE n1 == Cardinality(ActiveTokens')
             n2 == Cardinality(ActiveTokens' \ req[q].doomed)
             n3 == Cardinality(ActiveTokens' \ {req[q].token})
             m1 == Cardinality(A)
             m2 == Cardinality(A \ req[q].doomed)
             m3 == Cardinality(A \ {req[q].token})
  <1>7. /\ n1 \in Nat /\ n2 \in Nat /\ n3 \in Nat /\ m1 \in Nat /\ m2 \in Nat /\ m3 \in Nat
        /\ n1 <= m1 /\ n2 <= m2 /\ n3 <= m3
    BY <1>1, <1>2, <1>3, <1>4, <1>5
  <1> HIDE DEF n1, n2, n3, m1, m2, m3
  <1>8. /\ \A e \in Nat : m1 < MAX_ACTIVE + e => n1 < MAX_ACTIVE + e
        /\ m1 < MAX_ACTIVE => n1 < MAX_ACTIVE
        /\ m2 < MAX_ACTIVE => n2 < MAX_ACTIVE
        /\ m3 < MAX_ACTIVE => n3 < MAX_ACTIVE
    BY <1>6, <1>7
  <1>e. req[q].excess \in Nat
    BY DEF TypeOK, Request
  <1>9. /\ At(q, "login", "pick") => req[q].excess > 0 /\ m1 < MAX_ACTIVE + req[q].excess
        /\ At(q, "login", "retire") => m2 < MAX_ACTIVE
        /\ At(q, "login", "open") \/ At(q, "login", "mint") => m1 < MAX_ACTIVE
        /\ At(q, "refresh", "session") \/ At(q, "refresh", "rotate") => m3 < MAX_ACTIVE
        /\ At(q, "refresh", "bump") \/ At(q, "refresh", "mint") => m1 < MAX_ACTIVE
    BY DEF LeavesRoom, m1, m2, m3, A
  <1>10. /\ At(q, "login", "pick")' => req'[q].excess > 0 /\ n1 < MAX_ACTIVE + req'[q].excess
         /\ At(q, "login", "retire")' => n2 < MAX_ACTIVE
         /\ At(q, "login", "open")' \/ At(q, "login", "mint")' => n1 < MAX_ACTIVE
         /\ At(q, "refresh", "session")' \/ At(q, "refresh", "rotate")' => n3 < MAX_ACTIVE
         /\ At(q, "refresh", "bump")' \/ At(q, "refresh", "mint")' => n1 < MAX_ACTIVE
    BY <1>8, <1>9, <1>e DEF SameIssue, At
  <1> QED BY <1>10 DEF LeavesRoom, SameIssue, n1, n2, n3

\* What a step of a request that inserts no token has to show.
LEMMA IssueStepKeeps ==
  ASSUME TypeOK, TypeOK', TokenDiscipline, Ages, UNCHANGED overlap,
         NEW r \in Requests, \A q \in Requests \ {r} : SameIssue(q),
         Issuing(r)' => /\ req'[r].op = req[r].op /\ req'[r].minted = req[r].minted
                        /\ req'[r].token = req[r].token,
         \A k \in req'[r].doomed : token[k].status # "absent",
         \A k \in TokenIds : lock'.token[k] # None => token[k].status # "absent",
         req'[r].pc = "mint" => Issuing(r)',
         req'[r].op = "refresh" /\ req'[r].pc \in {"bump", "mint"} =>
           token'[req[r].token].status = "revoked",
         LeavesRoom(r) => LeavesRoom(r)'
  PROVE  TokenDiscipline'
  <1> USE DEF TokenDiscipline
  <1>0. \A k \in TokenIds : /\ token'[k].from = token[k].from
                            /\ token'[k].status = "absent" <=> token[k].status = "absent"
                            /\ token[k].status = "revoked" => token'[k].status = "revoked"
    BY DEF Ages
  <1>t. \A q \in Requests : Issuing(q)' => /\ Issuing(q) /\ req'[q].op = req[q].op
                                           /\ req'[q].minted = req[q].minted
                                           /\ req'[q].token = req[q].token
    BY DEF SameIssue, Issuing
  <1>d. \A q \in Requests : req'[q].doomed \subseteq TokenIds
    BY DEF TypeOK, Request
  <1>f. \A j \in TokenIds : token[j].from \in TokenIds \cup {None}
    BY DEF TypeOK, TokenRow
  <1>1. MintsFresh'
    <2>1. \A q \in Requests : Issuing(q)' =>
            /\ req'[q].minted \in TokenIds /\ token'[req'[q].minted].status = "absent"
            /\ \A p \in Requests \ {q} : Issuing(p)' => req'[p].minted # req'[q].minted
      BY <1>0, <1>t DEF MintsFresh
    <2>2. \A q \in Requests : req'[q].pc = "mint" => Issuing(q)'
      BY DEF MintsFresh, SameIssue, Issuing
    <2>3. \A q \in Requests : \A k \in req'[q].doomed : token'[k].status # "absent"
      BY <1>0, <1>d DEF MintsFresh, SameIssue
    <2>4. \A k \in TokenIds : lock'.token[k] # None => token'[k].status # "absent"
      BY <1>0
    <2> QED BY <2>1, <2>2, <2>3, <2>4 DEF MintsFresh, Issuing
  <1>2. RotationsUsed'
    <2>1. \A q \in Requests : req'[q].op = "login" => req'[q].token = None
      BY <1>t DEF RotationsUsed, Issuing
    <2>2. \A q \in Requests : req'[q].op = "refresh" =>
            /\ req'[q].token \in TokenIds /\ token'[req'[q].token].status # "absent"
            /\ req'[q].pc \in {"bump", "mint"} => token'[req'[q].token].status = "revoked"
      BY <1>0, <1>t DEF RotationsUsed, Issuing, SameIssue
    <2>3. \A j \in TokenIds : token'[j].from # None => token'[token'[j].from].status = "revoked"
      BY <1>0, <1>f DEF RotationsUsed
    <2> QED BY <2>1, <2>2, <2>3 DEF RotationsUsed
  <1>3. IssuesAlone'
    <2>1. \A q \in Requests : LeavesRoom(q) => LeavesRoom(q)'
      BY RoomStays
    <2>2. \A q \in Requests : req'[q].op = "refresh" => req[q].op = "refresh"
      BY <1>t DEF Issuing
    <2>3. ASSUME NEW q \in Requests, overlap.alone = q
          PROVE  req'[q].op # "refresh" /\ LeavesRoom(q)' /\ \A p \in Requests : Issuing(p)' => p = q
      BY <1>t, <2>1, <2>2, <2>3 DEF IssuesAlone
    <2>4. ASSUME ~overlap.issuers
          PROVE  /\ \A p, q \in Requests : Issuing(p)' /\ Issuing(q)' => p = q
                 /\ \A q \in Requests : LeavesRoom(q)'
      BY <1>t, <2>1, <2>4 DEF IssuesAlone
    <2> QED BY <2>3, <2>4 DEF IssuesAlone, Issuing
  <1>4. TokensCapped'
    <2>1. ActiveTokens' \subseteq ActiveTokens /\ ActiveTokens \subseteq TokenIds
      BY AgesActive DEF ActiveTokens
    <2>2. /\ Cardinality(ActiveTokens') \in Nat /\ Cardinality(ActiveTokens) \in Nat
          /\ Cardinality(ActiveTokens') <= Cardinality(ActiveTokens)
      BY <2>1, Fewer
    <2> QED BY <2>2, BoundAssumption DEF TokensCapped
  <1>5. SingleUse'
    BY <1>0 DEF SingleUse
  <1>6. RotatesAlone'
    <2>1. \A q \in Requests : req'[q].op = "refresh" =>
            req[q].op = "refresh" /\ req'[q].token = req[q].token
      BY <1>t DEF Issuing
    <2> QED BY <1>0, <2>1 DEF RotatesAlone
  <1> QED BY <1>1, <1>2, <1>3, <1>4, <1>5, <1>6

\* A request that issues nothing.
LEMMA PlainKeepsTokens ==
  ASSUME TypeOK, TypeOK', TokenDiscipline, Ages, UNCHANGED overlap,
         NEW r \in Requests, \A q \in Requests \ {r} : SameIssue(q),
         ~Issuing(r)', req'[r].pc # "mint",
         \A k \in req'[r].doomed : token[k].status # "absent",
         \A k \in TokenIds : lock'.token[k] # None => token[k].status # "absent"
  PROVE  TokenDiscipline'
  <1>1. req'[r].op # "login" /\ req'[r].op # "refresh"
    BY DEF Issuing
  <1>2. LeavesRoom(r)'
    BY <1>1 DEF LeavesRoom, At
  <1> QED BY <1>1, <1>2, IssueStepKeeps

\* Tokens that stay as they are age.
LEMMA UnchangedAges == token' = token => Ages
  BY DEF Ages

\* Revoking a token that was issued.
LEMMA RevokedAges ==
  ASSUME TypeOK, NEW k \in TokenIds, token[k].status # "absent",
         token' = [token EXCEPT ![k].status = "revoked"]
  PROVE  Ages /\ token'[k].status = "revoked"
  BY DEF TypeOK, TokenRow, Ages

LEMMA EndsKeepsTokens ==
  ASSUME TypeOK, TypeOK', TokenDiscipline, Ages, UNCHANGED overlap, NEW r \in Requests, Ends(r)
  PROVE  TokenDiscipline'
  <1>1. req'[r] = NoCall /\ \A q \in Requests \ {r} : req'[q] = req[q]
    BY DEF Ends, TypeOK
  <1>2. /\ ~Issuing(r)' /\ req'[r].pc # "mint" /\ req'[r].doomed = {}
        /\ \A q \in Requests \ {r} : SameIssue(q)
    BY <1>1 DEF NoCall, Issuing, SameIssue
  <1>3. \A k \in TokenIds : lock'.token[k] # None => token[k].status # "absent"
    BY EndsFacts DEF TokenDiscipline, MintsFresh
  <1> QED BY <1>2, <1>3, PlainKeepsTokens

LEMMA GoesKeepsTokens ==
  ASSUME TypeOK, TypeOK', TokenDiscipline, Ages, UNCHANGED overlap, lock'.token = lock.token,
         NEW r \in Requests, NEW pc, Goes(r, pc), pc # "mint", ~Issuing(r)
  PROVE  TokenDiscipline'
  <1>1. /\ req'[r].op = req[r].op /\ req'[r].pc = pc /\ req'[r].doomed = req[r].doomed
        /\ \A q \in Requests \ {r} : req'[q] = req[q]
    BY DEF Goes, TypeOK, Request
  <1>2. ~Issuing(r)' /\ \A q \in Requests \ {r} : SameIssue(q)
    BY <1>1 DEF Issuing, SameIssue
  <1>3. /\ \A k \in req'[r].doomed : token[k].status # "absent"
        /\ \A k \in TokenIds : lock'.token[k] # None => token[k].status # "absent"
    BY <1>1 DEF TokenDiscipline, MintsFresh
  <1> QED BY <1>1, <1>2, <1>3, PlainKeepsTokens

\* The requests that are signed in, and their starts.
LEMMA SignedInKeepsTokens ==
  ASSUME TypeOK, TypeOK', TokenDiscipline, NEW r \in Requests,
         \/ Touch(r) \/ LogoutToken(r) \/ LogoutCommit(r)
         \/ (\E t \in SessionIds : RevokeRead(r, t)) \/ RevokeSave(r) \/ RevokeCommit(r)
  PROVE  TokenDiscipline'
  <1>1. CASE Touch(r) \/ RevokeSave(r)
    <2>1. Ages /\ UNCHANGED overlap /\ ~Issuing(r)
      BY <1>1, UnchangedAges DEF Touch, RevokeSave, Issuing, At, SignedIn
    <2>2. lock'.token = lock.token
      BY <1>1 DEF Touch, Touched, RevokeSave, TypeOK, Locks
    <2>3. \E pc : Goes(r, pc) /\ pc # "mint"
      BY <1>1 DEF Touch, RevokeSave
    <2> QED BY <2>1, <2>2, <2>3, GoesKeepsTokens
  <1>2. CASE LogoutToken(r)
    <2>1. UNCHANGED <<overlap, lock>> /\ ~Issuing(r) /\ Goes(r, "commit")
      BY <1>2 DEF LogoutToken, Issuing, At
    <2>2. CASE req[r].token # None /\ Usable(req[r].token)
      <3>1. req[r].token \in TokenIds /\ token[req[r].token].status # "absent"
        BY <2>2 DEF TypeOK, Request, Usable
      <3>2. token' = [token EXCEPT ![req[r].token].status = "revoked"]
        BY <1>2, <2>2 DEF LogoutToken
      <3> QED BY <2>1, <3>1, <3>2, RevokedAges, GoesKeepsTokens
    <2>3. CASE ~(req[r].token # None /\ Usable(req[r].token))
      BY <1>2, <2>1, <2>3, UnchangedAges, GoesKeepsTokens DEF LogoutToken
    <2> QED BY <2>2, <2>3
  <1>3. CASE LogoutCommit(r) \/ RevokeCommit(r)
    BY <1>3, UnchangedAges, EndsKeepsTokens DEF LogoutCommit, RevokeCommit
  <1>4. CASE \E t \in SessionIds : RevokeRead(r, t)
    <2> PICK t \in SessionIds : RevokeRead(r, t)
      BY <1>4
    <2>1. Ages /\ UNCHANGED <<overlap, token>> /\ req[r].op = "revoke"
      BY UnchangedAges DEF RevokeRead, At
    <2>2. CASE Ends(r)
      BY <2>1, <2>2, EndsKeepsTokens
    <2>3. CASE ~Ends(r)
      <3> DEFINE p == [req[r] EXCEPT !.pc = "save", !.target = t]
      <3>1. req' = [req EXCEPT ![r] = p] /\ UNCHANGED lock
        BY <2>3 DEF RevokeRead
      <3>2. p.op = "revoke" /\ p.pc = "save" /\ p.doomed = req[r].doomed
        BY <2>1 DEF TypeOK, Request
      <3> HIDE DEF p
      <3>3. req'[r] = p /\ \A q \in Requests \ {r} : SameIssue(q)
        BY <3>1 DEF SameIssue, TypeOK
      <3>4. /\ \A k \in req'[r].doomed : token[k].status # "absent"
            /\ \A k \in TokenIds : lock'.token[k] # None => token[k].status # "absent"
        BY <3>1, <3>2, <3>3 DEF TokenDiscipline, MintsFresh
      <3> QED BY <2>1, <3>2, <3>3, <3>4, PlainKeepsTokens DEF Issuing
    <2> QED BY <2>2, <2>3
  <1> QED BY <1>1, <1>2, <1>3, <1>4

\* The requests that start and issue nothing.
LEMMA StartKeepsTokens ==
  ASSUME TypeOK, TypeOK', TokenDiscipline, NEW r \in Requests,
         \/ \E op \in SignedIn, s \in SessionIds, k \in TokenIds \cup {None} :
              Authenticate(r, op, s, k)
         \/ EditRead(r) \/ \E op \in {"admin", "reset"} : StartChange(r, op)
  PROVE  TokenDiscipline'
  <1>1. UNCHANGED <<token, lock, overlap>> /\ Ages
    BY UnchangedAges DEF Authenticate, EditRead, StartChange
  <1>2. \A q \in Requests \ {r} : SameIssue(q)
    BY DEF Authenticate, EditRead, StartChange, SameIssue, TypeOK
  <1>3. req'[r].op \notin {"login", "refresh"} /\ req'[r].pc # "mint" /\ req'[r].doomed = {}
    <2>1. CASE EditRead(r)
      BY <2>1 DEF EditRead, NoCall, TypeOK
    <2>2. ASSUME NEW op \in {"admin", "reset"}, StartChange(r, op)
          PROVE  <1>3
      BY <2>2 DEF StartChange, NoCall, TypeOK
    <2>3. ASSUME NEW op \in SignedIn, NEW s \in SessionIds, NEW k \in TokenIds \cup {None},
                 Authenticate(r, op, s, k)
          PROVE  <1>3
      BY <2>3 DEF Authenticate, NoCall, SignedIn, TypeOK
    <2> QED BY <2>1, <2>2, <2>3
  <1>4. \A k \in TokenIds : lock'.token[k] # None => token[k].status # "absent"
    BY <1>1 DEF TokenDiscipline, MintsFresh
  <1> QED BY <1>1, <1>2, <1>3, <1>4, PlainKeepsTokens DEF Issuing

\* The password changes: a commit revokes the tokens it has locked.
LEMMA ChangeKeepsTokens ==
  ASSUME TypeOK, TypeOK', TokenDiscipline, NEW r \in Requests,
         \/ ChangeRead(r) \/ SaveUser(r) \/ TokensUpdate(r) \/ SessionsUpdate(r)
         \/ (\E s \in SessionIds : LockSession(r, s)) \/ EditSave(r) \/ ChangeCommit(r)
  PROVE  TokenDiscipline'
  <1>d. /\ \A k \in req[r].doomed : token[k].status # "absent"
        /\ \A k \in TokenIds : lock.token[k] # None => token[k].status # "absent"
    BY DEF TokenDiscipline, MintsFresh
  <1>1. CASE ChangeRead(r)
    <2>1. Ages /\ UNCHANGED <<overlap, token>> /\ req[r].op = "change"
      BY <1>1, UnchangedAges DEF ChangeRead, At
    <2>2. CASE Ends(r)
      BY <2>1, <2>2, EndsKeepsTokens
    <2>3. CASE ~Ends(r)
      <3> DEFINE p == [req[r] EXCEPT !.pc = "save", !.era = account.era]
      <3>1. req' = [req EXCEPT ![r] = p] /\ UNCHANGED lock
        BY <1>1, <2>3 DEF ChangeRead
      <3>2. p.op = "change" /\ p.pc = "save" /\ p.doomed = req[r].doomed
        BY <2>1 DEF TypeOK, Request
      <3> HIDE DEF p
      <3>3. req'[r] = p /\ \A q \in Requests \ {r} : SameIssue(q)
        BY <3>1 DEF SameIssue, TypeOK
      <3> QED BY <1>d, <2>1, <3>1, <3>2, <3>3, PlainKeepsTokens DEF Issuing
    <2> QED BY <2>2, <2>3
  <1>2. CASE SaveUser(r)
    <2>1. Ages /\ UNCHANGED <<overlap, token>> /\ req[r].op \in Changes
          /\ lock' = [lock EXCEPT !.user = r]
      BY <1>2, UnchangedAges DEF SaveUser
    <2>2. \A q \in Requests \ {r} : SameIssue(q)
      BY <1>2 DEF SaveUser, SameIssue, TypeOK, Request
    <2>3. /\ req'[r].op = req[r].op /\ req'[r].pc \in {"tokens", "sessions"}
          /\ req'[r].doomed = req[r].doomed
      <3> DEFINE pc == IF req[r].op = "change" THEN "sessions" ELSE "tokens"
      <3>1. req'[r] = [req[r] EXCEPT !.pc = pc] /\ pc \in {"tokens", "sessions"}
        BY <1>2 DEF SaveUser
      <3> HIDE DEF pc
      <3> QED BY <3>1 DEF TypeOK, Request
    <2>4. lock'.token = lock.token
      BY <2>1 DEF TypeOK, Locks
    <2>5. ~Issuing(r)'
      BY <2>1, <2>3 DEF Issuing, Changes
    <2> QED BY <1>d, <2>1, <2>2, <2>3, <2>4, <2>5, PlainKeepsTokens
  <1>3. CASE TokensUpdate(r)
    <2>1. Ages /\ UNCHANGED <<overlap, token>> /\ Goes(r, "sessions") /\ ~Issuing(r)
      BY <1>3, UnchangedAges DEF TokensUpdate, Issuing
    <2>2. /\ req'[r].op = req[r].op /\ req'[r].pc = "sessions" /\ req'[r].doomed = req[r].doomed
          /\ \A q \in Requests \ {r} : req'[q] = req[q]
      BY <2>1 DEF Goes, TypeOK, Request
    <2>3. \A k \in TokenIds : lock'.token[k] = IF k \in ActiveTokens THEN r ELSE lock.token[k]
      BY <1>3 DEF TokensUpdate, TypeOK, Locks
    <2>4. \A k \in TokenIds : lock'.token[k] # None => token[k].status # "absent"
      BY <1>d, <2>3 DEF ActiveTokens
    <2>5. ~Issuing(r)' /\ \A q \in Requests \ {r} : SameIssue(q)
      BY <2>1, <2>2 DEF Issuing, SameIssue
    <2> QED BY <1>d, <2>1, <2>2, <2>4, <2>5, PlainKeepsTokens
  <1>4. CASE SessionsUpdate(r) \/ \E s \in SessionIds : LockSession(r, s)
    <2>1. Ages /\ UNCHANGED <<overlap, token>> /\ ~Issuing(r)
      BY <1>4, UnchangedAges DEF SessionsUpdate, LockSession, Changes, Issuing
    <2>2. lock'.token = lock.token
      BY <1>4 DEF SessionsUpdate, LockSession, TypeOK, Locks
    <2>3. \A q \in Requests \ {r} : SameIssue(q)
      BY <1>4 DEF SessionsUpdate, LockSession, SameIssue, TypeOK
    <2>4. req'[r].op = req[r].op /\ req'[r].pc = "ending" /\ req'[r].doomed = req[r].doomed
      <3>1. CASE SessionsUpdate(r)
        BY <3>1 DEF SessionsUpdate, TypeOK, Request
      <3>2. ASSUME NEW s \in SessionIds, LockSession(r, s)
            PROVE  <2>4
        <4> DEFINE p == [req[r] EXCEPT !.todo = req[r].todo \ {s}]
        <4>1. p.op = req[r].op /\ p.pc = "ending" /\ p.doomed = req[r].doomed
          BY <3>2 DEF LockSession, TypeOK, Request
        <4>2. req' = [req EXCEPT ![r] = p]
          BY <3>2 DEF LockSession, TypeOK
        <4> HIDE DEF p
        <4> QED BY <4>1, <4>2 DEF TypeOK
      <3> QED BY <1>4, <3>1, <3>2
    <2> QED BY <1>d, <2>1, <2>2, <2>3, <2>4, PlainKeepsTokens DEF Issuing
  <1>5. CASE EditSave(r)
    BY <1>5, UnchangedAges, EndsKeepsTokens DEF EditSave
  <1>6. CASE ChangeCommit(r)
    <2>1. \A k \in TokenIds :
            token'[k] = IF lock.token[k] = r THEN [token[k] EXCEPT !.status = "revoked"] ELSE token[k]
      BY <1>6 DEF ChangeCommit
    <2>2. Ages
      <3> SUFFICES ASSUME NEW k \in TokenIds
                   PROVE  /\ token'[k].from = token[k].from
                          /\ \/ token'[k].status = token[k].status
                             \/ token[k].status # "absent" /\ token'[k].status = "revoked"
        BY DEF Ages
      <3>1. CASE lock.token[k] = r
        BY <1>d, <2>1, <3>1, NoneAssumption DEF TypeOK, TokenRow
      <3> QED BY <2>1, <3>1
    <2> QED BY <1>6, <2>2, EndsKeepsTokens DEF ChangeCommit
  <1> QED BY <1>1, <1>2, <1>3, <1>4, <1>5, <1>6

\* A login counts, picks and retires.
LEMMA RetiringKeepsTokens ==
  ASSUME TypeOK, TypeOK', TokenDiscipline, NEW r \in Requests,
         CountTokens(r) \/ PickOldest(r) \/ RetireToken(r) \/ OpenSession(r)
  PROVE  TokenDiscipline'
  <1>d. /\ \A k \in req[r].doomed : token[k].status # "absent"
        /\ \A k \in TokenIds : lock.token[k] # None => token[k].status # "absent"
    BY DEF TokenDiscipline, MintsFresh
  <1>l. /\ UNCHANGED <<lock, overlap>> /\ req[r].op = "login" /\ Issuing(r)
        /\ \A q \in Requests \ {r} : SameIssue(q)
    BY DEF CountTokens, PickOldest, RetireToken, OpenSession, Goes, At, Issuing, SameIssue, TypeOK
  <1>n. ActiveTokens \subseteq TokenIds /\ Cardinality(ActiveTokens) \in Nat
    BY Fewer DEF ActiveTokens
  <1> DEFINE Same == /\ req'[r].op = req[r].op /\ req'[r].minted = req[r].minted
                     /\ req'[r].token = req[r].token
  <1>1. CASE CountTokens(r)
    <2> DEFINE c == Cardinality(ActiveTokens)
               n == Excess(c)
               p == [req[r] EXCEPT !.pc = IF n > 0 THEN "pick" ELSE "open", !.excess = n]
    <2>1. req' = [req EXCEPT ![r] = p] /\ UNCHANGED token
      BY <1>1 DEF CountTokens
    <2>2. /\ p.op = req[r].op /\ p.minted = req[r].minted /\ p.token = req[r].token
          /\ p.doomed = req[r].doomed /\ p.excess = n
          /\ p.pc = IF n > 0 THEN "pick" ELSE "open"
      BY DEF TypeOK, Request
    <2> HIDE DEF p
    <2>3. req'[r] = p
      BY <2>1 DEF TypeOK
    <2>4. n \in Nat /\ c < MAX_ACTIVE + n
      <3> HIDE DEF c
      <3>1. c \in Nat
        BY <1>n DEF c
      <3> QED BY <3>1, BoundAssumption DEF Excess
    <2>5. ActiveTokens' = ActiveTokens
      BY <2>1 DEF ActiveTokens
    <2>6. LeavesRoom(r)'
      <3> HIDE DEF n
      <3>1. req'[r].pc = "pick" => n > 0
        BY <2>2, <2>3
      <3>2. req'[r].pc = "open" => n = 0
        BY <2>2, <2>3, <2>4
      <3>3. req'[r].op = "login" /\ req'[r].pc \in {"pick", "open"} /\ req'[r].excess = n
        BY <1>l, <2>2, <2>3
      <3>4. c < MAX_ACTIVE + n /\ (n = 0 => c < MAX_ACTIVE)
        BY <2>4, BoundAssumption
      <3> QED BY <2>5, <3>1, <3>2, <3>3, <3>4 DEF LeavesRoom, At
    <2> QED BY <1>d, <1>l, <2>1, <2>2, <2>3, <2>6, UnchangedAges, IssueStepKeeps
  <1>2. CASE PickOldest(r)
    <2> DEFINE K == Oldest(ActiveTokens, req[r].excess)
               p == [req[r] EXCEPT !.pc = IF K = {} THEN "open" ELSE "retire",
                                   !.excess = 0, !.doomed = K]
    <2>1. req' = [req EXCEPT ![r] = p] /\ UNCHANGED token /\ At(r, "login", "pick")
      BY <1>2 DEF PickOldest
    <2>2. /\ p.op = req[r].op /\ p.minted = req[r].minted /\ p.token = req[r].token
          /\ p.doomed = K /\ p.pc = IF K = {} THEN "open" ELSE "retire"
      BY DEF TypeOK, Request
    <2> HIDE DEF p
    <2>3. req'[r] = p /\ K \subseteq ActiveTokens
      BY <2>1 DEF TypeOK, Oldest
    <2>4. \A k \in req'[r].doomed : token[k].status # "absent"
      BY <2>2, <2>3 DEF ActiveTokens
    <2>5. ActiveTokens' = ActiveTokens
      BY <2>1 DEF ActiveTokens
    <2>6. ASSUME LeavesRoom(r)
          PROVE  LeavesRoom(r)'
      <3>1. /\ req[r].excess \in Nat /\ req[r].excess > 0
            /\ Cardinality(ActiveTokens) < MAX_ACTIVE + req[r].excess
        BY <2>1, <2>6 DEF LeavesRoom, TypeOK, Request
      <3>2. Cardinality(ActiveTokens \ K) < MAX_ACTIVE
        BY <1>n, <3>1, RestFits
      <3>3. K = {} => ActiveTokens \ K = ActiveTokens
        OBVIOUS
      <3> QED BY <1>l, <2>2, <2>3, <2>5, <3>2, <3>3 DEF LeavesRoom, At
    <2>7. req'[r].pc # "mint"
      BY <2>2, <2>3
    <2> QED BY <1>d, <1>l, <2>1, <2>2, <2>3, <2>4, <2>6, <2>7, UnchangedAges, IssueStepKeeps
  <1>3. CASE RetireToken(r)
    <2> PICK k \in Oldest(req[r].doomed, 1) :
          /\ token' = [token EXCEPT ![k].status = "revoked"]
          /\ req' = [req EXCEPT ![r] = [@ EXCEPT !.doomed = req[r].doomed \ {k},
                                        !.pc = IF req[r].doomed = {k} THEN "open" ELSE "retire"]]
      BY <1>3 DEF RetireToken
    <2> DEFINE D == req[r].doomed
               p == [req[r] EXCEPT !.doomed = D \ {k},
                                   !.pc = IF D = {k} THEN "open" ELSE "retire"]
    <2>1. k \in D /\ k \in TokenIds /\ D \subseteq TokenIds
      BY DEF Oldest, TypeOK, Request
    <2>2. /\ p.op = req[r].op /\ p.minted = req[r].minted /\ p.token = req[r].token
          /\ p.doomed = D \ {k} /\ p.pc = IF D = {k} THEN "open" ELSE "retire"
      <3> DEFINE pc == IF D = {k} THEN "open" ELSE "retire"
                 L == D \ {k}
      <3> HIDE DEF pc, L
      <3>1. p = [req[r] EXCEPT !.doomed = L, !.pc = pc]
        BY DEF pc, L
      <3>2. /\ p.op = req[r].op /\ p.minted = req[r].minted /\ p.token = req[r].token
            /\ p.doomed = L /\ p.pc = pc
        <4>1. req[r] \in Request
          BY DEF TypeOK
        <4>2. PICK y : y = [req[r] EXCEPT !.doomed = L, !.pc = pc]
          OBVIOUS
        <4>3. /\ y.op = req[r].op /\ y.minted = req[r].minted /\ y.token = req[r].token
              /\ y.doomed = L /\ y.pc = pc
          BY <4>1, <4>2 DEF Request
        <4>4. p = y
          BY <3>1, <4>2
        <4> HIDE DEF p
        <4> QED BY <4>3, <4>4
      <3> QED BY <3>2 DEF pc, L
    <2> HIDE DEF p
    <2>3. req'[r] = p
      BY DEF TypeOK, p
    <2>4. Ages /\ token'[k].status = "revoked"
      BY <1>d, <2>1, RevokedAges
    <2>5. /\ ActiveTokens' \subseteq ActiveTokens /\ k \notin ActiveTokens'
          /\ ActiveTokens' \subseteq TokenIds
      BY <2>4, AgesActive DEF ActiveTokens
    <2>6. ASSUME LeavesRoom(r)
          PROVE  LeavesRoom(r)'
      <3>1. At(r, "login", "retire") /\ Cardinality(ActiveTokens \ D) < MAX_ACTIVE
        BY <1>3, <2>6 DEF LeavesRoom, RetireToken
      <3>2. ActiveTokens' \ (D \ {k}) \subseteq ActiveTokens \ D
        BY <2>5
      <3>3. Cardinality(ActiveTokens' \ (D \ {k})) < MAX_ACTIVE
        <4>1. /\ Cardinality(ActiveTokens' \ (D \ {k})) \in Nat /\ Cardinality(ActiveTokens \ D) \in Nat
              /\ Cardinality(ActiveTokens' \ (D \ {k})) <= Cardinality(ActiveTokens \ D)
          BY <1>n, <3>2, Fewer
        <4> QED BY <3>1, <4>1, BoundAssumption
      <3>4. CASE D = {k}
        <4>1. ActiveTokens' \ (D \ {k}) = ActiveTokens'
          BY <3>4
        <4>2. Cardinality(ActiveTokens') < MAX_ACTIVE
          BY <3>3, <4>1
        <4> QED BY <1>l, <2>2, <2>3, <3>4, <4>2 DEF LeavesRoom, At
      <3>5. CASE D # {k}
        <4>1. req'[r].op = "login" /\ req'[r].pc = "retire" /\ req'[r].doomed = D \ {k}
          BY <1>l, <2>2, <2>3, <3>5
        <4> QED BY <3>3, <4>1 DEF LeavesRoom, At
      <3> QED BY <3>4, <3>5
    <2>7. req'[r].pc # "mint" /\ \A j \in req'[r].doomed : token[j].status # "absent"
      BY <1>d, <2>2, <2>3
    <2> QED BY <1>d, <1>l, <2>2, <2>3, <2>4, <2>6, <2>7, IssueStepKeeps
  <1>4. CASE OpenSession(r)
    <2>1. UNCHANGED token /\ Goes(r, "mint") /\ req[r].pc = "open"
      BY <1>4 DEF OpenSession, At
    <2>2. Same /\ req'[r].pc = "mint" /\ req'[r].doomed = req[r].doomed
      BY <2>1 DEF Goes, TypeOK, Request
    <2>3. ActiveTokens' = ActiveTokens
      BY <2>1 DEF ActiveTokens
    <2>4. LeavesRoom(r) => LeavesRoom(r)'
      BY <1>l, <2>1, <2>2, <2>3 DEF LeavesRoom, At
    <2> QED BY <1>d, <1>l, <2>1, <2>2, <2>4, UnchangedAges, IssueStepKeeps DEF Issuing
  <1> QED BY <1>1, <1>2, <1>3, <1>4

\* A refresh checks its session, revokes its token and touches its session.
LEMMA RotatingKeepsTokens ==
  ASSUME TypeOK, TypeOK', TokenDiscipline, NEW r \in Requests,
         RefreshSession(r) \/ RotateToken(r) \/ BumpSession(r)
  PROVE  TokenDiscipline'
  <1>d. /\ \A k \in req[r].doomed : token[k].status # "absent"
        /\ \A k \in TokenIds : lock.token[k] # None => token[k].status # "absent"
    BY DEF TokenDiscipline, MintsFresh
  <1>l. UNCHANGED overlap /\ req[r].op = "refresh" /\ Issuing(r)
    BY DEF RefreshSession, RotateToken, BumpSession, At, Issuing
  <1>t. /\ req[r].token \in TokenIds /\ token[req[r].token].status # "absent"
        /\ req[r].pc \in {"bump", "mint"} => token[req[r].token].status = "revoked"
    BY <1>l DEF TokenDiscipline, RotationsUsed
  <1>g. ASSUME NEW pc, Goes(r, pc)
        PROVE  /\ req'[r].op = req[r].op /\ req'[r].minted = req[r].minted
               /\ req'[r].token = req[r].token /\ req'[r].pc = pc /\ req'[r].doomed = req[r].doomed
               /\ \A q \in Requests \ {r} : SameIssue(q)
    BY <1>g DEF Goes, TypeOK, Request, SameIssue
  <1>1. CASE RefreshSession(r)
    <2>1. UNCHANGED token /\ req[r].pc = "session"
      BY <1>1 DEF RefreshSession, At
    <2>2. CASE Ends(r)
      BY <1>l, <2>1, <2>2, UnchangedAges, EndsKeepsTokens
    <2>3. CASE Goes(r, "rotate") /\ UNCHANGED lock
      <3>1. ActiveTokens' = ActiveTokens
        BY <2>1 DEF ActiveTokens
      <3>2. LeavesRoom(r) => LeavesRoom(r)'
        BY <1>g, <1>l, <2>1, <2>3, <3>1 DEF LeavesRoom, At
      <3>3. req'[r].pc = "rotate"
        BY <1>g, <2>3
      <3> QED BY <1>d, <1>g, <1>l, <2>1, <2>3, <3>2, <3>3, UnchangedAges, IssueStepKeeps
    <2> QED BY <1>1, <2>2, <2>3 DEF RefreshSession
  <1>2. CASE RotateToken(r)
    <2>1. /\ token' = [token EXCEPT ![req[r].token].status = "revoked"] /\ req[r].pc = "rotate"
          /\ Goes(r, "bump") /\ UNCHANGED lock
      BY <1>2 DEF RotateToken, At
    <2>2. Ages /\ token'[req[r].token].status = "revoked"
      BY <1>t, <2>1, RevokedAges
    <2>3. ASSUME LeavesRoom(r)
          PROVE  LeavesRoom(r)'
      <3>1. Cardinality(ActiveTokens \ {req[r].token}) < MAX_ACTIVE
        BY <1>l, <2>1, <2>3 DEF LeavesRoom, At
      <3>2. ActiveTokens' \subseteq ActiveTokens \ {req[r].token} /\ ActiveTokens \subseteq TokenIds
        BY <2>2, AgesActive DEF ActiveTokens
      <3>3. /\ Cardinality(ActiveTokens') \in Nat /\ Cardinality(ActiveTokens \ {req[r].token}) \in Nat
            /\ Cardinality(ActiveTokens') <= Cardinality(ActiveTokens \ {req[r].token})
        BY <3>2, Fewer
      <3>4. Cardinality(ActiveTokens') < MAX_ACTIVE
        BY <3>1, <3>3, BoundAssumption
      <3> QED BY <1>g, <1>l, <2>1, <3>4 DEF LeavesRoom, At
    <2> QED BY <1>d, <1>g, <1>l, <2>1, <2>2, <2>3, IssueStepKeeps
  <1>3. CASE BumpSession(r)
    <2>1. UNCHANGED <<token, lock>> /\ Goes(r, "mint") /\ req[r].pc = "bump"
      BY <1>3 DEF BumpSession, At
    <2>2. ActiveTokens' = ActiveTokens
      BY <2>1 DEF ActiveTokens
    <2>3. LeavesRoom(r) => LeavesRoom(r)'
      BY <1>g, <1>l, <2>1, <2>2 DEF LeavesRoom, At
    <2>4. Issuing(r)' /\ token'[req[r].token].status = "revoked"
      BY <1>g, <1>l, <1>t, <2>1 DEF Issuing
    <2> QED BY <1>d, <1>g, <1>l, <2>1, <2>3, <2>4, UnchangedAges, IssueStepKeeps
  <1> QED BY <1>1, <1>2, <1>3

\* The new token is inserted.
LEMMA MintKeepsTokens ==
  ASSUME TypeOK, TypeOK', TokenDiscipline, NEW r \in Requests, MintToken(r)
  PROVE  TokenDiscipline'
  <1> USE DEF TokenDiscipline
  <1> DEFINE m == req[r].minted
             f == req[r].token
  <1>1. Issuing(r) /\ m \in TokenIds /\ token[m].status = "absent"
    BY DEF MintsFresh, MintToken
  <1>2. /\ token'[m].status = "active" /\ token'[m].from = f
        /\ \A k \in TokenIds \ {m} : token'[k] = token[k]
    BY <1>1 DEF MintToken, TypeOK
  <1>3. /\ req'[r] = NoCall /\ \A q \in Requests \ {r} : req'[q] = req[q]
        /\ ~Issuing(r)' /\ NoCall.pc = "idle" /\ NoCall.doomed = {}
        /\ NoCall.op = "none"
    BY DEF MintToken, Ends, TypeOK, NoCall, Issuing
  <1>4. \A k \in TokenIds : lock'.token[k] # None => lock.token[k] # None
    BY EndsFacts DEF MintToken
  <1>5. \A q \in Requests : req[q].doomed \subseteq TokenIds
    BY DEF TypeOK, Request
  <1>6. f # None => /\ f \in TokenIds \ {m} /\ token[f].status = "revoked" /\ req[r].op = "refresh"
    BY <1>1 DEF RotationsUsed, Issuing, MintToken
  <1>7. \A j \in TokenIds : token[j].from # None =>
          /\ token[j].from \in TokenIds \ {m} /\ token[token[j].from].status = "revoked"
    BY <1>1 DEF RotationsUsed, TypeOK, TokenRow
  <1>8. MintsFresh'
    <2>1. \A q \in Requests : Issuing(q)' => q # r /\ Issuing(q) /\ req'[q] = req[q]
      BY <1>3 DEF Issuing
    <2>2. \A q \in Requests : Issuing(q)' =>
            /\ req'[q].minted \in TokenIds /\ token'[req'[q].minted].status = "absent"
            /\ \A p \in Requests \ {q} : Issuing(p)' => req'[p].minted # req'[q].minted
      BY <1>1, <1>2, <2>1 DEF MintsFresh
    <2>3. \A q \in Requests : req'[q].pc = "mint" => Issuing(q)'
      BY <1>3 DEF MintsFresh, Issuing
    <2>4. \A q \in Requests : \A k \in req'[q].doomed : token'[k].status # "absent"
      BY <1>1, <1>2, <1>3, <1>5 DEF MintsFresh
    <2>5. \A k \in TokenIds : lock'.token[k] # None => token'[k].status # "absent"
      BY <1>2, <1>4 DEF MintsFresh
    <2> QED BY <2>2, <2>3, <2>4, <2>5 DEF MintsFresh, Issuing
  <1>9. RotationsUsed'
    <2>1. \A q \in Requests : req'[q].op # "none" => req'[q] = req[q]
      BY <1>3
    <2>2. \A q \in Requests : req'[q].op = "login" => req'[q].token = None
      BY <2>1 DEF RotationsUsed
    <2>3. \A q \in Requests : req'[q].op = "refresh" =>
            /\ req'[q].token \in TokenIds /\ token'[req'[q].token].status # "absent"
            /\ req'[q].pc \in {"bump", "mint"} => token'[req'[q].token].status = "revoked"
      BY <1>1, <1>2, <2>1 DEF RotationsUsed
    <2>4. \A j \in TokenIds : token'[j].from # None => token'[token'[j].from].status = "revoked"
      BY <1>2, <1>6, <1>7
    <2> QED BY <2>2, <2>3, <2>4 DEF RotationsUsed
  <1>o. /\ overlap'.tokens = overlap.tokens /\ overlap'.alone = overlap.alone
        /\ overlap'.issuers <=> overlap.issuers /\ overlap.alone # r
    BY DEF MintToken, TypeOK, Overlap
  \* Whoever mints with the account to itself is the only one, and has left room.
  <1>10. ASSUME ~overlap.issuers \/ overlap.alone = r
         PROVE  LeavesRoom(r) /\ \A q \in Requests : Issuing(q) => q = r
    BY <1>1, <1>10 DEF IssuesAlone
  <1>11. IssuesAlone'
    <2>1. ASSUME ~overlap.issuers \/ overlap.alone = r, NEW q \in Requests
          PROVE  ~Issuing(q)' /\ req'[q].op # "login" /\ req'[q].op # "refresh"
      BY <1>3, <1>10, <2>1 DEF Issuing
    <2>2. ASSUME ~overlap.issuers \/ overlap.alone = r, NEW q \in Requests
          PROVE  LeavesRoom(q)'
      BY <2>1, <2>2 DEF LeavesRoom, At
    <2>3. \A q \in Requests : overlap.alone = q => q = r
      BY <1>1 DEF IssuesAlone
    <2> QED BY <1>o, <2>1, <2>2, <2>3 DEF IssuesAlone
  <1>12. TokensCapped'
    <2>1. ActiveTokens' = ActiveTokens \cup {m} /\ ActiveTokens \subseteq TokenIds
      BY <1>1, <1>2 DEF ActiveTokens
    <2>2. ~overlap'.issuers => Cardinality(ActiveTokens) < MAX_ACTIVE
      BY <1>1, <1>10, <1>o DEF LeavesRoom, At, Issuing, MintToken
    <2> QED BY <1>1, <2>1, <2>2, OneToken DEF TokensCapped
  <1>13. ASSUME NEW j \in TokenIds, f # None, token[j].from = f
         PROVE  f \in overlap.tokens
    BY <1>6, <1>13 DEF RotatesAlone
  <1>14. SingleUse'
    <2> SUFFICES ASSUME NEW j \in TokenIds, NEW k \in TokenIds, j # k, token'[j].from # None,
                        token'[j].from = token'[k].from
                 PROVE  token'[j].from \in overlap.tokens
      BY <1>o DEF SingleUse
    <2>1. CASE j = m
      BY <1>2, <1>13, <2>1
    <2>2. CASE k = m
      BY <1>2, <1>13, <2>2
    <2>3. CASE j # m /\ k # m
      BY <1>2, <2>3 DEF SingleUse
    <2> QED BY <2>1, <2>2, <2>3
  <1>15. RotatesAlone'
    <2> SUFFICES ASSUME NEW k \in TokenIds \ overlap.tokens
                 PROVE  /\ \A p, q \in Requests :
                             /\ req'[p].op = "refresh" /\ req'[p].token = k
                             /\ req'[q].op = "refresh" /\ req'[q].token = k
                             => p = q
                        /\ \A j \in TokenIds, q \in Requests :
                             token'[j].from = k => ~(req'[q].op = "refresh" /\ req'[q].token = k)
      BY <1>o DEF RotatesAlone
    <2>1. \A q \in Requests : req'[q].op = "refresh" => q # r /\ req'[q] = req[q]
      BY <1>3
    <2>2. \A p, q \in Requests :
            /\ req[p].op = "refresh" /\ req[p].token = k
            /\ req[q].op = "refresh" /\ req[q].token = k
            => p = q
      BY DEF RotatesAlone
    <2>3. \A j \in TokenIds, q \in Requests :
            token[j].from = k => ~(req[q].op = "refresh" /\ req[q].token = k)
      BY DEF RotatesAlone
    <2>4. ASSUME NEW q \in Requests, token'[m].from = k, req'[q].op = "refresh", req'[q].token = k
          PROVE  FALSE
      BY <1>2, <1>6, <2>1, <2>2, <2>4, NoneAssumption
    <2> QED BY <1>2, <2>1, <2>2, <2>3, <2>4
  <1> QED BY <1>8, <1>9, <1>11, <1>12, <1>14, <1>15

\* A login or a refresh begins.
LEMMA ReadKeepsTokens ==
  ASSUME TypeOK, TypeOK', TokenDiscipline, NEW r \in Requests, NEW n \in TokenIds, FreshToken(n),
         NEW q \in Request, req' = [req EXCEPT ![r] = q], UNCHANGED <<token, lock>>,
         overlap'.issuers <=> overlap.issuers \/ Crowd,
         q.minted = n, q.doomed = {},
         \/ /\ q.op = "login" /\ q.pc = "count" /\ q.token = None
            /\ overlap'.tokens = overlap.tokens /\ overlap'.alone = IF Crowd THEN None ELSE r
         \/ /\ q.op = "refresh" /\ q.pc = "session" /\ q.token \in ActiveTokens
            /\ overlap.tokens \subseteq overlap'.tokens /\ overlap'.alone = None
            /\ \A p \in Requests : req[p].op = "refresh" /\ req[p].token = q.token =>
                 q.token \in overlap'.tokens
  PROVE  TokenDiscipline'
  <1> USE DEF TokenDiscipline
  <1>1. req'[r] = q /\ \A p \in Requests \ {r} : req'[p] = req[p]
    BY DEF TypeOK
  <1>2. token[n].status = "absent" /\ \A p \in Requests : req[p].minted # n
    BY DEF FreshToken
  <1>3. MintsFresh'
    BY <1>1, <1>2 DEF MintsFresh, Issuing
  <1>4. RotationsUsed'
    BY <1>1 DEF RotationsUsed, ActiveTokens
  <1>5. ActiveTokens' = ActiveTokens /\ ActiveTokens \subseteq TokenIds
    BY DEF ActiveTokens
  <1>6. TokensCapped' /\ SingleUse'
    BY <1>5 DEF TokensCapped, SingleUse, TypeOK
  <1>7. ASSUME ~Crowd
        PROVE  \A p \in Requests \ {r} : req'[p].op # "login" /\ req'[p].op # "refresh"
    BY <1>1, <1>7 DEF Crowd, Issuing
  <1>8. IssuesAlone'
    <2>1. q.op = "login" => LeavesRoom(r)'
      BY <1>1 DEF LeavesRoom, At
    <2>2. ASSUME NEW p \in Requests, overlap'.alone = p
          PROVE  req'[p].op # "refresh" /\ LeavesRoom(p)' /\ \A o \in Requests : Issuing(o)' => o = p
      <3>1. q.op = "login" /\ ~Crowd /\ p = r
        BY <2>2, NoneAssumption
      <3> QED BY <1>1, <1>7, <2>1, <3>1 DEF Issuing
    <2>3. ASSUME ~overlap'.issuers, q.op = "refresh"
          PROVE  LeavesRoom(r)'
      <3>1. q.token \in ActiveTokens
        BY <2>3
      <3>2. /\ Cardinality(ActiveTokens \ {q.token}) \in Nat /\ Cardinality(ActiveTokens) \in Nat
            /\ Cardinality(ActiveTokens \ {q.token}) < Cardinality(ActiveTokens)
        BY <1>5, <3>1, Fewer
      <3>3. Cardinality(ActiveTokens) <= MAX_ACTIVE
        BY <2>3 DEF TokensCapped
      <3>4. Cardinality(ActiveTokens \ {q.token}) < MAX_ACTIVE
        BY <3>2, <3>3, BoundAssumption
      <3>5. req'[r].op = "refresh" /\ req'[r].pc = "session" /\ req'[r].token = q.token
        BY <1>1, <2>3
      <3> QED BY <1>5, <3>4, <3>5 DEF LeavesRoom, At
    <2>4. ASSUME ~overlap'.issuers
          PROVE  /\ \A o, p \in Requests : Issuing(o)' /\ Issuing(p)' => o = p
                 /\ \A p \in Requests : LeavesRoom(p)'
      <3>1. \A p \in Requests \ {r} : req'[p].op # "login" /\ req'[p].op # "refresh"
        BY <1>7, <2>4
      <3>2. LeavesRoom(r)'
        BY <2>1, <2>3, <2>4
      <3> QED BY <3>1, <3>2 DEF LeavesRoom, At, Issuing
    <2> QED BY <2>2, <2>4 DEF IssuesAlone
  <1>9. RotatesAlone'
    <2> SUFFICES ASSUME NEW k \in TokenIds \ overlap'.tokens
                 PROVE  /\ \A o, p \in Requests :
                             /\ req'[o].op = "refresh" /\ req'[o].token = k
                             /\ req'[p].op = "refresh" /\ req'[p].token = k
                             => o = p
                        /\ \A j \in TokenIds, p \in Requests :
                             token[j].from = k => ~(req'[p].op = "refresh" /\ req'[p].token = k)
      BY DEF RotatesAlone
    <2>1. k \notin overlap.tokens
      OBVIOUS
    <2>2. \A o, p \in Requests :
            /\ req[o].op = "refresh" /\ req[o].token = k
            /\ req[p].op = "refresh" /\ req[p].token = k
            => o = p
      BY <2>1 DEF RotatesAlone
    <2>3. \A j \in TokenIds, p \in Requests :
            token[j].from = k => ~(req[p].op = "refresh" /\ req[p].token = k)
      BY <2>1 DEF RotatesAlone
    <2>4. ASSUME q.op = "refresh", q.token = k
          PROVE  /\ \A p \in Requests : ~(req[p].op = "refresh" /\ req[p].token = k)
                 /\ \A j \in TokenIds : token[j].from # k
      BY <2>4, NoneAssumption DEF RotationsUsed, ActiveTokens
    <2> QED BY <1>1, <2>2, <2>3, <2>4
  <1> QED BY <1>3, <1>4, <1>6, <1>8, <1>9

LEMMA NextKeepsTokens ==
  ASSUME TypeOK, TokenDiscipline, [Next]_vars
  PROVE  TokenDiscipline'
  <1>t. TypeOK'
    BY NextType
  <1>1. CASE UNCHANGED vars
    <2>1. (MintsFresh /\ RotationsUsed)'
      BY <1>1 DEF vars, TokenDiscipline, MintsFresh, RotationsUsed, Issuing
    <2>2. (TokensCapped /\ SingleUse)'
      BY <1>1 DEF vars, TokenDiscipline, TokensCapped, SingleUse, ActiveTokens
    <2>3. \A r \in Requests : LeavesRoom(r) => LeavesRoom(r)'
      BY <1>1 DEF vars, LeavesRoom, At, ActiveTokens
    <2>4. IssuesAlone'
      BY <1>1, <2>3 DEF vars, TokenDiscipline, IssuesAlone, Issuing
    <2>5. RotatesAlone'
      BY <1>1 DEF vars, TokenDiscipline, RotatesAlone
    <2> QED BY <2>1, <2>2, <2>4, <2>5 DEF TokenDiscipline
  <1>2. ASSUME NEW r \in Requests, NEW s \in SessionIds, NEW k \in TokenIds, LoginRead(r, s, k)
        PROVE  TokenDiscipline'
    <2> DEFINE q == [NoCall EXCEPT !.op = "login", !.pc = "count", !.session = s, !.minted = k,
                       !.era = account.era, !.late = \E p \in Requests : Open(p)]
    <2>1. req' = [req EXCEPT ![r] = q] /\ q \in Request
      <3>1. req' = [req EXCEPT ![r] = q]
        BY <1>2 DEF LoginRead
      <3>2. req'[r] \in Request /\ req'[r] = q
        BY <1>t, <3>1 DEF TypeOK
      <3> QED BY <3>1, <3>2
    <2>2. /\ q.minted = k /\ q.doomed = {} /\ q.op = "login" /\ q.pc = "count" /\ q.token = None
      BY DEF NoCall
    <2> HIDE DEF q
    <2>3. /\ overlap'.issuers <=> overlap.issuers \/ Crowd
          /\ overlap'.tokens = overlap.tokens /\ overlap'.alone = IF Crowd THEN None ELSE r
      BY <1>2 DEF LoginRead, TypeOK, Overlap
    <2>4. FreshToken(k) /\ UNCHANGED <<token, lock>>
      BY <1>2 DEF LoginRead
    <2> QED BY <1>t, <2>1, <2>2, <2>3, <2>4, ReadKeepsTokens
  <1>3. ASSUME NEW r \in Requests, NEW k \in TokenIds, NEW m \in TokenIds, RefreshRead(r, k, m)
        PROVE  TokenDiscipline'
    <2> DEFINE q == [NoCall EXCEPT !.op = "refresh", !.pc = "session",
                       !.session = token[k].session, !.token = k, !.minted = m]
    <2>1. req' = [req EXCEPT ![r] = q] /\ q \in Request
      <3>1. req' = [req EXCEPT ![r] = q]
        BY <1>3 DEF RefreshRead
      <3>2. req'[r] \in Request /\ req'[r] = q
        BY <1>t, <3>1 DEF TypeOK
      <3> QED BY <3>1, <3>2
    <2>2. /\ q.minted = m /\ q.doomed = {} /\ q.op = "refresh" /\ q.pc = "session" /\ q.token = k
      BY DEF NoCall
    <2> HIDE DEF q
    <2>3. k \in ActiveTokens
      BY <1>3 DEF RefreshRead, Usable, ActiveTokens
    <2>4. FreshToken(m) /\ UNCHANGED <<token, lock>>
      BY <1>3 DEF RefreshRead
    <2>5. /\ overlap'.issuers <=> overlap.issuers \/ Crowd
          /\ overlap.tokens \subseteq overlap'.tokens /\ overlap'.alone = None
          /\ \A p \in Requests : req[p].op = "refresh" /\ req[p].token = k => k \in overlap'.tokens
      BY <1>3 DEF RefreshRead
    <2> QED BY <1>t, <2>1, <2>2, <2>3, <2>4, <2>5, ReadKeepsTokens
  <1>4. ASSUME NEW r \in Requests, Starts(r) \/ \E op \in {"admin", "reset"} : StartChange(r, op)
        PROVE  TokenDiscipline'
    BY <1>t, <1>2, <1>3, <1>4, StartKeepsTokens DEF Starts
  <1>5. ASSUME NEW r \in Requests, DeadlockVictim(r) \/ Dies(r)
        PROVE  TokenDiscipline'
    BY <1>t, <1>5, UnchangedAges, EndsKeepsTokens DEF DeadlockVictim, Dies
  <1>6. ASSUME NEW r \in Requests, Proceeds(r)
        PROVE  TokenDiscipline'
    BY <1>t, <1>6, RetiringKeepsTokens, RotatingKeepsTokens, MintKeepsTokens, SignedInKeepsTokens,
       ChangeKeepsTokens DEF Proceeds, Works
  <1> QED BY <1>1, <1>4, <1>5, <1>6 DEF Next

LEMMA InitTokens ==
  ASSUME Init
  PROVE  TokenDiscipline
  <1>1. /\ \A r \in Requests : req[r].op = "none" /\ req[r].pc = "idle" /\ req[r].doomed = {}
        /\ \A k \in TokenIds : lock.token[k] = None /\ token[k].status = "absent"
                               /\ token[k].from = None
    BY DEF Init, NoCall, NoToken
  <1>2. MintsFresh /\ RotationsUsed /\ SingleUse
    BY <1>1 DEF MintsFresh, RotationsUsed, SingleUse, Issuing
  <1>3. IssuesAlone /\ RotatesAlone
    BY <1>1, NoneAssumption DEF IssuesAlone, RotatesAlone, LeavesRoom, At, Issuing
  <1>4. ActiveTokens = {}
    BY <1>1 DEF ActiveTokens
  <1>5. TokensCapped
    BY <1>4, FS_EmptySet, BoundAssumption DEF TokensCapped
  <1> QED BY <1>2, <1>3, <1>5 DEF TokenDiscipline

(***************************************************************************)
(* What the limits on refresh tokens rest on is an invariant: what a       *)
(* request that issues one has revoked, and the room it has made.          *)
(***************************************************************************)
THEOREM TokensDisciplined == Spec => []TokenDiscipline
  <1>1. TypeOK /\ TokenDiscipline /\ [Next]_vars => TokenDiscipline'
    BY NextKeepsTokens
  <1> QED BY InitTokens, <1>1, TypeCorrect, PTL DEF Spec

(***************************************************************************)
(* An account has no more active refresh tokens than the limit, unless two *)
(* requests have issued tokens at once and no login has had the account to *)
(* itself since.                                                           *)
(***************************************************************************)
THEOREM TokensStayCapped == Spec => []TokensCapped
  <1>1. TokenDiscipline => TokensCapped
    BY DEF TokenDiscipline
  <1> QED BY <1>1, TokensDisciplined, PTL

(***************************************************************************)
(* No refresh token is rotated into two, unless two refreshes had it in    *)
(* hand at once: rotate_tokens revokes it before it mints.                 *)
(***************************************************************************)
THEOREM TokensRotateOnce == Spec => []SingleUse
  <1>1. TokenDiscipline => SingleUse
    BY DEF TokenDiscipline
  <1> QED BY <1>1, TokensDisciplined, PTL

-----------------------------------------------------------------------------
(* Waiting                                                                  *)

\* A logout that waits for its token waits for a change that has revoked it.
LEMMA LogoutWaits ==
  ASSUME TypeOK, LocksOwned, NEW r \in Requests, NEW c \in Requests,
         At(r, "logout", "token"), c \in Blockers(r)
  PROVE  /\ lock.token[req[r].token] = c /\ lock.user = c
         /\ req[c].op \in {"admin", "reset"} /\ req[c].pc \in {"tokens", "sessions", "ending"}
<1> DEFINE k == req[r].token
<1>1. k \in TokenIds /\ lock.token[k] = c
  BY DEF Blockers, At, ActiveTokens
<1>2. lock.token[k] # None
  BY <1>1, NoneAssumption
<1> QED BY <1>1, <1>2 DEF LocksOwned

\* And such a change waits for nothing but the rows of sessions.
LEMMA ChangeWaits ==
  ASSUME TypeOK, NEW c \in Requests, NEW d \in Requests, lock.user = c,
         req[c].pc \in {"tokens", "sessions", "ending"}, d \in Blockers(c)
  PROVE  req[c].pc = "ending" /\ \E s \in req[c].todo : lock.session[s] = d
<1>1. req[c].pc = "ending"
  BY DEF Blockers
<1> QED BY <1>1 DEF Blockers

(***************************************************************************)
(* The only wait without an end that PostgreSQL does not break is that of  *)
(* a logout for an administrator's change or a reset, which waits for the  *)
(* row of a session in its turn: every other circle is one it sees.  With- *)
(* out logouts, or without changes made for the owner, nothing hangs.      *)
(***************************************************************************)
THEOREM OnlyLogoutsHang == Spec => []HangsThroughLogout
<1>1. Spec => []IInv
  BY DisciplineHolds
<1>2. IInv => HangsThroughLogout
  <2> SUFFICES ASSUME IInv, NEW S \in SUBSET Requests,
                      S # {}, Circle(S), \A q \in S : ~Deadlocked(q)
               PROVE  \E r, c \in S :
                        /\ At(r, "logout", "token") /\ lock.token[req[r].token] = c
                        /\ lock.user = c /\ req[c].op \in {"admin", "reset"}
                        /\ req[c].pc = "ending"
                        /\ \E s \in req[c].todo : lock.session[s] \in S
    BY DEF HangsThroughLogout
  <2>1. TypeOK /\ LocksOwned
    BY DEF IInv, Discipline
  <2>2. PICK r \in S : ~Visible(r)
    BY DEF Deadlocked
  <2>3. PICK c \in S : c \in Blockers(r)
    BY DEF Circle
  <2>4. PICK d \in S : d \in Blockers(c)
    BY DEF Circle
  <2>5. At(r, "logout", "token")
    BY <2>2 DEF Visible
  <2>6. /\ lock.token[req[r].token] = c /\ lock.user = c
        /\ req[c].op \in {"admin", "reset"} /\ req[c].pc \in {"tokens", "sessions", "ending"}
    BY <2>1, <2>3, <2>5, LogoutWaits
  <2>7. req[c].pc = "ending" /\ \E s \in req[c].todo : lock.session[s] = d
    BY <2>1, <2>4, <2>6, ChangeWaits
  <2> QED BY <2>5, <2>6, <2>7
<1> QED BY <1>1, <1>2, PTL
=============================================================================

------------------------------- MODULE Sessions -------------------------------
(***************************************************************************)
(* One account of Mentorio: its password, its sessions, its refresh tokens *)
(* (auth_custom/services, auth_custom/views, UserViewSet) and the requests *)
(* that touch them.                                                        *)
(*                                                                         *)
(* Login and refresh write through the auth_bypass_rls connection, each    *)
(* statement its own transaction.  The other requests are one transaction  *)
(* (OrganizationContextMiddleware, or the atomic block of confirm_reset):  *)
(* they keep the row locks of their UPDATEs and their writes appear at the *)
(* commit.  Logout does both: its token goes through the bypass connection *)
(* while its own transaction is open.                                      *)
(***************************************************************************)
EXTENDS Naturals, FiniteSets

CONSTANTS
  Requests,      \* requests in flight for this account
  SessionIds,    \* rows of auth.sessions
  TokenIds,      \* rows of auth.refresh_tokens
  MAX_ACTIVE,    \* MAX_ACTIVE_REFRESH_TOKENS
  Ops,           \* the operations in use
  MaxChanges,    \* bound: password changes
  None

ASSUME NoneAssumption == None \notin Requests \cup SessionIds \cup TokenIds
ASSUME TokensAssumption == IsFiniteSet(TokenIds)
ASSUME BoundAssumption == MaxChanges \in Nat /\ MAX_ACTIVE \in Nat \ {0}

VARIABLES
  account,   \* the password, numbered in the order they were chosen
  session,
  token,
  lock,      \* who holds the row locks
  req,       \* requests in flight
  overlap    \* history: what requests that issue tokens have had in common

vars == <<account, session, token, lock, req, overlap>>

Changes == {"change", "admin", "reset"}
SignedIn == {"logout", "revoke", "change"}
AllOps == Changes \cup {"login", "refresh", "logout", "revoke", "edit"}

ASSUME OpsAssumption == Ops \subseteq AllOps

\* era counts password changes; a change picks password number era + 1.
Account == [password: Nat, era: Nat]

\* late is history: the login that opened it overlapped a password change.
\* An ended row keeps neither.
SessionRow == [state: {"absent", "active", "ended"}, era: Nat, late: BOOLEAN]

\* from is history: the token it was rotated from, None at login.
TokenRow == [status: {"absent", "active", "revoked"}, session: SessionIds \cup {None},
             born: Nat, from: TokenIds \cup {None}]

\* issuers: two of them have been in flight at once since a login last had the
\* account to itself; alone: the login that has had it so since it began; tokens:
\* those that two refreshes had in hand at once.
Overlap == [issuers: BOOLEAN, alone: Requests \cup {None}, tokens: SUBSET TokenIds]

Locks == [user: Requests \cup {None}, session: [SessionIds -> Requests \cup {None}],
          token: [TokenIds -> Requests \cup {None}]]

Steps == {"idle", "count", "pick", "retire", "open", "session", "rotate", "bump", "mint",
          "touch", "token", "read", "save", "tokens", "sessions", "ending", "commit"}

Request == [op: AllOps \cup {"none"},
            pc: Steps,
            session: SessionIds \cup {None},  \* the caller's, or the one to open
            target: SessionIds \cup {None},   \* the session to revoke
            token: TokenIds \cup {None},      \* the refresh token presented
            minted: TokenIds \cup {None},     \* the row to insert
            password: Nat,                    \* as read
            era: Nat,                         \* as of that read
            late: BOOLEAN,
            excess: Nat,                      \* tokens over the limit, as counted
            doomed: SUBSET TokenIds,          \* tokens to retire
            todo: SUBSET SessionIds]          \* sessions an UPDATE has still to lock

TypeOK ==
  /\ account \in Account
  /\ session \in [SessionIds -> SessionRow]
  /\ token \in [TokenIds -> TokenRow]
  /\ lock \in Locks
  /\ req \in [Requests -> Request]
  /\ overlap \in Overlap

NoSession == [state |-> "absent", era |-> 0, late |-> FALSE]
Ended == [NoSession EXCEPT !.state = "ended"]
NoToken == [status |-> "absent", session |-> None, born |-> 0, from |-> None]
NoCall == [op |-> "none", pc |-> "idle", session |-> None, target |-> None, token |-> None,
           minted |-> None, password |-> 0, era |-> 0, late |-> FALSE, excess |-> 0,
           doomed |-> {}, todo |-> {}]

Init ==
  /\ account = [password |-> 0, era |-> 0]
  /\ session = [s \in SessionIds |-> NoSession]
  /\ token = [k \in TokenIds |-> NoToken]
  /\ lock = [user |-> None, session |-> [s \in SessionIds |-> None],
             token |-> [k \in TokenIds |-> None]]
  /\ req = [r \in Requests |-> NoCall]
  /\ overlap = [issuers |-> FALSE, alone |-> None, tokens |-> {}]

Active(s) == session[s].state = "active"

\* Fault: any token ever issued is accepted.
UsableOnce(k) == token[k].status # "absent"
Usable(k) == token[k].status = "active"

ActiveTokens == {k \in TokenIds : token[k].status = "active"}
Idle(r) == req[r].op = "none"
At(r, op, pc) == req[r].op = op /\ req[r].pc = pc
Issuing(r) == req[r].op \in {"login", "refresh"}
Crowd == \E q \in Requests : Issuing(q)

FreshSession(s) == session[s].state = "absent" /\ \A q \in Requests : req[q].session # s
FreshToken(k) == token[k].status = "absent" /\ \A q \in Requests : req[q].minted # k

-----------------------------------------------------------------------------
(* Locks *)

\* A password change is open from its first write until it ends.
Open(r) == req[r].op \in Changes /\ lock.user = r

\* Inserting a session, a token or an audit row takes FOR KEY SHARE on the user,
\* which only confirm_reset's select_for_update excludes.
UserReferable(r) == \A q \in Requests \ {r} : ~(req[q].op = "reset" /\ lock.user = q)

\* Fault: the transaction is left open.
UnlockedNot(r) == lock
Unlocked(r) ==
  [user |-> IF lock.user = r THEN None ELSE lock.user,
   session |-> [s \in SessionIds |-> IF lock.session[s] = r THEN None ELSE lock.session[s]],
   token |-> [k \in TokenIds |-> IF lock.token[k] = r THEN None ELSE lock.token[k]]]

Goes(r, pc) == req' = [req EXCEPT ![r].pc = pc]

Ends(r) ==
  /\ req' = [req EXCEPT ![r] = NoCall]
  /\ lock' = Unlocked(r)

-----------------------------------------------------------------------------
(* Login: LoginView.post, then issue_tokens_for_new_session *)

\* The password is right and the account active.
LoginRead(r, s, k) ==
  /\ "login" \in Ops /\ Idle(r)
  /\ FreshSession(s) /\ FreshToken(k)
  /\ req' = [req EXCEPT ![r] = [NoCall EXCEPT !.op = "login", !.pc = "count",
               !.session = s, !.minted = k, !.era = account.era,
               !.late = \E q \in Requests : Open(q)]]
  /\ overlap' = [overlap EXCEPT !.issuers = @ \/ Crowd, !.alone = IF Crowd THEN None ELSE r]
  /\ UNCHANGED <<account, session, token, lock>>

\* Fault: no room is left for the new token.
ExcessOf(n) == IF n > MAX_ACTIVE THEN n - MAX_ACTIVE ELSE 0
Excess(n) == IF n > MAX_ACTIVE - 1 THEN n - (MAX_ACTIVE - 1) ELSE 0

\* _enforce_max_active_tokens counts first ...
CountTokens(r) ==
  LET n == Excess(Cardinality(ActiveTokens)) IN
  /\ At(r, "login", "count")
  /\ req' = [req EXCEPT ![r] = [@ EXCEPT !.pc = IF n > 0 THEN "pick" ELSE "open", !.excess = n]]
  /\ UNCHANGED <<account, session, token, lock, overlap>>

Oldest(K, n) ==
  {k \in K : Cardinality({j \in K : token[j].born < token[k].born}) < n}

\* ... reads the oldest in a second query ...
PickOldest(r) ==
  LET K == Oldest(ActiveTokens, req[r].excess) IN
  /\ At(r, "login", "pick")
  /\ req' = [req EXCEPT ![r] = [@ EXCEPT !.pc = IF K = {} THEN "open" ELSE "retire",
                                         !.excess = 0, !.doomed = K]]
  /\ UNCHANGED <<account, session, token, lock, overlap>>

\* ... and saves them one by one, oldest first.
RetireToken(r) ==
  /\ At(r, "login", "retire")
  /\ \E k \in Oldest(req[r].doomed, 1) :
       /\ lock.token[k] = None
       /\ token' = [token EXCEPT ![k].status = "revoked"]
       /\ req' = [req EXCEPT ![r] = [@ EXCEPT !.doomed = req[r].doomed \ {k},
                                           !.pc = IF req[r].doomed = {k} THEN "open" ELSE "retire"]]
  /\ UNCHANGED <<account, session, lock, overlap>>

OpenSession(r) ==
  /\ At(r, "login", "open") /\ UserReferable(r)
  /\ session' = [session EXCEPT ![req[r].session] =
                   [state |-> "active", era |-> req[r].era, late |-> req[r].late]]
  /\ Goes(r, "mint")
  /\ UNCHANGED <<account, token, lock, overlap>>

\* _mint_and_persist, for a login or a refresh.
MintToken(r) ==
  /\ req[r].pc = "mint" /\ UserReferable(r)
  /\ token' = [token EXCEPT ![req[r].minted] =
       [status |-> "active", session |-> req[r].session, from |-> req[r].token,
        born |-> Cardinality({k \in TokenIds : token[k].status # "absent"})]]
  /\ Ends(r)
  /\ overlap' = [overlap EXCEPT !.issuers = @ /\ overlap.alone # r]
  /\ UNCHANGED <<account, session>>

-----------------------------------------------------------------------------
(* Refresh: rotate_tokens *)

RefreshRead(r, k, m) ==
  /\ "refresh" \in Ops /\ Idle(r)
  /\ Usable(k) /\ FreshToken(m)
  /\ req' = [req EXCEPT ![r] = [NoCall EXCEPT !.op = "refresh", !.pc = "session",
               !.session = token[k].session, !.token = k, !.minted = m]]
  /\ overlap' = [issuers |-> overlap.issuers \/ Crowd, alone |-> None,
                  tokens |-> overlap.tokens \cup
                    {t \in {k} : \E q \in Requests : req[q].op = "refresh" /\ req[q].token = t}]
  /\ UNCHANGED <<account, session, token, lock>>

\* The token's session is checked by a query of its own.
RefreshSession(r) ==
  /\ At(r, "refresh", "session")
  /\ IF Active(req[r].session)
     THEN Goes(r, "rotate") /\ UNCHANGED lock
     ELSE Ends(r)
  /\ UNCHANGED <<account, session, token, overlap>>

\* The token is saved as read: whatever its status is by now.
RotateToken(r) ==
  /\ At(r, "refresh", "rotate")
  /\ lock.token[req[r].token] = None
  /\ token' = [token EXCEPT ![req[r].token].status = "revoked"]
  /\ Goes(r, "bump")
  /\ UNCHANGED <<account, session, lock, overlap>>

\* last_activity_at, on the bypass connection: waits for the row, keeps nothing.
BumpSession(r) ==
  /\ At(r, "refresh", "bump")
  /\ lock.session[req[r].session] = None
  /\ Goes(r, "mint")
  /\ UNCHANGED <<account, session, token, lock, overlap>>

-----------------------------------------------------------------------------
(* Requests signed in with a session *)

\* SessionValidatingJWTAuthentication finds the session active.
Authenticate(r, op, s, k) ==
  /\ op \in Ops /\ Idle(r) /\ Active(s)
  /\ op = "change" => account.era + Cardinality({q \in Requests : req[q].op \in Changes}) < MaxChanges
  /\ k \in {None} \cup {j \in TokenIds : op = "logout" /\ token[j].session = s}
  /\ req' = [req EXCEPT ![r] = [NoCall EXCEPT !.op = op, !.pc = "touch",
                                              !.session = s, !.token = k]]
  /\ UNCHANGED <<account, session, token, lock, overlap>>

\* Fault: a request does not write last_activity_at.
TouchedNot(s, r) == lock
Touched(s, r) == [lock EXCEPT !.session[s] = r]

\* last_activity_at is written in the request's transaction: the row stays locked.
Touch(r) ==
  /\ req[r].op \in SignedIn /\ req[r].pc = "touch"
  /\ lock.session[req[r].session] = None
  /\ lock' = Touched(req[r].session, r)
  /\ Goes(r, IF req[r].op = "logout" THEN "token" ELSE "read")
  /\ UNCHANGED <<account, session, token, overlap>>

\* revoke_refresh_token goes through the bypass connection and commits at once.
LogoutToken(r) ==
  LET k == req[r].token IN
  /\ At(r, "logout", "token")
  /\ IF k # None /\ Usable(k)
     THEN lock.token[k] = None /\ token' = [token EXCEPT ![k].status = "revoked"]
     ELSE UNCHANGED token
  /\ Goes(r, "commit")
  /\ UNCHANGED <<account, session, lock, overlap>>

\* SessionRevokeView finds another active session.
RevokeRead(r, t) ==
  /\ At(r, "revoke", "read") /\ t # req[r].session
  /\ IF Active(t)
     THEN req' = [req EXCEPT ![r] = [@ EXCEPT !.pc = "save", !.target = t]] /\ UNCHANGED lock
     ELSE Ends(r)
  /\ UNCHANGED <<account, session, token, overlap>>

RevokeSave(r) ==
  LET t == req[r].target IN
  /\ At(r, "revoke", "save") /\ lock.session[t] = None
  /\ lock' = [lock EXCEPT !.session[t] = r]
  /\ Goes(r, "commit")
  /\ UNCHANGED <<account, session, token, overlap>>

EndSessions(S) ==
  session' = [s \in SessionIds |->
                IF s \in S THEN Ended ELSE session[s]]

\* revoke_session, and the commit of the request around it.
LogoutCommit(r) ==
  /\ At(r, "logout", "commit") /\ UserReferable(r)
  /\ EndSessions({req[r].session})
  /\ Ends(r)
  /\ UNCHANGED <<account, token, overlap>>

RevokeCommit(r) ==
  /\ At(r, "revoke", "commit") /\ UserReferable(r)
  /\ EndSessions({req[r].target})
  /\ Ends(r)
  /\ UNCHANGED <<account, token, overlap>>

-----------------------------------------------------------------------------
(* Password changes: by the owner (UserViewSet.perform_update), by an       *)
(* administrator (perform_update, reset_password) or over Telegram (the     *)
(* second transaction of confirm_reset)                                     *)

StartChange(r, op) ==
  /\ op \in Ops /\ Idle(r)
  /\ account.era + Cardinality({q \in Requests : req[q].op \in Changes}) < MaxChanges
  /\ req' = [req EXCEPT ![r] = [NoCall EXCEPT !.op = op, !.pc = "save"]]
  /\ UNCHANGED <<account, session, token, lock, overlap>>

\* The caller proves the current password, or is refused.
ChangeRead(r) ==
  /\ At(r, "change", "read")
  /\ \/ /\ req' = [req EXCEPT ![r] = [@ EXCEPT !.pc = "save", !.era = account.era]]
        /\ UNCHANGED lock
     \/ Ends(r)
  /\ UNCHANGED <<account, session, token, overlap>>

\* The user's row is locked and saved.
SaveUser(r) ==
  /\ req[r].op \in Changes /\ req[r].pc = "save"
  /\ lock.user = None
  /\ lock' = [lock EXCEPT !.user = r]
  /\ req' = [q \in Requests |->
       IF q = r THEN [req[q] EXCEPT !.pc = IF req[r].op = "change" THEN "sessions" ELSE "tokens"]
       ELSE IF req[q].op = "login" THEN [req[q] EXCEPT !.late = TRUE]
       ELSE req[q]]
  /\ UNCHANGED <<account, session, token, overlap>>

\* revoke_all_user_sessions: the tokens.  Nobody keeps a token's row locked
\* without the user's row.
TokensUpdate(r) ==
  /\ req[r].op \in {"admin", "reset"} /\ req[r].pc = "tokens"
  /\ lock' = [lock EXCEPT !.token = [k \in TokenIds |->
                IF k \in ActiveTokens THEN r ELSE lock.token[k]]]
  /\ Goes(r, "sessions")
  /\ UNCHANGED <<account, session, token, overlap>>

\* keep_session_id
Spared(q) == IF q.op = "change" THEN {q.session} ELSE {}

\* Fault: only the sessions whose row is free.
OutdatedFree(q) == {s \in SessionIds : Active(s) /\ lock.session[s] = None} \ Spared(q)
\* Fault: a reset over Telegram ends no session.
OutdatedByHand(q) == IF q.op = "reset" THEN {} ELSE {s \in SessionIds : Active(s)} \ Spared(q)
\* The sessions the UPDATE finds when it starts.
Outdated(q) == {s \in SessionIds : Active(s)} \ Spared(q)

SessionsUpdate(r) ==
  /\ req[r].op \in Changes /\ req[r].pc = "sessions"
  /\ req' = [req EXCEPT ![r] = [@ EXCEPT !.pc = "ending", !.todo = Outdated(req[r])]]
  /\ UNCHANGED <<account, session, token, lock, overlap>>

\* The UPDATE reaches a row whose lock is free.
LockSession(r, s) ==
  /\ req[r].op \in Changes /\ req[r].pc = "ending" /\ s \in req[r].todo
  /\ lock.session[s] = None
  /\ lock' = [lock EXCEPT !.session[s] = r]
  /\ req' = [req EXCEPT ![r].todo = @ \ {s}]
  /\ UNCHANGED <<account, session, token, overlap>>

ChangeCommit(r) ==
  /\ req[r].op \in Changes /\ req[r].pc = "ending" /\ req[r].todo = {}
  /\ account' = [password |-> account.era + 1, era |-> account.era + 1]
  /\ session' = [s \in SessionIds |->
       IF s \in Spared(req[r]) /\ Active(s) THEN [session[s] EXCEPT !.era = account.era + 1]
       ELSE IF lock.session[s] = r THEN Ended
       ELSE session[s]]
  /\ token' = [k \in TokenIds |->
       IF lock.token[k] = r THEN [token[k] EXCEPT !.status = "revoked"] ELSE token[k]]
  /\ Ends(r)
  /\ UNCHANGED overlap

-----------------------------------------------------------------------------
(* An administrator edits another field: UserSerializer.update saves the    *)
(* whole row as read                                                        *)

EditRead(r) ==
  /\ "edit" \in Ops /\ Idle(r)
  /\ req' = [req EXCEPT ![r] = [NoCall EXCEPT !.op = "edit", !.pc = "save",
                                              !.password = account.password]]
  /\ UNCHANGED <<account, session, token, lock, overlap>>

\* Nothing else of this account follows the save: it is one step with the commit.
EditSave(r) ==
  /\ At(r, "edit", "save") /\ lock.user = None
  /\ account' = [account EXCEPT !.password = req[r].password]
  /\ Ends(r)
  /\ UNCHANGED <<session, token, overlap>>

-----------------------------------------------------------------------------
(* Waiting *)

\* Whose locks keep a request from its next step.
Blockers(r) ==
  LET q == req[r]
      owners == CASE q.pc \in {"touch", "bump"} -> {lock.session[q.session]}
                  [] q.pc = "rotate" -> {lock.token[q.token]}
                  [] q.pc = "token" /\ q.token \in ActiveTokens -> {lock.token[q.token]}
                  [] q.pc = "retire" -> {lock.token[k] : k \in Oldest(q.doomed, 1)}
                  [] q.pc = "save" /\ q.op = "revoke" -> {lock.session[q.target]}
                  [] q.pc = "save" /\ q.op # "revoke" -> {lock.user}
                  [] q.pc = "ending" -> {lock.session[s] : s \in q.todo}
                  [] q.pc \in {"open", "mint", "commit"} ->
                       IF UserReferable(r) THEN {} ELSE {lock.user}
                  [] OTHER -> {}
  IN IF None \in owners THEN {} ELSE owners \ {r}

\* PostgreSQL sees who waits for whom on one connection.  A logout that waits for
\* its token keeps its session's row on another connection, idle in transaction.
Visible(r) == ~At(r, "logout", "token")

Circle(S) ==
  \A q \in S : Blockers(q) \cap S # {} /\ \E p \in S : q \in Blockers(p)

Deadlocked(r) ==
  \E S \in SUBSET Requests : r \in S /\ Circle(S) /\ \A q \in S : Visible(q)

\* deadlock_timeout: one transaction of a cycle of waits is rolled back.
DeadlockVictim(r) ==
  /\ Deadlocked(r)
  /\ Ends(r)
  /\ UNCHANGED <<account, session, token, overlap>>

\* The process handling the request dies: its open transaction is rolled back.
Dies(r) ==
  /\ ~Idle(r)
  /\ Ends(r)
  /\ UNCHANGED <<account, session, token, overlap>>

-----------------------------------------------------------------------------

Starts(r) ==
  \/ \E s \in SessionIds, k \in TokenIds : LoginRead(r, s, k)
  \/ \E k, m \in TokenIds : RefreshRead(r, k, m)
  \/ \E op \in SignedIn, s \in SessionIds, k \in TokenIds \cup {None} :
       Authenticate(r, op, s, k)
  \/ EditRead(r)

Works(r) ==
  \/ CountTokens(r) \/ PickOldest(r) \/ RetireToken(r) \/ OpenSession(r) \/ MintToken(r)
  \/ RefreshSession(r) \/ RotateToken(r) \/ BumpSession(r)
  \/ Touch(r) \/ LogoutToken(r) \/ LogoutCommit(r)
  \/ (\E t \in SessionIds : RevokeRead(r, t)) \/ RevokeSave(r) \/ RevokeCommit(r)
  \/ ChangeRead(r) \/ SaveUser(r) \/ TokensUpdate(r) \/ SessionsUpdate(r)
  \/ (\E s \in SessionIds : LockSession(r, s))
  \/ EditSave(r)

Proceeds(r) == Works(r) \/ ChangeCommit(r)

Next ==
  \E r \in Requests :
    \/ Starts(r) \/ (\E op \in {"admin", "reset"} : StartChange(r, op))
    \/ Proceeds(r)
    \/ DeadlockVictim(r) \/ Dies(r)

Spec == Init /\ [][Next]_vars

(***************************************************************************)
(* A request that nothing keeps from its next step takes it; PostgreSQL    *)
(* queues whoever waits for a lock, so a lock that is freed again and      *)
(* again is had in the end; and a deadlock it can see is broken.           *)
(***************************************************************************)
FairSpec ==
  /\ Spec
  /\ \A r \in Requests : SF_vars(Proceeds(r)) /\ WF_vars(DeadlockVictim(r))

-----------------------------------------------------------------------------
(* Properties *)

\* Locks belong to requests that are at a step that keeps them.
LocksOwned ==
  /\ lock.user # None =>
       req[lock.user].op \in Changes /\ req[lock.user].pc \in {"tokens", "sessions", "ending"}
  /\ \A k \in TokenIds : lock.token[k] # None =>
       /\ lock.token[k] = lock.user
       /\ req[lock.user].op \in {"admin", "reset"}
  /\ \A s \in SessionIds : lock.session[s] # None =>
       LET q == req[lock.session[s]] IN
       \/ q.op \in SignedIn /\ q.session = s /\ q.pc # "touch"
       \/ At(lock.session[s], "revoke", "commit") /\ q.target = s
       \/ q.op \in Changes /\ q.pc = "ending" /\ s \notin q.todo

(***************************************************************************)
(* "Used after any password change so a stolen session can't outlive the   *)
(* credential" (revoke_all_user_sessions): a live session opened before    *)
(* the last password change was opened by a login that overlapped it.      *)
(***************************************************************************)
SessionsFollowPassword ==
  \A s \in SessionIds : Active(s) => session[s].era = account.era \/ session[s].late

(***************************************************************************)
(* While an owner's change runs in a live session, the password it proved  *)
(* is the account's: it never overwrites a reset it has not seen.          *)
(***************************************************************************)
ProvenStillCurrent ==
  \A r \in Requests :
    LET q == req[r] IN
    /\ q.op = "change" /\ q.pc \in {"save", "sessions", "ending"}
    /\ Active(q.session) /\ ~session[q.session].late
    => q.era = account.era

(***************************************************************************)
(* "max 5 active per user" (_enforce_max_active_tokens): two requests that *)
(* issue tokens at once may exceed it, but the next login that has the     *)
(* account to itself retires all that is over the limit, not one token.    *)
(***************************************************************************)
TokensCapped == ~overlap.issuers => Cardinality(ActiveTokens) <= MAX_ACTIVE

(***************************************************************************)
(* "the old one is single-use" (rotate_tokens): two tokens come from one   *)
(* only if two refreshes had that one in hand at once.  A refresh that     *)
(* comes after, or died half way, never gives it a second life.            *)
(***************************************************************************)
SingleUse ==
  \A j, k \in TokenIds :
    j # k /\ token[j].from # None /\ token[j].from = token[k].from => token[j].from \in overlap.tokens

(***************************************************************************)
(* The password is the one chosen last.                                    *)
(***************************************************************************)
PasswordChangeSticks == account.password = account.era

(***************************************************************************)
(* Every request ends.                                                     *)
(***************************************************************************)
EveryRequestEnds == \A r \in Requests : ~Idle(r) ~> Idle(r)

(***************************************************************************)
(* Only one kind of wait for each other goes unseen, and so for ever: a    *)
(* logout waits for a token that an administrator's change, or a reset,    *)
(* has revoked and not yet committed, and that change in turn waits for a  *)
(* session's row.  (revoke_refresh_token's connection is not the one that  *)
(* keeps the logout's own session.)                                        *)
(***************************************************************************)
HangsThroughLogout ==
  \A S \in SUBSET Requests :
    S # {} /\ Circle(S) /\ (\A q \in S : ~Deadlocked(q)) =>
      \E r, c \in S :
        /\ At(r, "logout", "token") /\ lock.token[req[r].token] = c
        /\ lock.user = c /\ req[c].op \in {"admin", "reset"} /\ req[c].pc = "ending"
        /\ \E s \in req[c].todo : lock.session[s] \in S

-----------------------------------------------------------------------------
(* What the properties rest on *)

ChangeOwnsUser ==
  \A r \in Requests :
    req[r].op \in Changes /\ req[r].pc \in {"tokens", "sessions", "ending"} => lock.user = r

\* A request keeps the row of the session it is signed in with.
CallerOwnsSession ==
  \A r \in Requests : req[r].op \in SignedIn =>
    /\ req[r].session \in SessionIds
    /\ session[req[r].session].state # "absent"
    /\ req[r].pc # "touch" => lock.session[req[r].session] = r
    /\ req[r].op = "revoke" /\ req[r].pc \in {"save", "commit"} =>
         req[r].target \in SessionIds /\ session[req[r].target].state # "absent"

\* A password change has met every session that no overlapping login opened.
ChangeMeetsSessions ==
  \A r \in Requests : req[r].op \in Changes /\ req[r].pc = "ending" =>
    \A s \in SessionIds :
      /\ s \in req[r].todo \/ lock.session[s] = r => session[s].state # "absent"
      /\ Active(s) /\ ~session[s].late /\ s \notin Spared(req[r]) =>
           s \in req[r].todo \/ lock.session[s] = r

\* A login that overlaps a change knows it; any other read the current password.
LoginsCurrent ==
  \A r \in Requests : req[r].op = "login" =>
    /\ (\E q \in Requests : Open(q)) => req[r].late
    /\ req[r].late \/ req[r].era = account.era

\* A session row is opened once.
OpensFresh ==
  \A r \in Requests :
    req[r].op = "login" /\ req[r].pc \in {"count", "pick", "retire", "open"} =>
      /\ req[r].session \in SessionIds
      /\ session[req[r].session].state = "absent"
      /\ \A q \in Requests \ {r} : req[q].op = "login" => req[q].session # req[r].session

\* A token to be inserted is nobody else's and not inserted yet; one to be
\* revoked was.
MintsFresh ==
  /\ \A r \in Requests : Issuing(r) =>
       /\ req[r].minted \in TokenIds /\ token[req[r].minted].status = "absent"
       /\ \A q \in Requests \ {r} : Issuing(q) => req[q].minted # req[r].minted
  /\ \A r \in Requests : req[r].pc = "mint" => Issuing(r)
  /\ \A r \in Requests : \A k \in req[r].doomed : token[k].status # "absent"
  /\ \A k \in TokenIds : lock.token[k] # None => token[k].status # "absent"

\* A refresh revokes its token before it mints, and a token that another was
\* minted from stays revoked.
RotationsUsed ==
  /\ \A r \in Requests : req[r].op = "login" => req[r].token = None
  /\ \A r \in Requests : req[r].op = "refresh" =>
       /\ req[r].token \in TokenIds /\ token[req[r].token].status # "absent"
       /\ req[r].pc \in {"bump", "mint"} => token[req[r].token].status = "revoked"
  /\ \A j \in TokenIds : token[j].from # None => token[token[j].from].status = "revoked"

\* A request that issues a token has made room for it, or is about to.
LeavesRoom(r) ==
  /\ At(r, "login", "pick") =>
       req[r].excess > 0 /\ Cardinality(ActiveTokens) < MAX_ACTIVE + req[r].excess
  /\ At(r, "login", "retire") => Cardinality(ActiveTokens \ req[r].doomed) < MAX_ACTIVE
  /\ At(r, "login", "open") \/ At(r, "login", "mint") => Cardinality(ActiveTokens) < MAX_ACTIVE
  /\ At(r, "refresh", "session") \/ At(r, "refresh", "rotate") =>
       Cardinality(ActiveTokens \ {req[r].token}) < MAX_ACTIVE
  /\ At(r, "refresh", "bump") \/ At(r, "refresh", "mint") => Cardinality(ActiveTokens) < MAX_ACTIVE

\* Unless others issue tokens at the same time, the one that does leaves room.
IssuesAlone ==
  /\ \A r \in Requests : overlap.alone = r =>
       req[r].op # "refresh" /\ LeavesRoom(r) /\ \A q \in Requests : Issuing(q) => q = r
  /\ ~overlap.issuers =>
       /\ \A q, r \in Requests : Issuing(q) /\ Issuing(r) => q = r
       /\ \A r \in Requests : LeavesRoom(r)

\* A token that one refresh only has had in hand is that refresh's until it mints.
RotatesAlone ==
  \A k \in TokenIds \ overlap.tokens :
    LET hands == {r \in Requests : req[r].op = "refresh" /\ req[r].token = k} IN
    /\ \A q, r \in hands : q = r
    /\ \A j \in TokenIds : token[j].from = k => hands = {}

\* What the limits on tokens rest on.
TokenDiscipline ==
  /\ MintsFresh /\ RotationsUsed /\ IssuesAlone /\ RotatesAlone
  /\ TokensCapped /\ SingleUse

(***************************************************************************)
(* The inductive invariant.                                                *)
(***************************************************************************)
Discipline ==
  /\ LocksOwned /\ ChangeOwnsUser /\ CallerOwnsSession
  /\ ChangeMeetsSessions /\ LoginsCurrent /\ OpensFresh
  /\ SessionsFollowPassword /\ ProvenStillCurrent

IInv == TypeOK /\ Discipline
=============================================================================

----------------------------- MODULE PasswordReset -----------------------------
(***************************************************************************)
(* "Forgot password" over Telegram (password_reset_service), composed with *)
(* the account it resets (Sessions).  A request of the site (start,        *)
(* confirm) runs here until its second transaction, which is the "reset"   *)
(* operation of Sessions.  The bot's updates are atomic: each is one       *)
(* UPDATE, or one transaction that locks its rows first.  Everything       *)
(* happens within the hour over which requests are counted.                *)
(***************************************************************************)
EXTENDS Sessions

CONSTANTS
  Resets,               \* rows of auth.password_resets
  Chats,                \* Telegram chats that talk to the bot
  OwnChats,             \* those whose phone is the account's
  MAX_REQUESTS,         \* PASSWORD_RESET_MAX_REQUESTS_PER_HOUR
  MAX_CODES,            \* PASSWORD_RESET_MAX_CODES_PER_REQUEST
  MAX_CODE_ATTEMPTS     \* PASSWORD_RESET_MAX_CODE_ATTEMPTS

ASSUME ChatsAssumption == OwnChats \subseteq Chats /\ None \notin Chats \cup Resets
ASSUME ResetsAssumption == IsFiniteSet(Resets)
ASSUME LimitsAssumption == {MAX_REQUESTS, MAX_CODES, MAX_CODE_ATTEMPTS} \subseteq Nat

VARIABLES
  reset,
  call,      \* requests of the site, before they change the account
  crowded    \* history: two starts were in flight at once

resetVars == <<vars, reset, call, crowded>>

\* Codes are numbered in the order they are sent: the valid one is the last.
\* wrong is history: the wrong codes taken.
ResetRow == [state: {"absent", "open", "expired"}, used: BOOLEAN, born: Nat,
             chat: Chats \cup {None}, codes_sent: Nat, attempts: Nat, wrong: Nat]

Call == [op: {"none", "start", "confirm"}, pc: {"idle", "expire", "create", "policy", "change", "marked"},
         reset: Resets \cup {None}, seen: SUBSET Resets]

ResetTypeOK ==
  /\ reset \in [Resets -> ResetRow]
  /\ call \in [Requests -> Call]
  /\ crowded \in BOOLEAN

NoReset == [state |-> "absent", used |-> FALSE, born |-> 0, chat |-> None, codes_sent |-> 0,
            attempts |-> 0, wrong |-> 0]
NoStep == [op |-> "none", pc |-> "idle", reset |-> None, seen |-> {}]

ResetInit ==
  /\ Init
  /\ reset = [x \in Resets |-> NoReset]
  /\ call = [r \in Requests |-> NoStep]
  /\ crowded = FALSE

Free(r) == Idle(r) /\ call[r].op = "none"

\* Rows of requests whose transaction is open: a start has expired its older
\* ones, a confirmation has marked its own.
RowFree(x) ==
  \A q \in Requests : ~(call[q].pc = "create" /\ x \in call[q].seen)
                     /\ ~(call[q].pc = "marked" /\ call[q].reset = x)

Created == {x \in Resets : reset[x].state # "absent"}

\* used_at IS NULL and expires_at still ahead.
Live(x) == reset[x].state = "open" /\ ~reset[x].used

-----------------------------------------------------------------------------
(* start_reset *)

\* The user is found active, and has not asked too often.
StartLimit(r, x) ==
  /\ Free(r)
  /\ x \notin Created /\ \A q \in Requests : call[q].reset # x
  /\ Cardinality(Created) < MAX_REQUESTS
  /\ call' = [call EXCEPT ![r] = [op |-> "start", pc |-> "expire", reset |-> x, seen |-> {}]]
  /\ crowded' = (crowded \/ \E q \in Requests : call[q].op = "start")
  /\ UNCHANGED <<vars, reset>>

\* Fault: only links that sent no code are expired.
OlderUnsent == {x \in Resets : Live(x) /\ reset[x].codes_sent = 0}
Older == {x \in Resets : Live(x)}

\* The UPDATE that expires the older requests ...
StartExpire(r) ==
  /\ call[r].pc = "expire"
  /\ \A x \in Older : RowFree(x)
  /\ call' = [call EXCEPT ![r].pc = "create", ![r].seen = Older]
  /\ UNCHANGED <<vars, reset, crowded>>

\* ... commits with the new one.
StartCommit(r) ==
  /\ call[r].pc = "create" /\ UserReferable(r)
  /\ reset' = [x \in Resets |->
       IF x = call[r].reset
       THEN [NoReset EXCEPT !.state = "open", !.born = Cardinality(Created)]
       ELSE IF x \in call[r].seen THEN [reset[x] EXCEPT !.state = "expired"] ELSE reset[x]]
  /\ call' = [call EXCEPT ![r] = NoStep]
  /\ UNCHANGED <<vars, crowded>>

\* PASSWORD_RESET_TOKEN_LIFETIME passes.
Expires(x) ==
  /\ reset[x].state = "open"
  /\ reset' = [reset EXCEPT ![x].state = "expired"]
  /\ UNCHANGED <<vars, call, crowded>>

-----------------------------------------------------------------------------
(* The bot *)

\* Fault: a link can be opened in another chat after its code was sent.
BindableAlways(x) == Live(x)
Bindable(x) == Live(x) /\ reset[x].codes_sent = 0

\* /start <token>
BindChat(c, x) ==
  /\ Bindable(x) /\ RowFree(x)
  /\ reset' = [reset EXCEPT ![x].chat = c]
  /\ UNCHANGED <<vars, call, crowded>>

\* Fault: a new code, new attempts.
CodeSentAnew(row) == [row EXCEPT !.codes_sent = @ + 1, !.attempts = 0]
CodeSent(row) == [row EXCEPT !.codes_sent = @ + 1]

\* The chat shares its contact: the newest live request bound to it gets a code.
\* select_for_update locks the user joined to it too.
HandleContact(c, x) ==
  /\ c \in OwnChats
  /\ RowFree(x) /\ lock.user = None
  /\ Live(x) /\ reset[x].chat = c
  /\ \A y \in Resets : Live(y) /\ reset[y].chat = c => reset[y].born <= reset[x].born
  /\ reset[x].codes_sent < MAX_CODES
  /\ reset' = [reset EXCEPT ![x] = CodeSent(@)]
  /\ UNCHANGED <<vars, call, crowded>>

-----------------------------------------------------------------------------
(* confirm_reset *)

Guessable(x) == Live(x) /\ reset[x].codes_sent > 0 /\ reset[x].attempts < MAX_CODE_ATTEMPTS

WrongCode(row) == [row EXCEPT !.attempts = @ + 1, !.wrong = @ + 1]

\* The first transaction: a wrong code costs an attempt, the last one sent passes.
ConfirmCode(r, x, code) ==
  /\ Free(r) /\ Guessable(x) /\ RowFree(x)
  /\ IF code = reset[x].codes_sent
     THEN /\ call' = [call EXCEPT ![r] = [op |-> "confirm", pc |-> "policy", reset |-> x, seen |-> {}]]
          /\ UNCHANGED reset
     ELSE /\ reset' = [reset EXCEPT ![x] = WrongCode(@)]
          /\ UNCHANGED call
  /\ UNCHANGED <<vars, crowded>>

\* The new password fails the policy: the code stays good.
WeakPassword(r) ==
  /\ call[r].pc = "policy"
  /\ call' = [call EXCEPT ![r] = NoStep]
  /\ UNCHANGED <<vars, reset, crowded>>

\* The second transaction begins ...
ConfirmChange(r) ==
  /\ call[r].pc = "policy"
  /\ StartChange(r, "reset")
  /\ call' = [call EXCEPT ![r].pc = "change"]
  /\ UNCHANGED <<reset, crowded>>

\* ... marks the request used once the user is saved ...
ConfirmMark(r) ==
  /\ call[r].pc = "change" /\ RowFree(call[r].reset)
  /\ TokensUpdate(r)
  /\ call' = [call EXCEPT ![r].pc = "marked"]
  /\ UNCHANGED <<reset, crowded>>

\* ... and commits both.
ConfirmCommit(r) ==
  /\ call[r].pc = "marked"
  /\ ChangeCommit(r)
  /\ reset' = [reset EXCEPT ![call[r].reset].used = TRUE]
  /\ call' = [call EXCEPT ![r] = NoStep]
  /\ UNCHANGED crowded

-----------------------------------------------------------------------------
(* The rest of the account *)

AccountStep(r) ==
  /\ \/ Free(r) /\ (Starts(r) \/ StartChange(r, "admin"))
     \/ Works(r) /\ ~At(r, "reset", "tokens")
     \/ req[r].op # "reset" /\ ChangeCommit(r)
  /\ UNCHANGED <<reset, call, crowded>>

\* A confirmation keeps the user and waits for a request that a start keeps,
\* while it waits for the user.
Crossed(s, c) ==
  /\ call[s].pc = "create" /\ call[c].pc = "change" /\ At(c, "reset", "tokens")
  /\ call[c].reset \in call[s].seen

InDeadlock(r) ==
  \/ Deadlocked(r)
  \/ \E q \in Requests : Crossed(r, q) \/ Crossed(q, r)

\* A request dies or loses a deadlock.
RolledBack(r) ==
  /\ \/ DeadlockVictim(r) \/ Dies(r)
     \/ Idle(r) /\ call[r].op # "none" /\ UNCHANGED vars
  /\ call' = [call EXCEPT ![r] = NoStep]
  /\ UNCHANGED <<reset, crowded>>

ResetProceeds(r) ==
  \/ StartExpire(r) \/ StartCommit(r) \/ WeakPassword(r)
  \/ ConfirmChange(r) \/ ConfirmMark(r) \/ ConfirmCommit(r)

ResetNext ==
  \/ \E x \in Resets :
       \/ Expires(x)
       \/ \E c \in Chats : BindChat(c, x) \/ HandleContact(c, x)
  \/ \E r \in Requests :
       \/ \E x \in Resets :
            \/ StartLimit(r, x)
            \/ \E n \in 1..MAX_CODES : ConfirmCode(r, x, n)
       \/ ResetProceeds(r)
       \/ AccountStep(r) \/ RolledBack(r)

ResetSpec == ResetInit /\ [][ResetNext]_resetVars

ResetFairSpec ==
  /\ ResetSpec
  /\ \A r \in Requests :
       /\ SF_resetVars(ResetProceeds(r) \/ (AccountStep(r) /\ ~Idle(r)))
       /\ WF_resetVars(InDeadlock(r) /\ RolledBack(r))

-----------------------------------------------------------------------------
(* Properties *)

(***************************************************************************)
(* "Only the latest request per user is valid" (PasswordReset), as long as *)
(* no two were being started at once.                                      *)
(***************************************************************************)
OnlyNewestLive == ~crowded => \A x, y \in Resets : Live(x) /\ Live(y) => x = y

(***************************************************************************)
(* A request that sent a code, or changed the password, is bound to a chat *)
(* whose phone is the account's: rebinding the link after that changes     *)
(* nothing (bind_chat, handle_contact).                                    *)
(***************************************************************************)
ProvenByOwnChat ==
  \A x \in Resets : reset[x].codes_sent > 0 \/ reset[x].used => reset[x].chat \in OwnChats

(***************************************************************************)
(* Asking for another code does not buy more guesses: a request takes      *)
(* PASSWORD_RESET_MAX_CODE_ATTEMPTS wrong codes in all.                    *)
(***************************************************************************)
GuessesBounded == \A x \in Resets : reset[x].wrong <= MAX_CODE_ATTEMPTS

(***************************************************************************)
(* Every request of the site ends: a start and a confirmation of one       *)
(* account that wait for each other's rows are no exception.               *)
(***************************************************************************)
EveryCallEnds == \A r \in Requests : ~Free(r) ~> Free(r)

-----------------------------------------------------------------------------
(* What the properties rest on *)

\* A request of the site has a row: a start one of its own, still to be inserted,
\* a confirmation one whose code it was given.
CallHasRow(r) ==
  /\ call[r].op = "none" => call[r] = NoStep
  /\ call[r].op = "start" =>
       /\ call[r].pc \in {"expire", "create"}
       /\ call[r].reset \in Resets \ Created
       /\ call[r].seen \subseteq Created
       /\ \A q \in Requests \ {r} : call[q].reset # call[r].reset
  /\ call[r].op = "confirm" =>
       /\ call[r].pc \in {"policy", "change", "marked"}
       /\ call[r].reset \in Resets
       /\ reset[call[r].reset].codes_sent > 0

CallsHaveRows == \A r \in Requests : CallHasRow(r)

\* Only a row that was inserted has a chat, a code or a use, and every wrong
\* code is one of its attempts.
RowsConsistent ==
  \A x \in Resets :
    /\ x \notin Created => reset[x] = NoReset
    /\ reset[x].wrong = reset[x].attempts

\* Unless two starts were in flight at once, the one that is has expired every
\* live request by the time it inserts its own.
StartsAlone ==
  ~crowded =>
    /\ \A q, r \in Requests : call[q].op = "start" /\ call[r].op = "start" => q = r
    /\ \A r \in Requests : call[r].pc = "create" => Older \subseteq call[r].seen

(***************************************************************************)
(* The inductive invariant.                                                *)
(***************************************************************************)
ResetDiscipline ==
  /\ CallsHaveRows /\ RowsConsistent /\ StartsAlone
  /\ OnlyNewestLive /\ ProvenByOwnChat /\ GuessesBounded

ResetIInv == ResetTypeOK /\ ResetDiscipline

\* A request that changes the password over Telegram was given the code that the
\* account's own phone got.
ResetByOwner ==
  \A r \in Requests : req[r].op = "reset" =>
    /\ call[r].pc \in {"change", "marked"}
    /\ reset[call[r].reset].codes_sent > 0 /\ reset[call[r].reset].chat \in OwnChats
=============================================================================

---------------------------- MODULE Browser_proofs ----------------------------
(***************************************************************************)
(* Proofs about Browser, for any number of tabs, calls, sessions and       *)
(* accounts, whatever happens to the sessions elsewhere.                   *)
(*                                                                         *)
(* The argument: a page that still runs has one refresh at a time          *)
(* (OneRefreshPerTab), and the token it has sent is the newest of its      *)
(* session unless another tab had it rotated or its answer went astray     *)
(* (SentIsNewest, JarIsNewest).  Nothing has been carried out for a call   *)
(* that may still be retried (RetriesAreUnserved).  Whatever an answer     *)
(* under way can put into the jar belongs to a session that is there, has  *)
(* ended, or was written over (SpentIsKnown).  The refresh a tab waits for *)
(* is under way, and its calls wait for that one (PromisesKept).           *)
(***************************************************************************)
EXTENDS Browser, TLAPS

-----------------------------------------------------------------------------
(* Types of what the actions build their states from *)

LEMMA HomeType ==
  ASSUME NEW a \in Account
  PROVE  Home(a) \in Pages
  BY BrowserAssumption DEF BrowserAssumption, Home, Pages, Portals

LEMMA CookiesType ==
  /\ NoCookies \in Jars
  /\ \A s \in Sess, n \in Nat, r \in Roles \cup {None} : Cookies(s, n, r) \in Jars
  BY DEF Cookies, Jars, NoCookies, Tokens

LEMMA ChangeTypes ==
  /\ Keep \in Changes
  /\ \A s \in Sess \cup {None} : Clear(s) \in Changes
  /\ \A s \in Sess, n \in Nat, a \in Account : Set(s, n, a) \in Changes
<1>1. \A a \in Account : RoleOf[a] \in Roles \cup {None}
  BY BrowserAssumption DEF BrowserAssumption
<1> QED BY <1>1, CookiesType DEF Keep, Clear, Set, Changes

LEMMA NoAnswerType == NoAnswer \in Replies
  BY ChangeTypes DEF NoAnswer, Replies

LEMMA UnusedType == Unused \in Calls
  BY NoAnswerType, CookiesType DEF Unused, Calls

LEMMA SessionTypes ==
  /\ NoSession \in Sessions
  /\ \A a \in Account : NewSession(a) \in Sessions
  BY DEF NoSession, NewSession, Sessions

LEMMA NewTabType == NewTab \in Tabs
  BY DEF NewTab, Tabs, Pages

LEMMA FirstType == FirstSession \in Sess
  BY BrowserAssumption DEF BrowserAssumption, FirstSession

LEMMA FreshIsAbsent ==
  ASSUME \E s \in Sess : session[s].state = "absent"
  PROVE  FreshSession \in Sess /\ session[FreshSession].state = "absent"
  BY DEF FreshSession

LEMMA JarAfterType ==
  ASSUME TypeOK, NEW change \in Changes
  PROVE  JarAfter(change) \in Jars
  BY CookiesType DEF TypeOK, JarAfter, Changes, Jars

\* What an answer that sets cookies makes of the jar.
LEMMA JarAfterCookies ==
  ASSUME NEW change \in Changes, NEW s \in Sess, Brings(change, s)
  PROVE  JarAfter(change).access = s /\ JarAfter(change).refresh = <<s, session[s].token>>
  BY DEF JarAfter, Changes, Jars, Brings

LEMMA LandingType ==
  ASSUME TypeOK, NEW page \in Pages
  PROVE  Landing(page) \in Pages
<1>1. CASE SignedIn
  <2>1. jar.role \in Roles
    BY <1>1 DEF TypeOK, Jars, SignedIn
  <2> QED BY <2>1, <1>1 DEF Landing, Pages, Portals
<1>2. CASE ~SignedIn
  BY <1>2 DEF Landing, Pages
<1> QED BY <1>1, <1>2

\* Sending a tab somewhere leaves the refresh it waits for alone.
LEMMA TabTypes ==
  ASSUME TypeOK, NEW t \in Tab, NEW page \in Pages
  PROVE  /\ Pushes(t, page) \in Tabs /\ Pushes(t, page).refreshPromise = tab[t].refreshPromise
         /\ Assigns(t, page) \in Tabs /\ Assigns(t, page).refreshPromise = tab[t].refreshPromise
  BY DEF TypeOK, Pushes, Assigns, Tabs

LEMMA LoginIsAPage == "/login" \in Pages /\ "/change-password" \in Pages
  BY DEF Pages

LEMMA ForgetsType ==
  ASSUME NEW tt \in [Tab -> Tabs], NEW t \in Tab
  PROVE  /\ Forgets(tt, t) \in [Tab -> Tabs]
         /\ \A u \in Tab : Forgets(tt, t)[u].refreshPromise = tt[u].refreshPromise
<1> DEFINE next == IF tt[t].hard THEN tt[t].next ELSE "/login"
           row == [tt[t] EXCEPT !.user = None, !.next = next]
<1>1. tt[t] \in Tabs /\ next \in Pages \cup {None}
  BY LoginIsAPage DEF Tabs
<1>2. Forgets(tt, t) = [tt EXCEPT ![t] = row]
  BY DEF Forgets
<1> HIDE DEF next
<1>3. [tt[t] EXCEPT !.user = None] \in Tabs
      /\ [tt[t] EXCEPT !.user = None].refreshPromise = tt[t].refreshPromise
  BY <1>1 DEF Tabs
<1>4. \A x \in Tabs : [x EXCEPT !.next = next] \in Tabs
                       /\ [x EXCEPT !.next = next].refreshPromise = x.refreshPromise
  BY <1>1 DEF Tabs
<1>5. row \in Tabs /\ row.refreshPromise = tt[t].refreshPromise
  BY <1>3, <1>4
<1> HIDE DEF row
<1> QED BY <1>2, <1>5

-----------------------------------------------------------------------------
(* What a step does to one call *)

Ops == {"login", "save", "logout", "password"}

Fresh(t, op, a) == [Unused EXCEPT !.tab = t, !.op = op, !.account = a, !.phase = "sent", !.with = jar]

Begins(c) ==
  /\ call[c].phase = "unused"
  /\ \E t \in Tab, op \in Ops, a \in Account \cup {None} :
       /\ op \in {"login", "password"} => a \in Account
       /\ call'[c] = Fresh(t, op, a)

IsAnswered(c) ==
  /\ call[c].phase = "sent"
  /\ \E answer \in Replies :
       call'[c] = [call[c] EXCEPT !.phase = "answered", !.with = NoCookies, !.answer = answer]

Waits(c) ==
  /\ call[c].phase = "answered" /\ call[c].answer.status = 401
  /\ \E r \in Call : call'[c] = [call[c] EXCEPT !.phase = "waiting", !.awaits = r, !.answer = NoAnswer]

IsResent(c) ==
  /\ call[c].phase = "waiting"
  /\ call'[c] = [call[c] EXCEPT !.phase = "sent", !.retry = TRUE, !.with = jar', !.awaits = None]

IsAborted(c) == call[c].phase = "sent" /\ call'[c] = [call[c] EXCEPT !.phase = "aborted"]

Closed(c, phase, answer) ==
  [call[c] EXCEPT !.account = None, !.phase = phase, !.with = NoCookies, !.awaits = None, !.answer = answer]

Finishes(c) ==
  /\ Underway(c)
  /\ \E phase \in {"done", "refused", "lost"}, answer \in Replies : call'[c] = Closed(c, phase, answer)

CallGoes(c) ==
  \/ call'[c] = call[c]
  \/ Begins(c) \/ IsAnswered(c) \/ Waits(c) \/ IsResent(c) \/ IsAborted(c) \/ Finishes(c)

LEMMA ClosedType ==
  ASSUME TypeOK, NEW c \in Call, NEW phase \in {"done", "refused", "lost"}, NEW answer \in Replies
  PROVE  /\ Closed(c, phase, answer) \in Calls
         /\ Closed(c, phase, answer).tab = call[c].tab
         /\ Closed(c, phase, answer).op = call[c].op
         /\ Closed(c, phase, answer).phase = phase
         /\ Closed(c, phase, answer).answer = answer
<1>1. call[c] \in Calls /\ NoCookies \in Jars
  BY CookiesType DEF TypeOK
<1>2. Closed(c, phase, answer) \in Calls
  BY <1>1 DEF Calls, Closed
<1> QED BY <1>1, <1>2 DEF Calls, Closed

StatusOnly(status) == [NoAnswer EXCEPT !.status = status]

LEMMA StatusOnlyType ==
  ASSUME NEW status \in {0, 200, 400, 401, 403}
  PROVE  StatusOnly(status) \in Replies /\ StatusOnly(status).status = status
<1>1. StatusOnly(status) \in Replies
  BY NoAnswerType DEF Replies, StatusOnly
<1>2. StatusOnly(status).status = status
  BY NoAnswerType DEF Replies, StatusOnly
<1> QED BY <1>1, <1>2

LEMMA EndedIsClosed ==
  ASSUME NEW c, NEW phase, NEW status
  PROVE  EndedWith(c, phase, status) = Closed(c, phase, StatusOnly(status))
  BY DEF EndedWith, Closed, StatusOnly

LEMMA EndedType ==
  ASSUME TypeOK, NEW c \in Call
  PROVE  \A phase \in {"done", "refused", "lost"} :
           /\ Ended(c, phase) \in Calls
           /\ \E answer \in Replies : Ended(c, phase) = Closed(c, phase, answer)
           /\ \E answer \in Replies : EndedWith(c, phase, 401) = Closed(c, phase, answer)
           /\ Ended(c, phase).phase = phase
<1>1. call[c].answer.status \in {0, 200, 400, 401, 403}
  BY DEF TypeOK, Calls, Replies
<1>2. StatusOnly(call[c].answer.status) \in Replies /\ StatusOnly(401) \in Replies
  BY <1>1, StatusOnlyType
<1> QED BY <1>2, EndedIsClosed, ClosedType DEF Ended

LEMMA FreshType ==
  ASSUME jar \in Jars, NEW t \in Tab, NEW op \in Ops, NEW a \in Account \cup {None}
  PROVE  Fresh(t, op, a) \in Calls
<1>1. \A x \in Calls : [x EXCEPT !.tab = t] \in Calls
  BY DEF Calls
<1>2. \A x \in Calls : [x EXCEPT !.op = op] \in Calls
  BY DEF Calls, Ops
<1>3. \A x \in Calls : [x EXCEPT !.account = a] \in Calls
  BY DEF Calls
<1>4. \A x \in Calls : [x EXCEPT !.phase = "sent"] \in Calls
  BY DEF Calls
<1>5. \A x \in Calls : [x EXCEPT !.with = jar] \in Calls
  BY DEF Calls
<1> QED BY <1>1, <1>2, <1>3, <1>4, <1>5, UnusedType DEF Fresh

LEMMA CallTypes ==
  ASSUME TypeOK, jar' \in Jars, NEW c \in Call, CallGoes(c)
  PROVE  call'[c] \in Calls
<1>1. call[c] \in Calls /\ jar \in Jars
  BY DEF TypeOK
<1>2. CASE Begins(c)
  <2>1. PICK t \in Tab, op \in Ops, a \in Account \cup {None} : call'[c] = Fresh(t, op, a)
    BY <1>2 DEF Begins
  <2> QED BY <1>1, <2>1, FreshType
<1>3. CASE IsAnswered(c)
  <2>1. PICK answer \in Replies :
          call'[c] = [call[c] EXCEPT !.phase = "answered", !.with = NoCookies, !.answer = answer]
    BY <1>3 DEF IsAnswered
  <2>2. NoCookies \in Jars
    BY CookiesType
  <2> QED BY <1>1, <2>1, <2>2 DEF Calls
<1>4. CASE Waits(c)
  <2>1. PICK r \in Call : call'[c] = [call[c] EXCEPT !.phase = "waiting", !.awaits = r, !.answer = NoAnswer]
    BY <1>4 DEF Waits
  <2> QED BY <1>1, <2>1, NoAnswerType DEF Calls
<1>5. CASE IsResent(c)
  BY <1>1, <1>5 DEF IsResent, Calls
<1>6. CASE IsAborted(c)
  BY <1>1, <1>6 DEF IsAborted, Calls
<1>7. CASE Finishes(c)
  BY <1>7, ClosedType DEF Finishes
<1> QED BY <1>1, <1>2, <1>3, <1>4, <1>5, <1>6, <1>7 DEF CallGoes

\* An answer of the server, to a page or to nobody.
LEMMA AnswersGoes ==
  ASSUME TypeOK, NEW c \in Call, call[c].phase \in {"sent", "aborted"},
         NEW status \in {200, 400, 401, 403}, NEW change \in Changes, Answers(c, status, change)
  PROVE  /\ \A d \in Call : CallGoes(d)
         /\ \A d \in Call \ {c} : call'[d] = call[d]
         /\ call'[c].phase = "answered" =>
              call'[c].answer.status = status /\ call'[c].answer.jar = change /\ call'[c].op = call[c].op
         /\ call'[c].phase \in {"answered", "lost"}
<1>1. call[c] \in Calls /\ call \in [Call -> Calls]
  BY DEF TypeOK
<1>2. \A d \in Call \ {c} : call'[d] = call[d]
  BY <1>1 DEF Answers
<1>3. CASE call[c].phase = "aborted"
  <2>1. call'[c] = Ended(c, "lost")
    BY <1>1, <1>3 DEF Answers
  <2>2. Finishes(c)
    BY <2>1, <1>3, EndedType DEF Finishes, Underway
  <2>3. call'[c].phase = "lost"
    BY <2>1, EndedType
  <2> QED BY <1>2, <2>2, <2>3 DEF CallGoes
<1>4. CASE call[c].phase = "sent"
  <2> DEFINE reply == [status |-> status, jar |-> change, must |-> call[c].account \in mustChange]
  <2>1. call'[c] = [call[c] EXCEPT !.phase = "answered", !.with = NoCookies, !.answer = reply]
    BY <1>1, <1>4 DEF Answers
  <2>2. reply \in Replies /\ reply.status = status /\ reply.jar = change
    BY DEF Replies
  <2> HIDE DEF reply
  <2>3. IsAnswered(c)
    BY <2>1, <2>2, <1>4 DEF IsAnswered
  <2>4. call'[c].phase = "answered" /\ call'[c].answer = reply /\ call'[c].op = call[c].op
    BY <1>1, <2>1 DEF Calls
  <2> QED BY <1>2, <2>2, <2>3, <2>4 DEF CallGoes
<1> QED BY <1>3, <1>4

\* A step that changes one call.
LEMMA OneCallGoes ==
  ASSUME TypeOK, jar' \in Jars, NEW c \in Call, NEW q, call' = [call EXCEPT ![c] = q], CallGoes(c)
  PROVE  /\ call' \in [Call -> Calls]
         /\ \A d \in Call : CallGoes(d)
         /\ \A d \in Call \ {c} : call'[d] = call[d]
         /\ call'[c] = q
<1>1. call \in [Call -> Calls]
  BY DEF TypeOK
<1>2. /\ call'[c] = q
      /\ \A d \in Call \ {c} : call'[d] = call[d]
  BY <1>1
<1>3. \A d \in Call : CallGoes(d)
  BY <1>2 DEF CallGoes
<1>4. q \in Calls
  BY <1>2, CallTypes
<1> QED BY <1>1, <1>2, <1>3, <1>4

\* An answer of the server, to a page or to nobody.
LEMMA AnswersType ==
  ASSUME TypeOK, jar' \in Jars, NEW c \in Call, call[c].phase \in {"sent", "aborted"},
         NEW status \in {200, 400, 401, 403}, NEW change \in Changes, Answers(c, status, change)
  PROVE  call' \in [Call -> Calls]
<1>1. call \in [Call -> Calls]
  BY DEF TypeOK
<1>2. \A d \in Call : call'[d] \in Calls
  BY AnswersGoes, CallTypes
<1> QED BY <1>1, <1>2 DEF Answers

LEMMA EndsGoes ==
  ASSUME TypeOK, jar' \in Jars, NEW c \in Call, NEW phase \in {"done", "refused", "lost"},
         Underway(c), Ends(c, phase)
  PROVE  /\ call' \in [Call -> Calls]
         /\ \A d \in Call : CallGoes(d)
         /\ \A d \in Call \ {c} : call'[d] = call[d]
         /\ call'[c].phase = phase
<1>1. call'[c] = Ended(c, phase)
  BY DEF TypeOK, Ends
<1>2. CallGoes(c)
  BY <1>1, EndedType DEF CallGoes, Finishes
<1>3. call' = [call EXCEPT ![c] = Ended(c, phase)]
  BY DEF Ends
<1>4. Ended(c, phase).phase = phase
  BY EndedType
<1> QED BY <1>1, <1>2, <1>3, <1>4, OneCallGoes

-----------------------------------------------------------------------------
(* What a step does to one session, and the steps that do nothing to the   *)
(* refresh of tokens                                                       *)

Opens(s) == session[s].state = "absent" /\ \E a \in Account : session'[s] = NewSession(a)

GoesOn(s) ==
  /\ session'[s] \in Sessions
  /\ session'[s].account = session[s].account /\ session'[s].token = session[s].token
  /\ session'[s].state = session[s].state \/ (session[s].state = "active" /\ session'[s].state = "ended")
  /\ session'[s].usable => session[s].usable

\* An answer that sets no cookies.
PlainAnswer(c) ==
  LET change == call[c].answer.jar IN
  call[c].phase = "answered" =>
    \/ change.sets = "nothing" /\ (call[c].answer.status = 200 => call[c].op \in {"save", "password"})
    \/ change.sets = "cleared" /\ call[c].op = "logout" /\ change.of \in Sess /\ session[change.of].state = "ended"

CallStays(c) == call'[c] = call[c] \/ (call[c].phase \notin {"waiting", "lost"} /\ PlainAnswer(c)')

Quiet ==
  /\ UNCHANGED <<refresh, ousted, rotated, strayed, out, left>>
  /\ jar'.refresh = jar.refresh /\ jar'.access \in {jar.access, None}
  /\ \A s \in Sess : GoesOn(s)
  /\ \A t \in Tab : tab'[t].refreshPromise = tab[t].refreshPromise
  /\ \A c \in Call : CallStays(c)

LEMMA SameSessions ==
  ASSUME TypeOK, UNCHANGED session
  PROVE  \A s \in Sess : GoesOn(s)
  BY DEF TypeOK, GoesOn

LEMMA FinishGoesOn ==
  ASSUME TypeOK, NEW S, session' = Finish(S)
  PROVE  session' \in [Sess -> Sessions] /\ \A s \in Sess : GoesOn(s)
<1>1. \A s \in Sess : session[s] \in Sessions
  BY DEF TypeOK
<1>2. ASSUME NEW s \in Sess PROVE GoesOn(s)
  <2>1. CASE s \in S /\ Active(s)
    <3>1. session'[s] = [session[s] EXCEPT !.state = "ended"]
      BY <2>1 DEF Finish
    <3> QED BY <1>1, <2>1, <3>1 DEF GoesOn, Sessions, Active
  <2>2. CASE ~(s \in S /\ Active(s))
    <3>1. session'[s] = session[s]
      BY <2>2 DEF Finish
    <3> QED BY <1>1, <3>1 DEF GoesOn
  <2> QED BY <2>1, <2>2
<1> QED BY <1>2 DEF Finish, GoesOn

\* A refusal, or an answer that sets no cookies.
LEMMA PlainReply ==
  ASSUME IInv, jar' \in Jars, NEW c \in Call, call[c].phase \in {"sent", "aborted"},
         NEW status \in {200, 400, 401, 403}, Answers(c, status, Keep),
         status = 200 => call[c].op \in {"save", "password"}
  PROVE  /\ call' \in [Call -> Calls]
         /\ \A d \in Call : CallGoes(d)
         /\ \A d \in Call : CallStays(d)
<1>1. TypeOK /\ Keep \in Changes /\ Keep.sets = "nothing"
  BY ChangeTypes DEF IInv, Keep
<1>2. /\ \A d \in Call \ {c} : call'[d] = call[d]
      /\ call'[c].phase = "answered" =>
           call'[c].answer.status = status /\ call'[c].answer.jar = Keep /\ call'[c].op = call[c].op
  BY <1>1, AnswersGoes
<1>3. CallStays(c)
  BY <1>1, <1>2 DEF CallStays, PlainAnswer
<1> QED BY <1>1, <1>2, <1>3, AnswersGoes, AnswersType DEF CallStays

LEMMA QuietCalls ==
  ASSUME IInv, UNCHANGED <<jar, tab, refresh, history>>, \A s \in Sess : GoesOn(s), \A d \in Call : CallStays(d)
  PROVE  Quiet
  BY DEF Quiet, history

LEMMA RefusalsQuiet ==
  ASSUME IInv, NEW c \in Call, RefuseLogin(c) \/ Unauthenticated(c)
  PROVE  TypeOK' /\ Quiet /\ \A d \in Call : CallGoes(d)
<1>1. /\ Answers(c, 401, Keep) /\ call[c].phase \in {"sent", "aborted"}
      /\ UNCHANGED <<server, jar, stored, tab, refresh, history>>
  BY DEF RefuseLogin, Unauthenticated, Reaches
<1>2. TypeOK /\ jar' \in Jars
  BY <1>1 DEF IInv, TypeOK
<1>3. call' \in [Call -> Calls] /\ (\A d \in Call : CallGoes(d)) /\ \A d \in Call : CallStays(d)
  BY <1>1, <1>2, PlainReply
<1>4. TypeOK'
  BY <1>1, <1>2, <1>3 DEF TypeOK, server, history
<1>5. Quiet
  BY <1>1, <1>2, <1>3, SameSessions, QuietCalls DEF server
<1> QED BY <1>3, <1>4, <1>5

LEMMA ServeSaveQuiet ==
  ASSUME IInv, NEW c \in Call, ServeSave(c)
  PROVE  TypeOK' /\ Quiet /\ \A d \in Call : CallGoes(d)
<1>1. /\ Answers(c, 403, Keep) \/ Answers(c, 200, Keep)
      /\ call[c].phase \in {"sent", "aborted"} /\ call[c].op = "save"
      /\ UNCHANGED <<elsewhere, session, mustChange, jar, stored, tab, refresh, history>>
      /\ UNCHANGED carried \/ carried' = [carried EXCEPT ![c] = @ + 1]
  BY DEF ServeSave, Reaches
<1>2. TypeOK /\ jar' \in Jars
  BY <1>1 DEF IInv, TypeOK
<1>3. call' \in [Call -> Calls] /\ (\A d \in Call : CallGoes(d)) /\ \A d \in Call : CallStays(d)
  BY <1>1, <1>2, PlainReply
<1>4. carried' \in [Call -> Nat]
  BY <1>1, <1>2 DEF TypeOK
<1>5. TypeOK'
  BY <1>1, <1>2, <1>3, <1>4 DEF TypeOK, history
<1>6. Quiet
  BY <1>1, <1>2, <1>3, SameSessions, QuietCalls
<1> QED BY <1>3, <1>5, <1>6

LEMMA ServePasswordQuiet ==
  ASSUME IInv, NEW c \in Call, ServePassword(c)
  PROVE  TypeOK' /\ Quiet /\ \A d \in Call : CallGoes(d)
<1>1. /\ Answers(c, 400, Keep) \/ Answers(c, 200, Keep)
      /\ call[c].phase \in {"sent", "aborted"} /\ call[c].op = "password"
      /\ UNCHANGED <<elsewhere, carried, jar, stored, tab, refresh, history>>
      /\ \/ UNCHANGED <<session, mustChange>>
         \/ /\ mustChange' = mustChange \ {call[c].account}
            /\ session' = Finish(Of(call[c].account) \ {call[c].with.access})
  BY DEF ServePassword, Reaches
<1>2. TypeOK /\ jar' \in Jars
  BY <1>1 DEF IInv, TypeOK
<1>3. call' \in [Call -> Calls] /\ (\A d \in Call : CallGoes(d)) /\ \A d \in Call : CallStays(d)
  BY <1>1, <1>2, PlainReply
<1>4. session' \in [Sess -> Sessions] /\ mustChange' \subseteq Account /\ \A s \in Sess : GoesOn(s)
  BY <1>1, <1>2, SameSessions, FinishGoesOn DEF TypeOK
<1>5. TypeOK'
  BY <1>1, <1>2, <1>3, <1>4 DEF TypeOK, history
<1>6. Quiet
  BY <1>1, <1>3, <1>4, QuietCalls
<1> QED BY <1>3, <1>5, <1>6

LEMMA ServeLogoutQuiet ==
  ASSUME IInv, NEW c \in Call, ServeLogout(c)
  PROVE  TypeOK' /\ Quiet /\ \A d \in Call : CallGoes(d)
<1> DEFINE x == call[c].with.access
           back == Clear(x)
<1>1. /\ Answers(c, 200, back) /\ call[c].phase \in {"sent", "aborted"} /\ call[c].op = "logout"
      /\ Authenticates(x) /\ session' = SignedOut(c)
      /\ UNCHANGED <<elsewhere, mustChange, carried, jar, stored, tab, refresh, history>>
  BY DEF ServeLogout, Reaches
<1>2. TypeOK /\ jar' \in Jars /\ \A s \in Sess : session[s] \in Sessions
  BY <1>1 DEF IInv, TypeOK
<1>3. x \in Sess /\ session[x].state = "active"
  BY <1>1, <1>2 DEF TypeOK, Calls, Jars, Authenticates, Active
<1>4. ASSUME NEW s \in Sess
      PROVE  GoesOn(s) /\ (s = x => session'[s].state = "ended")
  <2> DEFINE y == TokenOnly(c)[s]
  <2>1. y \in {session[s], [session[s] EXCEPT !.usable = FALSE]}
    BY DEF TokenOnly
  <2>2. /\ y \in Sessions /\ y.account = session[s].account /\ y.token = session[s].token
        /\ y.state = session[s].state /\ (y.usable => session[s].usable)
    BY <1>2, <2>1 DEF Sessions
  <2>3. session'[s] = IF s = x THEN [y EXCEPT !.state = "ended"] ELSE y
    BY <1>1 DEF SignedOut
  <2> HIDE DEF y
  <2> QED BY <1>3, <2>2, <2>3 DEF GoesOn, Sessions
<1>5. session' \in [Sess -> Sessions]
  BY <1>1, <1>4 DEF SignedOut, GoesOn
<1>6. back \in Changes /\ back.sets = "cleared" /\ back.of = x
  BY <1>3, ChangeTypes DEF Clear
<1> HIDE DEF x, back
<1>7. call' \in [Call -> Calls] /\ \A d \in Call : CallGoes(d)
  BY <1>1, <1>2, <1>6, AnswersGoes, AnswersType
<1>8. /\ \A d \in Call \ {c} : call'[d] = call[d]
      /\ call'[c].phase = "answered" =>
           call'[c].answer.jar = back /\ call'[c].op = call[c].op
  BY <1>1, <1>2, <1>6, AnswersGoes
<1>9. \A d \in Call : CallStays(d)
  BY <1>1, <1>3, <1>4, <1>6, <1>8 DEF CallStays, PlainAnswer
<1>10. TypeOK'
  BY <1>1, <1>2, <1>5, <1>7 DEF TypeOK, history
<1> QED BY <1>1, <1>4, <1>7, <1>9, <1>10, QuietCalls

LEMMA SendsQuiet ==
  ASSUME IInv, NEW t \in Tab, NEW c \in Call, NEW op \in Ops, NEW a \in Account \cup {None},
         op \in {"login", "password"} => a \in Account, Sends(t, c, op, a)
  PROVE  TypeOK' /\ Quiet /\ \A d \in Call : CallGoes(d)
<1> DEFINE q == Fresh(t, op, a)
<1>1. /\ call[c].phase = "unused" /\ call' = [call EXCEPT ![c] = q]
      /\ UNCHANGED <<server, jar, stored, tab, refresh, history>>
  BY DEF Sends, Fresh
<1>2. TypeOK /\ jar' \in Jars
  BY <1>1 DEF IInv, TypeOK
<1>3. call'[c] = q
  BY <1>1, <1>2 DEF TypeOK
<1>4. CallGoes(c)
  BY <1>1, <1>3 DEF CallGoes, Begins
<1>5. q.phase = "sent"
  BY UnusedType DEF Calls, Fresh
<1> HIDE DEF q
<1>6. /\ call' \in [Call -> Calls] /\ \A d \in Call : CallGoes(d)
      /\ \A d \in Call \ {c} : call'[d] = call[d]
  BY <1>1, <1>2, <1>4, OneCallGoes
<1>7. CallStays(c)
  BY <1>1, <1>3, <1>5 DEF CallStays, PlainAnswer
<1>8. \A d \in Call : CallStays(d)
  BY <1>6, <1>7 DEF CallStays
<1>9. TypeOK'
  BY <1>1, <1>2, <1>6 DEF TypeOK, server, history
<1> QED BY <1>1, <1>2, <1>6, <1>8, <1>9, SameSessions, QuietCalls DEF server

LEMMA PageStepsQuiet ==
  ASSUME IInv, NEW t \in Tab, NEW c \in Call,
         \/ Save(t, c) \/ SignOut(t, c) \/ ChangePassword(t, c)
         \/ \E a \in Account : SignIn(t, c, a)
  PROVE  TypeOK' /\ Quiet /\ \A d \in Call : CallGoes(d)
<1>1. tab[t].user \in Account \cup {None}
  BY DEF IInv, TypeOK, Tabs
<1> QED BY <1>1, SendsQuiet DEF Save, SignOut, ChangePassword, SignIn, Ops

\* A call that ends without setting cookies, wherever its tab goes.
LEMMA EndQuiet ==
  ASSUME IInv, NEW c \in Call, NEW phase \in {"done", "refused", "lost"}, Underway(c), call[c].phase # "waiting",
         Ends(c, phase), UNCHANGED <<server, jar, refresh, history>>,
         stored' \in Account \cup {None}, tab' \in [Tab -> Tabs],
         \A t \in Tab : tab'[t].refreshPromise = tab[t].refreshPromise
  PROVE  TypeOK' /\ Quiet /\ \A d \in Call : CallGoes(d)
<1>1. TypeOK /\ jar' \in Jars
  BY DEF IInv, TypeOK
<1>2. /\ call' \in [Call -> Calls] /\ \A d \in Call : CallGoes(d)
      /\ \A d \in Call \ {c} : call'[d] = call[d]
      /\ call'[c].phase = phase
  BY <1>1, EndsGoes
<1>3. CallStays(c)
  BY <1>2 DEF CallStays, PlainAnswer, Underway
<1>4. \A d \in Call : CallStays(d)
  BY <1>2, <1>3 DEF CallStays
<1>5. TypeOK'
  BY <1>1, <1>2 DEF TypeOK, server, history
<1>6. Quiet
  BY <1>1, <1>4, SameSessions DEF Quiet, server, history
<1> QED BY <1>2, <1>5, <1>6

LEMMA CallIsOfTab ==
  ASSUME IInv, NEW c \in Call, call[c].phase # "unused"
  PROVE  call[c].tab \in Tab
  BY DEF IInv, CallsAreOfTabs

LEMMA LoseQuiet ==
  ASSUME IInv, NEW c \in Call, Lose(c)
  PROVE  TypeOK' /\ Quiet /\ \A d \in Call : CallGoes(d)
<1>1. /\ call[c].phase \in {"sent", "answered"} /\ Ends(c, "lost")
      /\ UNCHANGED <<server, jar, refresh, history>>
      /\ \/ stored' = None /\ tab' = Forgets(tab, call[c].tab)
         \/ UNCHANGED <<stored, tab>>
  BY DEF Lose, GivenUp, Ends
<1>2. TypeOK /\ Underway(c) /\ call[c].tab \in Tab
  BY <1>1, CallIsOfTab DEF IInv, Underway
<1>3. /\ tab' \in [Tab -> Tabs] /\ stored' \in Account \cup {None}
      /\ \A t \in Tab : tab'[t].refreshPromise = tab[t].refreshPromise
  BY <1>1, <1>2, ForgetsType DEF TypeOK
<1> QED BY <1>1, <1>2, <1>3, EndQuiet

LEMMA RefuseQuiet ==
  ASSUME IInv, NEW c \in Call, Refuse(c)
  PROVE  TypeOK' /\ Quiet /\ \A d \in Call : CallGoes(d)
<1> DEFINE t == call[c].tab
           then == IF call[c].answer.status = 403 THEN [tab EXCEPT ![t] = Assigns(t, "/change-password")] ELSE tab
<1>1. /\ call[c].phase = "answered" /\ Ends(c, "refused")
      /\ UNCHANGED <<server, jar, refresh, history>>
      /\ \/ stored' = None /\ tab' = Forgets(then, t)
         \/ tab' = then /\ UNCHANGED stored
  BY DEF Refuse
<1>2. TypeOK /\ Underway(c) /\ t \in Tab
  BY <1>1, CallIsOfTab DEF IInv, Underway
<1>3. /\ Assigns(t, "/change-password") \in Tabs
      /\ Assigns(t, "/change-password").refreshPromise = tab[t].refreshPromise
  BY <1>2, LoginIsAPage, TabTypes
<1>4. then \in [Tab -> Tabs] /\ \A u \in Tab : then[u].refreshPromise = tab[u].refreshPromise
  BY <1>2, <1>3 DEF TypeOK
<1> HIDE DEF then, t
<1>5. tab' \in [Tab -> Tabs] /\ \A u \in Tab : tab'[u].refreshPromise = tab[u].refreshPromise
  <2>1. CASE tab' = then
    BY <1>4, <2>1
  <2>2. CASE tab' = Forgets(then, t)
    BY <1>2, <1>4, <2>2, ForgetsType
  <2> QED BY <1>1, <2>1, <2>2
<1>6. stored' \in Account \cup {None}
  BY <1>1, <1>2 DEF TypeOK
<1> QED BY <1>1, <1>2, <1>5, <1>6, EndQuiet

\* A 401 that joins the refresh its tab waits for already.
LEMMA JoinsQuiet ==
  ASSUME IInv, NEW c \in Call, AwaitRefresh(c), refreshAccessToken(call[c].tab, c) # c
  PROVE  TypeOK' /\ Quiet /\ \A d \in Call : CallGoes(d)
<1> DEFINE t == call[c].tab
           r == refreshAccessToken(t, c)
           q == [call[c] EXCEPT !.phase = "waiting", !.awaits = r, !.answer = NoAnswer]
<1>1. /\ call[c].phase = "answered" /\ call[c].answer.status = 401
      /\ call' = [call EXCEPT ![c] = q]
      /\ tab' = [tab EXCEPT ![t].refreshPromise = r]
      /\ r # c /\ UNCHANGED <<refresh, server, jar, stored, history>>
  BY DEF AwaitRefresh
<1>2. TypeOK /\ t \in Tab /\ call[c] \in Calls
  BY <1>1, CallIsOfTab DEF IInv, TypeOK
<1>3. r = tab[t].refreshPromise /\ r \in Call
  BY <1>2 DEF refreshAccessToken, TypeOK, Tabs
<1>4. tab' \in [Tab -> Tabs] /\ \A u \in Tab : tab'[u].refreshPromise = tab[u].refreshPromise
  BY <1>1, <1>2, <1>3 DEF TypeOK, Tabs
<1>5. q.phase = "waiting" /\ call'[c] = q
  BY <1>1, <1>2 DEF TypeOK, Calls
<1>6. CallGoes(c)
  BY <1>1, <1>3, <1>5 DEF CallGoes, Waits
<1>7. jar' \in Jars
  BY <1>1, <1>2 DEF TypeOK
<1>0. call' = [call EXCEPT ![c] = q] /\ TypeOK /\ refresh' = refresh
  BY <1>1, <1>2
<1> HIDE DEF q, t, r
<1>8. /\ call' \in [Call -> Calls] /\ \A d \in Call : CallGoes(d)
      /\ \A d \in Call \ {c} : call'[d] = call[d]
  BY <1>0, <1>6, <1>7, OneCallGoes
<1>9. CallStays(c)
  BY <1>1, <1>5 DEF CallStays, PlainAnswer
<1>10. \A d \in Call : CallStays(d)
  BY <1>8, <1>9 DEF CallStays
<1>11. TypeOK'
  BY <1>0, <1>1, <1>2, <1>4, <1>8 DEF TypeOK, server, history
<1>12. Quiet
  BY <1>0, <1>1, <1>2, <1>4, <1>10, SameSessions DEF Quiet, server, history
<1> QED BY <1>8, <1>11, <1>12

\* What happens elsewhere.
LEMMA ElsewhereQuiet ==
  ASSUME IInv,
         \/ \E s \in Sess : EndSession(s) \/ RetireToken(s) \/ Lapse(s)
         \/ \E a \in Account : AdminReset(a)
  PROVE  TypeOK' /\ Quiet /\ \A d \in Call : CallGoes(d)
<1>1. TypeOK
  BY DEF IInv
<1>2. /\ elsewhere' \in Elsewhere \cup {"nothing"}
      /\ UNCHANGED <<carried, jar, stored, tab, call, refresh, history>>
      /\ mustChange' \subseteq Account
  BY <1>1 DEF EndSession, RetireToken, Lapse, AdminReset, Happens, TypeOK
<1>3. session' \in [Sess -> Sessions] /\ \A s \in Sess : GoesOn(s)
  <2>1. CASE \E s \in Sess : EndSession(s)
    BY <1>1, <2>1, FinishGoesOn DEF EndSession
  <2>2. CASE \E s \in Sess : RetireToken(s)
    <3>1. PICK s \in Sess : session' = [session EXCEPT ![s].usable = FALSE]
      BY <2>2 DEF RetireToken
    <3>2. \A x \in Sess : session[x] \in Sessions /\ session \in [Sess -> Sessions]
      BY <1>1 DEF TypeOK
    <3> DEFINE y == [session[s] EXCEPT !.usable = FALSE]
    <3>3. y \in Sessions /\ y.account = session[s].account /\ y.token = session[s].token
          /\ y.state = session[s].state /\ (y.usable => session[s].usable)
      BY <3>2 DEF Sessions
    <3>4. session' = [session EXCEPT ![s] = y]
      BY <3>1
    <3> HIDE DEF y
    <3> QED BY <3>2, <3>3, <3>4 DEF GoesOn
  <2>3. CASE \E s \in Sess : Lapse(s)
    <3>1. PICK s \in Sess : session' = [session EXCEPT ![s].lapsed = TRUE]
      BY <2>3 DEF Lapse
    <3>2. \A x \in Sess : session[x] \in Sessions /\ session \in [Sess -> Sessions]
      BY <1>1 DEF TypeOK
    <3> DEFINE y == [session[s] EXCEPT !.lapsed = TRUE]
    <3>3. y \in Sessions /\ y.account = session[s].account /\ y.token = session[s].token
          /\ y.state = session[s].state /\ (y.usable => session[s].usable)
      BY <3>2 DEF Sessions
    <3>4. session' = [session EXCEPT ![s] = y]
      BY <3>1
    <3> HIDE DEF y
    <3> QED BY <3>2, <3>3, <3>4 DEF GoesOn
  <2>4. CASE \E a \in Account : AdminReset(a)
    BY <1>1, <2>4, FinishGoesOn DEF AdminReset
  <2> QED BY <2>1, <2>2, <2>3, <2>4
<1>4. TypeOK' /\ \A d \in Call : CallGoes(d) /\ CallStays(d)
  BY <1>1, <1>2, <1>3 DEF TypeOK, history, CallGoes, CallStays
<1> QED BY <1>2, <1>3, <1>4, QuietCalls

LEMMA ExpireQuiet ==
  ASSUME IInv, ExpireAccess
  PROVE  TypeOK' /\ Quiet /\ \A d \in Call : CallGoes(d)
<1>1. TypeOK /\ jar' = [jar EXCEPT !.access = None] /\ UNCHANGED <<server, stored, tab, call, refresh, history>>
  BY DEF IInv, ExpireAccess
<1>2. jar' \in Jars /\ jar'.refresh = jar.refresh /\ jar'.access = None
  BY <1>1 DEF TypeOK, Jars
<1>3. TypeOK' /\ \A d \in Call : CallGoes(d) /\ CallStays(d)
  BY <1>1, <1>2 DEF TypeOK, server, history, CallGoes, CallStays
<1> QED BY <1>1, <1>2, <1>3, SameSessions DEF Quiet, server, history

-----------------------------------------------------------------------------
(* Types after the steps that move tokens *)

LEMMA ServeLoginType ==
  ASSUME IInv, NEW c \in Call, ServeLogin(c)
  PROVE  TypeOK' /\ \A d \in Call : CallGoes(d)
<1> DEFINE s == FreshSession
           change == Set(s, 0, call[c].account)
<1>1. /\ Reaches(c, "login") /\ \E x \in Sess : session[x].state = "absent"
      /\ session' = [session EXCEPT ![s] = NewSession(call[c].account)]
      /\ Answers(c, 200, change)
      /\ UNCHANGED <<elsewhere, mustChange, carried, jar, stored, tab, refresh, history>>
  BY DEF ServeLogin
<1>2. TypeOK /\ jar' \in Jars /\ s \in Sess /\ call[c].account \in Account
  BY <1>1, FreshIsAbsent DEF IInv, TypeOK, CallsAreOfTabs, Reaches, Underway
<1>3. change \in Changes /\ NewSession(call[c].account) \in Sessions
  BY <1>2, ChangeTypes, SessionTypes
<1> HIDE DEF s, change
<1>4. call' \in [Call -> Calls] /\ \A d \in Call : CallGoes(d)
  BY <1>1, <1>2, <1>3, AnswersGoes, AnswersType DEF Reaches
<1>5. session' \in [Sess -> Sessions]
  BY <1>1, <1>2, <1>3 DEF TypeOK
<1>6. TypeOK'
  BY <1>1, <1>2, <1>4, <1>5 DEF TypeOK, history
<1> QED BY <1>4, <1>6

Replied(c, answer) == [refresh[c] EXCEPT !.phase = "answered", !.answer = answer]

LEMMA RepliedType ==
  ASSUME TypeOK, NEW c \in Call, NEW answer \in Replies
  PROVE  /\ Replied(c, answer) \in Refreshes /\ Replied(c, answer).phase = "answered"
         /\ Replied(c, answer).token = refresh[c].token /\ Replied(c, answer).answer = answer
<1>1. refresh[c] \in Refreshes
  BY DEF TypeOK
<1> QED BY <1>1 DEF Refreshes, Replied

\* What the answer to a refresh leaves behind.
LEMMA AnswersRefreshType ==
  ASSUME TypeOK, NEW c \in Call, NEW status \in {200, 401}, NEW change \in Changes, AnswersRefresh(c, status, change)
  PROVE  /\ refresh' \in [Call -> Refreshes]
         /\ \A d \in Call \ {c} : refresh'[d] = refresh[d]
         /\ refresh'[c].phase = "answered" /\ refresh'[c].token = refresh[c].token
         /\ refresh'[c].answer.status = status /\ refresh'[c].answer.jar = change
<1> DEFINE answer == [NoAnswer EXCEPT !.status = status, !.jar = change]
<1>1. answer \in Replies /\ answer.status = status /\ answer.jar = change
  <2>1. [NoAnswer EXCEPT !.status = status] \in Replies
        /\ [NoAnswer EXCEPT !.status = status].status = status
    BY NoAnswerType DEF Replies
  <2>2. \A x \in Replies : /\ [x EXCEPT !.jar = change] \in Replies
                           /\ [x EXCEPT !.jar = change].status = x.status
                           /\ [x EXCEPT !.jar = change].jar = change
    BY DEF Replies
  <2> QED BY <2>1, <2>2
<1>2. refresh' = [refresh EXCEPT ![c] = Replied(c, answer)] /\ refresh \in [Call -> Refreshes]
  BY DEF AnswersRefresh, TypeOK, Replied
<1> HIDE DEF answer
<1>3. /\ Replied(c, answer) \in Refreshes /\ Replied(c, answer).phase = "answered"
      /\ Replied(c, answer).token = refresh[c].token /\ Replied(c, answer).answer = answer
  BY <1>1, RepliedType
<1> QED BY <1>1, <1>2, <1>3

LEMMA RefresherIsOfTab ==
  ASSUME IInv, NEW c \in Call, Pending(c)
  PROVE  call[c].tab \in Tab /\ call[c].phase \in {"waiting", "lost"}
  BY DEF IInv, OneRefreshPerTab, Awaited, CallsAreOfTabs

\* The server has no token to look at, rotates the one it gets, or refuses it.
Unasked(c) ==
  /\ refresh[c].token = None /\ AnswersRefresh(c, 401, Keep)
  /\ UNCHANGED <<session, ousted, rotated, strayed>>

Rotates(c, s) ==
  /\ refresh[c].token = <<s, session[s].token>> /\ Active(s) /\ session[s].usable
  /\ session' = [session EXCEPT ![s].token = @ + 1]
  /\ rotated' = [rotated EXCEPT ![s] = @ \cup {call[c].tab}]
  /\ AnswersRefresh(c, 200, Set(s, session[s].token + 1, session[s].account))
  /\ strayed' = IF Orphaned(c) THEN strayed \cup {s} ELSE strayed
  /\ UNCHANGED ousted

Refuses(c, s) ==
  /\ refresh[c].token # None /\ refresh[c].token[1] = s
  /\ ~(refresh[c].token[2] = session[s].token /\ Active(s) /\ session[s].usable)
  /\ ousted' = IF Active(s) /\ ~Orphaned(c) THEN ousted \cup {<<call[c].tab, s>>} ELSE ousted
  /\ AnswersRefresh(c, 401, Clear(None))
  /\ UNCHANGED <<session, rotated, strayed>>

LEMMA ServeRefreshIs ==
  ASSUME NEW c \in Call, ServeRefresh(c)
  PROVE  /\ refresh[c].phase = "sent"
         /\ UNCHANGED <<elsewhere, mustChange, carried, jar, stored, tab, call, out, left>>
         /\ Unasked(c) \/ \E s \in Sess : Rotates(c, s) \/ Refuses(c, s)
<1>1. Unasked(c) \/ (\E s \in Sess : Rotates(c, s)) \/ (\E s \in Sess : Refuses(c, s))
  BY DEF ServeRefresh, Unasked, Rotates, Refuses
<1> QED BY <1>1 DEF ServeRefresh

LEMMA RotatesType ==
  ASSUME IInv, NEW c \in Call, refresh[c].phase = "sent", NEW s \in Sess, Rotates(c, s)
  PROVE  /\ refresh' \in [Call -> Refreshes]
         /\ \A d \in Call \ {c} : refresh'[d] = refresh[d]
         /\ refresh'[c].phase = "answered" /\ refresh'[c].token = refresh[c].token
         /\ refresh'[c].answer.status = 200
         /\ refresh'[c].answer.jar = Set(s, session[s].token + 1, session[s].account)
         /\ session' \in [Sess -> Sessions]
         /\ \A x \in Sess \ {s} : session'[x] = session[x]
         /\ session'[s].token = session[s].token + 1 /\ session'[s].state = session[s].state
         /\ session'[s].usable = session[s].usable /\ session'[s].account = session[s].account
         /\ ousted' \subseteq Tab \X Sess /\ rotated' \in [Sess -> SUBSET Tab] /\ strayed' \subseteq Sess
<1>1. TypeOK /\ call[c].tab \in Tab
  BY RefresherIsOfTab DEF IInv, Pending
<1>2. session[s] \in Sessions /\ session[s].account \in Account
  BY <1>1 DEF IInv, OwnersKnown, Active, Rotates, TypeOK
<1>3. session[s].token \in Nat /\ session[s].token + 1 \in Nat
  BY <1>2 DEF Sessions
<1>4. Set(s, session[s].token + 1, session[s].account) \in Changes
  BY <1>2, <1>3, ChangeTypes
<1> DEFINE q == [session[s] EXCEPT !.token = @ + 1]
<1>5. /\ q \in Sessions /\ q.token = session[s].token + 1 /\ q.state = session[s].state
      /\ q.usable = session[s].usable /\ q.account = session[s].account
  BY <1>2, <1>3 DEF Sessions
<1>6. session' = [session EXCEPT ![s] = q] /\ session \in [Sess -> Sessions]
  BY <1>1 DEF Rotates, TypeOK
<1> HIDE DEF q
<1>7. /\ session' \in [Sess -> Sessions] /\ session'[s] = q
      /\ \A x \in Sess \ {s} : session'[x] = session[x]
  BY <1>5, <1>6
<1>8. rotated' \in [Sess -> SUBSET Tab] /\ strayed' \subseteq Sess /\ ousted' \subseteq Tab \X Sess
  BY <1>1 DEF TypeOK, Rotates
<1> DEFINE change == Set(s, session[s].token + 1, session[s].account)
<1>9. AnswersRefresh(c, 200, change) /\ change \in Changes /\ ousted' = ousted
  BY <1>4 DEF Rotates
<1> HIDE DEF change
<1>10. /\ refresh' \in [Call -> Refreshes]
       /\ \A d \in Call \ {c} : refresh'[d] = refresh[d]
       /\ refresh'[c].phase = "answered" /\ refresh'[c].token = refresh[c].token
       /\ refresh'[c].answer.status = 200 /\ refresh'[c].answer.jar = change
  BY <1>1, <1>9, AnswersRefreshType
<1> QED BY <1>5, <1>7, <1>8, <1>10 DEF change

LEMMA RefusesType ==
  ASSUME IInv, NEW c \in Call, refresh[c].phase = "sent", NEW s \in Sess, Unasked(c) \/ Refuses(c, s)
  PROVE  /\ refresh' \in [Call -> Refreshes]
         /\ \A d \in Call \ {c} : refresh'[d] = refresh[d]
         /\ refresh'[c].phase = "answered" /\ refresh'[c].token = refresh[c].token
         /\ refresh'[c].answer.status = 401
         /\ refresh'[c].answer.jar.sets # "cookies" /\ refresh'[c].answer.jar.of = None
         /\ ousted' \subseteq Tab \X Sess
<1>1. TypeOK /\ call[c].tab \in Tab
  BY RefresherIsOfTab DEF IInv, Pending
<1>2. \E change \in Changes : AnswersRefresh(c, 401, change) /\ change.sets # "cookies" /\ change.of = None
  BY ChangeTypes DEF Unasked, Refuses, Keep, Clear
<1>3. ousted' \subseteq Tab \X Sess
  BY <1>1 DEF Unasked, Refuses, TypeOK
<1> QED BY <1>1, <1>2, <1>3, AnswersRefreshType

LEMMA ServeRefreshType ==
  ASSUME IInv, NEW c \in Call, ServeRefresh(c)
  PROVE  TypeOK' /\ \A d \in Call : CallGoes(d)
<1>1. /\ refresh[c].phase = "sent"
      /\ UNCHANGED <<elsewhere, mustChange, carried, jar, stored, tab, call, out, left>>
      /\ Unasked(c) \/ \E s \in Sess : Rotates(c, s) \/ Refuses(c, s)
  BY ServeRefreshIs
<1>2. TypeOK /\ \E s \in Sess : TRUE
  BY BrowserAssumption DEF IInv, BrowserAssumption
<1>3. CASE \E s \in Sess : Rotates(c, s)
  BY <1>1, <1>2, <1>3, RotatesType DEF TypeOK, CallGoes
<1>4. CASE \E s \in Sess : Unasked(c) \/ Refuses(c, s)
  <2>1. refresh' \in [Call -> Refreshes] /\ ousted' \subseteq Tab \X Sess /\ UNCHANGED <<session, rotated, strayed>>
    BY <1>1, <1>4, RefusesType DEF Unasked, Refuses
  <2> QED BY <1>1, <1>2, <2>1 DEF TypeOK, CallGoes
<1> QED BY <1>1, <1>2, <1>3, <1>4

LEMMA SetsCookiesType ==
  ASSUME TypeOK, NEW change \in Changes, SetsCookies(change)
  PROVE  jar' \in Jars /\ left' \subseteq Sess /\ left \subseteq left'
         /\ \A s \in Sess : change.sets # "nothing" /\ Held(s) => s \in left' \/ s = change.of
<1>1. jar' \in Jars
  BY JarAfterType DEF SetsCookies
<1>2. jar.refresh # None => jar.refresh[1] \in Sess
  BY DEF TypeOK, Jars, Tokens
<1> QED BY <1>1, <1>2 DEF SetsCookies, Dropped, TypeOK, Held

\* A 401 that starts the refresh of its tab.
LEMMA StartsType ==
  ASSUME IInv, NEW c \in Call, AwaitRefresh(c), refreshAccessToken(call[c].tab, c) = c
  PROVE  /\ TypeOK' /\ \A d \in Call : CallGoes(d)
         /\ call[c].phase = "answered" /\ call'[c].phase = "waiting" /\ call'[c].awaits = c
         /\ call'[c].tab = call[c].tab
         /\ \A d \in Call \ {c} : call'[d] = call[d] /\ refresh'[d] = refresh[d]
         /\ refresh'[c].phase = "sent" /\ refresh'[c].token = jar.refresh /\ refresh'[c].answer.status = 0
         /\ refresh'[c].answer.jar = Keep
         /\ call[c].tab \in Tab /\ tab[call[c].tab].refreshPromise \in {None, c}
         /\ tab'[call[c].tab].refreshPromise = c
         /\ \A u \in Tab \ {call[c].tab} : tab'[u] = tab[u]
         /\ UNCHANGED <<server, jar, stored, history>>
<1> DEFINE t == call[c].tab
           q == [call[c] EXCEPT !.phase = "waiting", !.awaits = c, !.answer = NoAnswer]
           r == [NoRefresh EXCEPT !.phase = "sent", !.token = jar.refresh]
<1>1. /\ call[c].phase = "answered" /\ call[c].answer.status = 401
      /\ call' = [call EXCEPT ![c] = q]
      /\ tab' = [tab EXCEPT ![t].refreshPromise = c]
      /\ refresh' = [refresh EXCEPT ![c] = r]
      /\ UNCHANGED <<server, jar, stored, history>>
  BY DEF AwaitRefresh
<1>2. TypeOK /\ t \in Tab /\ call[c] \in Calls /\ jar \in Jars
  BY <1>1, CallIsOfTab DEF IInv, TypeOK
<1>3. /\ tab' \in [Tab -> Tabs] /\ tab'[t].refreshPromise = c
      /\ \A u \in Tab \ {t} : tab'[u] = tab[u]
  BY <1>1, <1>2 DEF TypeOK, Tabs
<1>4. tab[t].refreshPromise \in {None, c}
  BY DEF refreshAccessToken
<1>5. q.phase = "waiting" /\ q.awaits = c /\ q.tab = t /\ call'[c] = q
  BY <1>1, <1>2 DEF TypeOK, Calls
<1>6. CallGoes(c)
  BY <1>1, <1>5 DEF CallGoes, Waits
<1>7. /\ r \in Refreshes /\ r.phase = "sent" /\ r.token = jar.refresh
      /\ r.answer.status = 0 /\ r.answer.jar = Keep
  BY <1>2, NoAnswerType DEF Refreshes, NoRefresh, NoAnswer, Jars
<1>8. jar' \in Jars /\ refresh \in [Call -> Refreshes]
  BY <1>1, <1>2 DEF TypeOK
<1>9. call' = [call EXCEPT ![c] = q] /\ refresh' = [refresh EXCEPT ![c] = r] /\ TypeOK
  BY <1>1, <1>2
<1> HIDE DEF q, t, r
<1>10. /\ call' \in [Call -> Calls] /\ \A d \in Call : CallGoes(d)
       /\ \A d \in Call \ {c} : call'[d] = call[d]
  BY <1>9, <1>6, <1>8, OneCallGoes
<1>11. refresh' \in [Call -> Refreshes] /\ refresh'[c] = r /\ \A d \in Call \ {c} : refresh'[d] = refresh[d]
  BY <1>7, <1>8, <1>9
<1>12. TypeOK'
  BY <1>1, <1>2, <1>3, <1>10, <1>11 DEF TypeOK, server, history
<1> QED BY <1>1, <1>2, <1>3, <1>4, <1>5, <1>7, <1>10, <1>11, <1>12 DEF t

\* The end of a refresh.
LEMMA RefreshedType ==
  ASSUME IInv, NEW c \in Call, Pending(c), NEW ok \in BOOLEAN, Refreshed(c, ok), jar' \in Jars
  PROVE  /\ refresh' \in [Call -> Refreshes] /\ refresh'[c] = NoRefresh
         /\ \A d \in Call \ {c} : refresh'[d] = refresh[d]
         /\ tab' \in [Tab -> Tabs] /\ stored' \in Account \cup {None}
         /\ \A u \in Tab : tab'[u].refreshPromise = tab[u].refreshPromise \/ tab[u].refreshPromise = c
         /\ call' \in [Call -> Calls] /\ \A d \in Call : CallGoes(d)
         /\ \A d \in Call : d \notin Waiters(c) => call'[d] = call[d]
         /\ \A d \in Waiters(c) : call'[d].phase \in {"sent", "refused"}
<1> DEFINE t == call[c].tab
           sent == IF ok \/ Waiters(c) = {} THEN tab[t] ELSE SentToLogin(t)
           freed == [sent EXCEPT !.refreshPromise = IF @ = c THEN None ELSE @]
           settled == [tab EXCEPT ![t] = freed]
<1>1. TypeOK /\ t \in Tab /\ tab[t] \in Tabs
  BY RefresherIsOfTab DEF IInv, TypeOK
<1>2. sent \in Tabs /\ sent.refreshPromise = tab[t].refreshPromise
  BY <1>1, TabTypes, LoginIsAPage DEF SentToLogin
<1>3. freed \in Tabs /\ (freed.refreshPromise = tab[t].refreshPromise \/ tab[t].refreshPromise = c)
  <2> HIDE DEF sent
  <2> QED BY <1>2 DEF Tabs
<1>4. /\ settled \in [Tab -> Tabs]
      /\ \A u \in Tab : settled[u].refreshPromise = tab[u].refreshPromise \/ tab[u].refreshPromise = c
  <2> HIDE DEF freed
  <2> QED BY <1>1, <1>3 DEF TypeOK
<1>5. \/ stored' = None /\ tab' = Forgets(settled, t)
      \/ tab' = settled /\ UNCHANGED stored
  BY DEF Refreshed
<1>6. NoRefresh \in Refreshes
  BY NoAnswerType DEF NoRefresh, Refreshes
<1>7. /\ refresh' \in [Call -> Refreshes] /\ refresh'[c] = NoRefresh
      /\ \A d \in Call \ {c} : refresh'[d] = refresh[d]
  BY <1>1, <1>6 DEF Refreshed, TypeOK
<1> HIDE DEF settled, t
<1>8. /\ tab' \in [Tab -> Tabs] /\ stored' \in Account \cup {None}
      /\ \A u \in Tab : tab'[u].refreshPromise = tab[u].refreshPromise \/ tab[u].refreshPromise = c
  <2>1. CASE stored' = None /\ tab' = Forgets(settled, t)
    BY <1>1, <1>4, <2>1, ForgetsType
  <2>2. CASE tab' = settled /\ UNCHANGED stored
    BY <1>1, <1>4, <2>2 DEF TypeOK
  <2> QED BY <1>5, <2>1, <2>2
<1>9. /\ \A d \in Call : d \notin Waiters(c) => call'[d] = call[d]
      /\ \A d \in Waiters(c) : CallGoes(d) /\ call'[d].phase \in {"sent", "refused"}
  <2>1. \A d \in Call : d \notin Waiters(c) => call'[d] = call[d]
    BY DEF Refreshed
  <2>2. ASSUME NEW d \in Waiters(c) PROVE CallGoes(d) /\ call'[d].phase \in {"sent", "refused"}
    <3>1. d \in Call /\ call[d].phase = "waiting" /\ call[d] \in Calls
      BY <1>1 DEF Waiters, TypeOK
    <3>2. CASE ok
      <4>1. call'[d] = [call[d] EXCEPT !.phase = "sent", !.retry = TRUE, !.with = jar', !.awaits = None]
        BY <2>2, <3>1, <3>2 DEF Refreshed
      <4>2. call'[d].phase = "sent"
        BY <3>1, <4>1 DEF Calls
      <4> QED BY <3>1, <4>1, <4>2 DEF CallGoes, IsResent
    <3>3. CASE ~ok
      <4>1. call'[d] = EndedWith(d, "refused", 401)
        BY <2>2, <3>1, <3>3 DEF Refreshed
      <4>2. \E answer \in Replies : call'[d] = Closed(d, "refused", answer)
        BY <1>1, <3>1, <4>1, EndedType
      <4> QED BY <1>1, <3>1, <4>2, ClosedType DEF CallGoes, Finishes, Underway
    <3> QED BY <3>2, <3>3
  <2> QED BY <2>1, <2>2
<1>10. \A d \in Call : CallGoes(d)
  BY <1>9 DEF CallGoes
<1>11. call' \in [Call -> Calls]
  BY <1>1, <1>10, CallTypes DEF Refreshed
<1> QED BY <1>7, <1>8, <1>9, <1>10, <1>11

\* A call that succeeds ends, and its answer is applied to the jar.
LEMMA SucceedType ==
  ASSUME IInv, NEW c \in Call, Succeed(c)
  PROVE  /\ TypeOK' /\ \A d \in Call : CallGoes(d)
         /\ call[c].phase = "answered" /\ call[c].answer.status = 200
         /\ call[c].answer.jar \in Changes /\ SetsCookies(call[c].answer.jar)
         /\ \A d \in Call \ {c} : call'[d] = call[d]
         /\ call'[c].phase = "done"
         /\ \A u \in Tab : tab'[u].refreshPromise = tab[u].refreshPromise
         /\ \/ call[c].op = "save" /\ UNCHANGED out
            \/ call[c].op = "login" /\ out' = FALSE
            \/ call[c].op = "logout" /\ out' = TRUE
            \/ call[c].op = "password" /\ UNCHANGED out
         /\ UNCHANGED <<server, refresh, ousted, rotated, strayed>>
<1> DEFINE t == call[c].tab
           a == call[c].account
           change == call[c].answer.jar
<1>1. /\ call[c].phase = "answered" /\ call[c].answer.status = 200
      /\ SetsCookies(change) /\ Ends(c, "done")
      /\ UNCHANGED <<server, refresh, ousted, rotated, strayed>>
  BY DEF Succeed
<1>2. TypeOK /\ t \in Tab /\ Underway(c) /\ change \in Changes
  BY <1>1, CallIsOfTab DEF IInv, TypeOK, Calls, Replies, Underway
<1>3. jar' \in Jars /\ left' \subseteq Sess
  BY <1>1, <1>2, SetsCookiesType
<1>4. /\ call' \in [Call -> Calls] /\ \A d \in Call : CallGoes(d)
      /\ \A d \in Call \ {c} : call'[d] = call[d]
      /\ call'[c].phase = "done"
  BY <1>1, <1>2, <1>3, EndsGoes
<1>5. /\ \/ call[c].op = "save" /\ UNCHANGED out
         \/ call[c].op = "login" /\ out' = FALSE
         \/ call[c].op = "logout" /\ out' = TRUE
         \/ call[c].op = "password" /\ UNCHANGED out
  BY DEF Succeed
<1>6. call[c].op \in {"login", "password"} => a \in Account
  BY <1>2 DEF IInv, CallsAreOfTabs
<1>7. /\ tab' \in [Tab -> Tabs] /\ stored' \in Account \cup {None}
      /\ \A u \in Tab : tab'[u].refreshPromise = tab[u].refreshPromise
  <2>1. CASE UNCHANGED <<tab, stored>>
    BY <1>2, <2>1 DEF TypeOK
  <2>2. CASE stored' = None /\ tab' = Forgets(tab, t)
    BY <1>2, <2>2, ForgetsType DEF TypeOK
  <2>3. CASE /\ call[c].op = "login" /\ stored' = a
             /\ tab' = [tab EXCEPT ![t] = [Pushes(t, IF call[c].answer.must THEN "/change-password" ELSE Home(a))
                                                 EXCEPT !.user = a]]
    <3> DEFINE page == IF call[c].answer.must THEN "/change-password" ELSE Home(a)
               p == Pushes(t, page)
    <3>1. a \in Account /\ page \in Pages
      BY <1>6, <2>3, HomeType, LoginIsAPage
    <3>2. p \in Tabs /\ p.refreshPromise = tab[t].refreshPromise
      <4> HIDE DEF page
      <4> QED BY <1>2, <3>1, TabTypes
    <3>3. tab' = [tab EXCEPT ![t] = [p EXCEPT !.user = a]] /\ stored' = a
      BY <2>3
    <3> HIDE DEF p, a, t
    <3>4. [p EXCEPT !.user = a] \in Tabs /\ [p EXCEPT !.user = a].refreshPromise = tab[t].refreshPromise
      BY <3>1, <3>2 DEF Tabs
    <3> QED BY <1>2, <3>1, <3>3, <3>4 DEF TypeOK
  <2>4. CASE call[c].op = "password" /\ stored' = a /\ tab' = [tab EXCEPT ![t] = Pushes(t, Home(a))]
    <3>1. a \in Account /\ Home(a) \in Pages
      BY <1>6, <2>4, HomeType
    <3>2. Pushes(t, Home(a)) \in Tabs /\ Pushes(t, Home(a)).refreshPromise = tab[t].refreshPromise
      BY <1>2, <3>1, TabTypes
    <3> QED BY <1>2, <2>4, <3>1, <3>2 DEF TypeOK
  <2> QED BY <2>1, <2>2, <2>3, <2>4 DEF Succeed
<1>8. out' \in BOOLEAN
  BY <1>2, <1>5 DEF TypeOK
<1>9. TypeOK'
  BY <1>1, <1>2, <1>3, <1>4, <1>7, <1>8 DEF TypeOK, server
<1> QED BY <1>1, <1>2, <1>4, <1>5, <1>7, <1>9

LEMMA SavesQuiet ==
  ASSUME IInv, NEW c \in Call, Succeed(c), call[c].op \notin {"login", "logout"}
  PROVE  Quiet
<1>1. /\ call[c].phase = "answered" /\ call[c].answer.status = 200
      /\ SetsCookies(call[c].answer.jar) /\ UNCHANGED out
      /\ \A d \in Call \ {c} : call'[d] = call[d]
      /\ call'[c].phase = "done"
      /\ \A u \in Tab : tab'[u].refreshPromise = tab[u].refreshPromise
      /\ UNCHANGED <<session, refresh, ousted, rotated, strayed>>
  <2>1. UNCHANGED server
    BY SucceedType
  <2>2. UNCHANGED session
    BY <2>1 DEF server
  <2> QED BY <2>2, SucceedType
<1>2. TypeOK /\ call[c].answer.jar.sets = "nothing"
  BY <1>1 DEF IInv, AnswersFit, AnswerFits
<1>3. UNCHANGED <<jar, left>>
  BY <1>1, <1>2 DEF SetsCookies, JarAfter, Dropped
<1>4. CallStays(c)
  BY <1>1 DEF CallStays, PlainAnswer
<1>5. \A d \in Call : CallStays(d)
  BY <1>1, <1>4 DEF CallStays
<1> QED BY <1>1, <1>2, <1>3, <1>5, SameSessions DEF Quiet

LEMMA RefreshArrivesType ==
  ASSUME IInv, NEW c \in Call, RefreshArrives(c)
  PROVE  /\ TypeOK' /\ \A d \in Call : CallGoes(d)
         /\ Pending(c) /\ ~Orphaned(c)
         /\ refresh[c].answer.jar \in Changes /\ SetsCookies(refresh[c].answer.jar)
         /\ refresh'[c] = NoRefresh
         /\ \A d \in Call \ {c} : refresh'[d] = refresh[d]
         /\ \A u \in Tab : tab'[u].refreshPromise = tab[u].refreshPromise \/ tab[u].refreshPromise = c
         /\ \A d \in Call : d \notin Waiters(c) => call'[d] = call[d]
         /\ \A d \in Waiters(c) : call'[d].phase \in {"sent", "refused"}
         /\ UNCHANGED <<server, ousted, rotated, strayed, out>>
<1> DEFINE ok == refresh[c].answer.status = 200
<1>1. /\ Pending(c) /\ ~Orphaned(c)
      /\ SetsCookies(refresh[c].answer.jar) /\ Refreshed(c, ok)
      /\ UNCHANGED <<server, ousted, rotated, strayed, out>>
  BY DEF RefreshArrives, Pending
<1>2. TypeOK /\ refresh[c].answer.jar \in Changes
  BY DEF IInv, TypeOK, Refreshes, Replies
<1>3. jar' \in Jars /\ left' \subseteq Sess
  BY <1>1, <1>2, SetsCookiesType
<1>4. ok \in BOOLEAN
  OBVIOUS
<1> HIDE DEF ok
<1>5. /\ refresh' \in [Call -> Refreshes] /\ refresh'[c] = NoRefresh
      /\ \A d \in Call \ {c} : refresh'[d] = refresh[d]
      /\ tab' \in [Tab -> Tabs] /\ stored' \in Account \cup {None}
      /\ \A u \in Tab : tab'[u].refreshPromise = tab[u].refreshPromise \/ tab[u].refreshPromise = c
      /\ call' \in [Call -> Calls] /\ \A d \in Call : CallGoes(d)
      /\ \A d \in Call : d \notin Waiters(c) => call'[d] = call[d]
      /\ \A d \in Waiters(c) : call'[d].phase \in {"sent", "refused"}
  BY <1>1, <1>3, <1>4, RefreshedType
<1>6. TypeOK'
  BY <1>1, <1>2, <1>3, <1>5 DEF TypeOK, server
<1> QED BY <1>1, <1>2, <1>5, <1>6

LEMMA RefreshLostType ==
  ASSUME IInv, NEW c \in Call, RefreshLost(c)
  PROVE  /\ TypeOK' /\ \A d \in Call : CallGoes(d)
         /\ Pending(c)
         /\ strayed' = IF refresh[c].answer.status = 200 THEN strayed \cup {refresh[c].token[1]} ELSE strayed
         /\ refresh'[c] = NoRefresh
         /\ \A d \in Call \ {c} : refresh'[d] = refresh[d]
         /\ \A u \in Tab : tab'[u].refreshPromise = tab[u].refreshPromise \/ tab[u].refreshPromise = c
         /\ \A d \in Call : d \notin Waiters(c) => call'[d] = call[d]
         /\ \A d \in Waiters(c) : call'[d].phase \in {"sent", "refused"}
         /\ UNCHANGED <<server, jar, ousted, rotated, out, left>>
<1>1. /\ Pending(c) /\ Refreshed(c, FALSE)
      /\ strayed' = IF refresh[c].answer.status = 200 THEN strayed \cup {refresh[c].token[1]} ELSE strayed
      /\ UNCHANGED <<server, jar, ousted, rotated, out, left>>
  BY DEF RefreshLost, Pending
<1>2. TypeOK /\ jar' \in Jars
  BY <1>1 DEF IInv, TypeOK
<1>3. /\ refresh' \in [Call -> Refreshes] /\ refresh'[c] = NoRefresh
      /\ \A d \in Call \ {c} : refresh'[d] = refresh[d]
      /\ tab' \in [Tab -> Tabs] /\ stored' \in Account \cup {None}
      /\ \A u \in Tab : tab'[u].refreshPromise = tab[u].refreshPromise \/ tab[u].refreshPromise = c
      /\ call' \in [Call -> Calls] /\ \A d \in Call : CallGoes(d)
      /\ \A d \in Call : d \notin Waiters(c) => call'[d] = call[d]
      /\ \A d \in Waiters(c) : call'[d].phase \in {"sent", "refused"}
  BY <1>1, <1>2, RefreshedType
<1>4. refresh[c].answer.status = 200 => refresh[c].token[1] \in Sess
  BY <1>2 DEF IInv, AnswersFit, RefreshFits, TypeOK, Refreshes, Tokens
<1>5. strayed' \subseteq Sess
  BY <1>1, <1>2, <1>4 DEF TypeOK
<1>6. TypeOK'
  BY <1>1, <1>2, <1>3, <1>5 DEF TypeOK, server
<1> QED BY <1>1, <1>3, <1>6

\* A page is loaded; a hard navigation leaves the calls of its tab behind.
LeftBehind(t, hard) == {c \in Call : hard /\ call[c].tab = t /\ InFlight(c)}

LEMMA LoadsType ==
  ASSUME IInv, NEW t \in Tab, NEW to \in Pages, NEW hard \in BOOLEAN, Loads(t, to, hard)
  PROVE  /\ TypeOK' /\ \A d \in Call : CallGoes(d)
         /\ (SetsCookies(Clear(None)) \/ UNCHANGED <<jar, left>>)
         /\ \A u \in Tab \ {t} : tab'[u] = tab[u]
         /\ tab'[t].refreshPromise = IF hard THEN None ELSE tab[t].refreshPromise
         /\ \A c \in Call : c \notin LeftBehind(t, hard) => call'[c] = call[c]
         /\ \A c \in LeftBehind(t, hard) :
              /\ call[c].phase \in {"sent", "answered", "waiting"}
              /\ call'[c].phase \in {"aborted", "lost"}
              /\ call[c].phase = "waiting" => call'[c].phase = "lost"
              /\ refresh[c].answer.status = 200 => refresh[c].token[1] \in strayed'
         /\ strayed \subseteq strayed'
         /\ UNCHANGED <<server, refresh, ousted, rotated, out>>
<1> DEFINE page == Landing(to)
           user == IF hard THEN stored ELSE tab[t].user
           gone == LeftBehind(t, hard)
           q == [page |-> page, user |-> user, hard |-> FALSE,
                 next |-> IF page = "/change-password" /\ user = None THEN "/login" ELSE None,
                 refreshPromise |-> IF hard THEN None ELSE tab[t].refreshPromise]
<1>1. /\ (SetsCookies(Clear(None)) \/ UNCHANGED <<jar, left>>)
      /\ tab' = [tab EXCEPT ![t] = q]
      /\ call' = [c \in Call |->
           IF c \notin gone THEN call[c]
           ELSE IF call[c].phase = "sent" THEN [call[c] EXCEPT !.phase = "aborted"] ELSE Ended(c, "lost")]
      /\ strayed' = strayed \cup {refresh[c].token[1] : c \in {d \in gone : refresh[d].answer.status = 200}}
      /\ UNCHANGED <<server, stored, refresh, ousted, rotated, out>>
  BY DEF Loads, LeftBehind
<1>2. TypeOK /\ tab[t] \in Tabs
  BY DEF IInv, TypeOK
<1>3. page \in Pages /\ user \in Account \cup {None}
  BY <1>2, LandingType DEF TypeOK, Tabs
<1>4. q \in Tabs /\ q.refreshPromise = IF hard THEN None ELSE tab[t].refreshPromise
  <2> HIDE DEF page, user
  <2> QED BY <1>2, <1>3, LoginIsAPage DEF Tabs
<1> HIDE DEF q
<1>5. /\ tab' \in [Tab -> Tabs]
      /\ \A u \in Tab \ {t} : tab'[u] = tab[u]
      /\ tab'[t].refreshPromise = IF hard THEN None ELSE tab[t].refreshPromise
  BY <1>1, <1>2, <1>4 DEF TypeOK
<1>6. jar' \in Jars /\ left' \subseteq Sess
  BY <1>1, <1>2, SetsCookiesType, ChangeTypes DEF TypeOK
<1>7. ASSUME NEW c \in Call
      PROVE  /\ CallGoes(c)
             /\ c \notin gone => call'[c] = call[c]
             /\ c \in gone => /\ call[c].phase \in {"sent", "answered", "waiting"}
                              /\ call'[c].phase \in {"aborted", "lost"}
                              /\ call[c].phase = "waiting" => call'[c].phase = "lost"
  <2>1. CASE c \notin gone
    BY <1>1, <2>1 DEF CallGoes
  <2>2. CASE c \in gone
    <3>1. call[c].phase \in {"sent", "answered", "waiting"} /\ call[c] \in Calls
      BY <1>2, <2>2 DEF LeftBehind, InFlight, TypeOK
    <3>2. CASE call[c].phase = "sent"
      <4>1. call'[c] = [call[c] EXCEPT !.phase = "aborted"]
        BY <1>1, <2>2, <3>2
      <4> QED BY <2>2, <3>1, <3>2, <4>1 DEF CallGoes, IsAborted, Calls
    <3>3. CASE call[c].phase # "sent"
      <4>1. call'[c] = Ended(c, "lost")
        BY <1>1, <2>2, <3>3
      <4>2. call'[c].phase = "lost" /\ \E answer \in Replies : call'[c] = Closed(c, "lost", answer)
        BY <1>2, <4>1, EndedType
      <4> QED BY <2>2, <3>1, <4>2 DEF CallGoes, Finishes, Underway
    <3> QED BY <3>2, <3>3
  <2> QED BY <2>1, <2>2
<1>8. call' \in [Call -> Calls]
  BY <1>1, <1>2, <1>6, <1>7, CallTypes
<1>9. \A c \in Call : refresh[c].answer.status = 200 => refresh[c].token[1] \in Sess
  BY <1>2 DEF IInv, AnswersFit, RefreshFits, TypeOK, Refreshes, Tokens
<1>10. strayed' \subseteq Sess
  BY <1>1, <1>2, <1>9 DEF TypeOK, LeftBehind
<1>11. TypeOK'
  BY <1>1, <1>2, <1>5, <1>6, <1>8, <1>10 DEF TypeOK, server
<1>12. gone \subseteq Call
  BY DEF LeftBehind
<1> HIDE DEF gone
<1>13. \A c \in gone : refresh[c].answer.status = 200 => refresh[c].token[1] \in strayed'
  BY <1>1
<1> QED BY <1>1, <1>5, <1>7, <1>11, <1>12, <1>13 DEF gone

-----------------------------------------------------------------------------
(* Calls belong to tabs, and only a call that was not carried out is sent  *)
(* again.                                                                  *)

LEMMA CallFacts ==
  ASSUME IInv, TypeOK', NEW c \in Call, CallGoes(c)
  PROVE  /\ call'[c].phase # "unused" => call'[c].tab \in Tab
         /\ Underway(c)' /\ call'[c].op \in {"login", "password"} => call'[c].account \in Account
         /\ Unserved(c)' => Unserved(c)
<1>1. /\ call[c] \in Calls
      /\ call[c].phase # "unused" => call[c].tab \in Tab
      /\ Underway(c) /\ call[c].op \in {"login", "password"} => call[c].account \in Account
  BY DEF IInv, TypeOK, CallsAreOfTabs
<1>2. CASE call'[c] = call[c]
  BY <1>1, <1>2 DEF Underway, Unserved
<1>3. CASE Begins(c)
  <2>1. PICK t \in Tab, op \in Ops, a \in Account \cup {None} :
          /\ op \in {"login", "password"} => a \in Account
          /\ call'[c] = Fresh(t, op, a)
    BY <1>3 DEF Begins
  <2>2. call'[c].tab = t /\ call'[c].op = op /\ call'[c].account = a
    BY <2>1, UnusedType DEF Fresh, Calls
  <2>3. Unserved(c)
    BY <1>3 DEF Begins, Unserved
  <2> QED BY <2>1, <2>2, <2>3
<1>4. CASE IsAnswered(c)
  BY <1>1, <1>4 DEF IsAnswered, Calls, Underway, Unserved
<1>5. CASE Waits(c)
  <2>1. Unserved(c)
    BY <1>5 DEF Waits, Unserved
  <2>2. \E r \in Call : call'[c] = [call[c] EXCEPT !.phase = "waiting", !.awaits = r, !.answer = NoAnswer]
    BY <1>5 DEF Waits
  <2>3. call'[c].tab = call[c].tab /\ call'[c].op = call[c].op /\ call'[c].account = call[c].account
        /\ call[c].phase = "answered"
    BY <1>1, <1>5, <2>2 DEF Calls, Waits
  <2> QED BY <1>1, <2>1, <2>3 DEF Underway
<1>6. CASE IsResent(c) \/ IsAborted(c)
  BY <1>1, <1>6 DEF IsResent, IsAborted, Calls, Underway, Unserved
<1>7. CASE Finishes(c)
  <2>1. PICK phase \in {"done", "refused", "lost"}, answer \in Replies : call'[c] = Closed(c, phase, answer)
    BY <1>7 DEF Finishes
  <2>2. call'[c].phase = phase /\ call'[c].tab = call[c].tab /\ call[c].phase # "unused"
    BY <1>7, <2>1, ClosedType DEF IInv, Finishes, Underway
  <2> QED BY <1>1, <2>2 DEF Underway, Unserved
<1> QED BY <1>2, <1>3, <1>4, <1>5, <1>6, <1>7 DEF CallGoes

LEMMA CallsKept ==
  ASSUME IInv, TypeOK', \A c \in Call : CallGoes(c)
  PROVE  CallsAreOfTabs' /\ (UNCHANGED carried => RetriesAreUnserved')
<1>1. CallsAreOfTabs'
  BY CallFacts DEF CallsAreOfTabs
<1>2. ASSUME UNCHANGED carried PROVE RetriesAreUnserved'
  BY <1>2, CallFacts DEF IInv, RetriesAreUnserved, CarriedOnce
<1> QED BY <1>1, <1>2

LEMMA ServedOnce ==
  ASSUME IInv, NEW c \in Call, ServeSave(c)
  PROVE  RetriesAreUnserved'
<1>1. TypeOK' /\ \A d \in Call : CallGoes(d)
  BY ServeSaveQuiet
<1>2. CASE UNCHANGED carried
  BY <1>1, <1>2, CallsKept
<1>3. CASE Answers(c, 200, Keep) /\ carried' = [carried EXCEPT ![c] = @ + 1]
  <2>1. call[c].phase \in {"sent", "aborted"} /\ TypeOK
    BY DEF ServeSave, Reaches, IInv
  <2>2. carried[c] = 0 /\ carried \in [Call -> Nat]
    BY <2>1 DEF IInv, TypeOK, RetriesAreUnserved, Unserved
  <2>3. carried'[c] = 1 /\ \A d \in Call \ {c} : carried'[d] = carried[d]
    BY <1>3, <2>2
  <2>4. ~Unserved(c)'
    BY <1>3, <2>1, AnswersGoes, ChangeTypes DEF Unserved
  <2> QED BY <1>1, <2>3, <2>4, CallFacts DEF IInv, RetriesAreUnserved, CarriedOnce
<1> QED BY <1>2, <1>3 DEF ServeSave

-----------------------------------------------------------------------------
(* The tokens: where the newest one of a session is, step by step          *)

Protocol ==
  /\ OwnersKnown /\ OneRefreshPerTab /\ AnswersFit /\ TokensIssued
  /\ NewestIsAlone /\ JarIsNewest /\ SentIsNewest /\ OustedWere /\ OustedByOthers
  /\ SpentIsKnown /\ SignedOutHolds

LEMMA TokenTypes ==
  ASSUME IInv
  PROVE  /\ \A s \in Sess : session[s] \in Sessions /\ session[s].token \in Nat
         /\ jar.refresh # None => jar.refresh[1] \in Sess /\ jar.refresh[2] \in Nat
         /\ \A c \in Call : refresh[c].token # None => refresh[c].token[1] \in Sess /\ refresh[c].token[2] \in Nat
  BY DEF IInv, TypeOK, Sessions, Jars, Tokens, Refreshes

\* A refresh under way for a document: its tab waits for it, and for no other.
LEMMA PendingIs ==
  ASSUME IInv, NEW c \in Call, Pending(c), ~Orphaned(c)
  PROVE  /\ call[c].phase = "waiting" /\ call[c].awaits = c
         /\ call[c].tab \in Tab /\ tab[call[c].tab].refreshPromise = c
  BY RefresherIsOfTab DEF IInv, OneRefreshPerTab, Awaited, Orphaned

\* What an answer may do to the jar is not changed by what it does not speak of.
LEMMA AnswerFitsKept ==
  ASSUME NEW c \in Call, AnswerFits(c),
         call'[c] = call[c] \/ call'[c].phase # "answered",
         \A s \in Sess : /\ session[s].state # "absent" => session'[s].state # "absent"
                         /\ session[s].state = "ended" => session'[s].state = "ended"
                         /\ \/ session'[s].token = session[s].token
                            \/ ~(call[c].phase = "answered" /\ call[c].answer.jar.sets = "cookies"
                                  /\ call[c].answer.jar.of = s)
  PROVE  AnswerFits(c)'
<1> SUFFICES ASSUME call'[c] = call[c], call[c].phase = "answered"
             PROVE  AnswerFits(c)'
  BY DEF AnswerFits
<1> DEFINE change == call[c].answer.jar
<1>1. CASE change.sets = "nothing" /\ (call[c].answer.status = 200 => call[c].op \in {"save", "password"})
  BY <1>1 DEF AnswerFits
<1>2. CASE /\ change.sets = "cookies" /\ call[c].op = "login"
           /\ change.of \in Sess /\ Brings(change, change.of) /\ session[change.of].state # "absent"
  <2>1. session'[change.of].state # "absent" /\ session'[change.of].token = session[change.of].token
    BY <1>2
  <2>2. Brings(change, change.of)'
    BY <1>2, <2>1 DEF Brings
  <2> QED BY <1>2, <2>1, <2>2 DEF AnswerFits
<1>3. CASE /\ change.sets = "cleared" /\ call[c].op = "logout"
           /\ change.of \in Sess /\ session[change.of].state = "ended"
  BY <1>3 DEF AnswerFits
<1> QED BY <1>1, <1>2, <1>3 DEF AnswerFits

LEMMA QuietProtocol ==
  ASSUME IInv, Quiet
  PROVE  Protocol'
<1>1. \A c \in Call : /\ Pending(c)' <=> Pending(c)
                      /\ refresh'[c] = refresh[c]
                      /\ \A s \in Sess : Spent(c, s)' <=> Spent(c, s)
  BY DEF Quiet, Spent, Pending
<1>2. \A c \in Call : Pending(c) => call'[c] = call[c]
  BY RefresherIsOfTab DEF Quiet, CallStays
<1>3. \A c \in Call, s \in Sess : Arriving(c, s)' <=> Arriving(c, s)
  BY <1>1, <1>2 DEF Arriving, Spent, Orphaned
<1>4. \A c \in Call, s \in Sess : SigningIn(c, s)' => SigningIn(c, s)
  BY DEF SigningIn, Quiet, CallStays, PlainAnswer
<1>5. \A s \in Sess : Held(s)' <=> Held(s)
  BY DEF Held, Quiet
<1>6. \A s \in Sess :
        /\ session'[s].account = session[s].account /\ session'[s].token = session[s].token
        /\ session'[s].state = session[s].state \/ (session[s].state = "active" /\ session'[s].state = "ended")
        /\ session'[s].usable => session[s].usable
  BY DEF Quiet, GoesOn
<1>7. /\ UNCHANGED <<ousted, rotated, strayed, out, left>> /\ jar'.refresh = jar.refresh
      /\ jar'.access \in {jar.access, None}
      /\ \A t \in Tab : tab'[t].refreshPromise = tab[t].refreshPromise
  BY DEF Quiet
<1>8. OwnersKnown'
  BY <1>6 DEF IInv, OwnersKnown
<1>9. OneRefreshPerTab'
  <2> SUFFICES ASSUME NEW c \in Call, Pending(c)' PROVE Awaited(c)'
    BY DEF OneRefreshPerTab, Awaited
  <2>1. Pending(c) /\ call'[c] = call[c] /\ call[c].tab \in Tab
    BY <1>1, <1>2, RefresherIsOfTab
  <2> QED BY <1>7, <2>1 DEF IInv, OneRefreshPerTab, Awaited
<1>10. AnswersFit'
  <2>1. ASSUME NEW c \in Call PROVE AnswerFits(c)'
    <3>1. CASE call'[c] = call[c]
      <4>1. \A s \in Sess : session'[s].token = session[s].token
                            /\ (session[s].state # "absent" => session'[s].state # "absent")
                            /\ (session[s].state = "ended" => session'[s].state = "ended")
        BY <1>6
      <4>2. AnswerFits(c)
        BY DEF IInv, AnswersFit
      <4> QED BY <3>1, <4>1, <4>2, AnswerFitsKept
    <3>2. CASE PlainAnswer(c)'
      BY <3>2 DEF PlainAnswer, AnswerFits
    <3> QED BY <3>1, <3>2 DEF Quiet, CallStays
  <2>2. ASSUME NEW c \in Call PROVE RefreshFits(c)'
    <3>1. RefreshFits(c)
      BY DEF IInv, AnswersFit
    <3>2. ASSUME NEW s \in Sess, Arriving(c, s)'
          PROVE  Brings(refresh[c].answer.jar, s)' /\ call'[c].tab \in rotated'[s]
      <4>1. Arriving(c, s) /\ call'[c] = call[c]
        BY <1>1, <1>2, <1>3, <3>2 DEF Arriving, Spent
      <4>2. Brings(refresh[c].answer.jar, s) /\ call[c].tab \in rotated[s]
        BY <3>1, <4>1 DEF RefreshFits
      <4> QED BY <1>1, <1>6, <1>7, <4>1, <4>2 DEF Brings
    <3> QED BY <1>1, <3>1, <3>2 DEF RefreshFits
  <2> QED BY <2>1, <2>2 DEF AnswersFit
<1>11. TokensIssued'
  <2>3. Issued(jar.refresh)' /\ \A c \in Call : Pending(c)' => Issued(refresh[c].token)'
    <3>1. Issued(jar.refresh)'
      BY <1>6, <1>7, TokenTypes DEF IInv, TokensIssued, Issued
    <3>2. ASSUME NEW c \in Call, Pending(c)' PROVE Issued(refresh[c].token)'
      <4>1. Pending(c) /\ refresh'[c] = refresh[c] /\ Issued(refresh[c].token)
        BY <1>1, <3>2 DEF IInv, TokensIssued
      <4> QED BY <1>6, <4>1, TokenTypes DEF Issued
    <3> QED BY <3>1, <3>2
  <2>4. jar'.access # None => Held(jar.access)'
    BY <1>7 DEF IInv, TokensIssued, Held
  <2> QED BY <1>1, <1>7, <2>3, <2>4 DEF TokensIssued, Issued, Held
<1>12. NewestIsAlone'
  BY <1>1, <1>3, <1>4, <1>5, <1>6, <1>7 DEF IInv, NewestIsAlone
<1>13. JarIsNewest'
  BY <1>3, <1>5, <1>6, <1>7 DEF IInv, JarIsNewest
<1>14. SentIsNewest'
  BY <1>1, <1>2, <1>6, <1>7 DEF IInv, SentIsNewest, Spent, Orphaned
<1>15. OustedWere' /\ OustedByOthers'
  BY <1>6, <1>7 DEF IInv, OustedWere, OustedByOthers
<1>16. SpentIsKnown' /\ SignedOutHolds'
  BY <1>1, <1>5, <1>6, <1>7 DEF IInv, SpentIsKnown, SignedOutHolds
<1> QED BY <1>8, <1>9, <1>10, <1>11, <1>12, <1>13, <1>14, <1>15, <1>16 DEF Protocol

LEMMA LoginProtocol ==
  ASSUME IInv, NEW c \in Call, ServeLogin(c)
  PROVE  Protocol'
<1> DEFINE s0 == FreshSession
           a == call[c].account
           change == Set(s0, 0, a)
<1>1. /\ Reaches(c, "login") /\ \E x \in Sess : session[x].state = "absent"
      /\ session' = [session EXCEPT ![s0] = NewSession(a)] /\ Answers(c, 200, change)
      /\ UNCHANGED <<jar, tab, refresh, history>>
  BY DEF ServeLogin
<1>2. /\ TypeOK /\ jar' \in Jars /\ s0 \in Sess /\ session[s0].state = "absent" /\ a \in Account
      /\ call[c].phase \in {"sent", "aborted"} /\ call[c].op = "login"
  BY <1>1, FreshIsAbsent DEF IInv, TypeOK, CallsAreOfTabs, Reaches, Underway
<1>3. change \in Changes /\ change.sets = "cookies" /\ change.of = s0
      /\ change.cookies.access = s0 /\ change.cookies.refresh = <<s0, 0>>
  BY <1>2, ChangeTypes DEF Set, Cookies
<1>4. /\ session'[s0].account \in Account /\ session'[s0].state = "active" /\ session'[s0].token = 0
      /\ \A x \in Sess \ {s0} : session'[x] = session[x]
  BY <1>1, <1>2 DEF TypeOK, NewSession, NoSession
<1> HIDE DEF s0, a, change
<1>5. /\ \A d \in Call \ {c} : call'[d] = call[d]
      /\ call'[c].phase = "answered" => call'[c].answer.jar = change /\ call'[c].op = "login"
      /\ call'[c].phase \in {"answered", "lost"}
  BY <1>1, <1>2, <1>3, AnswersGoes
<1>6. \A d \in Call : /\ Pending(d)' <=> Pending(d)
                      /\ refresh'[d] = refresh[d]
                      /\ \A s \in Sess : Spent(d, s)' <=> Spent(d, s)
                      /\ Pending(d) => d # c /\ call'[d] = call[d]
  BY <1>1, <1>2, <1>5, RefresherIsOfTab DEF Spent, Pending
<1>7. \A d \in Call, s \in Sess : Arriving(d, s)' <=> Arriving(d, s)
  BY <1>6 DEF Arriving, Spent, Orphaned
<1>8. \A d \in Call \ {c}, s \in Sess : SigningIn(d, s)' <=> SigningIn(d, s)
  BY <1>5 DEF SigningIn
<1>9. \A s \in Sess : SigningIn(c, s)' => s = s0
  BY <1>3, <1>5 DEF SigningIn
<1>10. \A s \in Sess : Held(s)' <=> Held(s)
  BY <1>1 DEF Held
<1>11. ~Held(s0) /\ \A d \in Call : ~Spent(d, s0) /\ ~SigningIn(d, s0) /\ ~Arriving(d, s0)
  BY <1>2 DEF IInv, TokensIssued, Issued, Held, Spent, Arriving, AnswersFit, AnswerFits, SigningIn
<1>12. UNCHANGED <<jar, tab, ousted, rotated, strayed, out, left>>
  BY <1>1 DEF history
<1>13. \A s \in Sess \ {s0} : session'[s] = session[s]
  BY <1>4
<1>14. OwnersKnown'
  BY <1>4 DEF IInv, OwnersKnown
<1>15. OneRefreshPerTab'
  BY <1>6, <1>12 DEF IInv, OneRefreshPerTab, Awaited
<1>16. AnswersFit'
  <2>1. ASSUME NEW d \in Call PROVE AnswerFits(d)'
    <3>1. CASE d = c
      BY <1>2, <1>3, <1>4, <1>5, <3>1 DEF AnswerFits, Brings
    <3>2. CASE d # c
      <4>1. AnswerFits(d) /\ call'[d] = call[d]
        BY <1>5, <3>2 DEF IInv, AnswersFit
      <4>2. \A s \in Sess :
              /\ session[s].state # "absent" => session'[s].state # "absent"
              /\ session[s].state = "ended" => session'[s].state = "ended"
              /\ (session'[s].token = session[s].token \/ (s = s0 /\ ~SigningIn(d, s)))
        BY <1>2, <1>11, <1>13
      <4> QED BY <4>1, <4>2, AnswerFitsKept DEF SigningIn
    <3> QED BY <3>1, <3>2
  <2>2. ASSUME NEW d \in Call PROVE RefreshFits(d)'
    <3>1. RefreshFits(d)
      BY DEF IInv, AnswersFit
    <3>2. ASSUME NEW s \in Sess, Arriving(d, s)'
          PROVE  Brings(refresh[d].answer.jar, s)' /\ call'[d].tab \in rotated'[s]
      <4>1. Arriving(d, s) /\ call'[d] = call[d] /\ s # s0
        BY <1>6, <1>7, <1>11, <3>2 DEF Arriving, Spent
      <4>2. Brings(refresh[d].answer.jar, s) /\ call[d].tab \in rotated[s]
        BY <3>1, <4>1 DEF RefreshFits
      <4> QED BY <1>6, <1>12, <1>13, <4>1, <4>2 DEF Brings
    <3> QED BY <1>6, <3>1, <3>2 DEF RefreshFits
  <2> QED BY <2>1, <2>2 DEF AnswersFit
<1>17. TokensIssued'
  <2>1. Issued(jar.refresh)' /\ (jar.access # None => Held(jar.access))'
    BY <1>2, <1>12, <1>13, TokenTypes DEF IInv, TokensIssued, Issued, Held
  <2>2. ASSUME NEW d \in Call, Pending(d)' PROVE Issued(refresh[d].token)'
    <3>1. Issued(refresh[d].token) /\ refresh'[d] = refresh[d]
      BY <1>6, <2>2 DEF IInv, TokensIssued
    <3> QED BY <1>2, <1>13, <3>1, TokenTypes DEF Issued
  <2> QED BY <2>1, <2>2 DEF TokensIssued
<1>18. NewestIsAlone'
  <2> SUFFICES ASSUME NEW s \in Sess
               PROVE  /\ \A d \in Call : Arriving(d, s)' =>
                           /\ Held(s)' => jar'.refresh[2] < session'[s].token
                           /\ \A e \in Call \ {d} : Spent(e, s)' => /\ ~Arriving(e, s)'
                                                                    /\ refresh'[e].token[2] < session'[s].token
                      /\ \A d \in Call : SigningIn(d, s)' =>
                           /\ ~Held(s)'
                           /\ \A e \in Call : ~Spent(e, s)' /\ (SigningIn(e, s)' => e = d)
    BY DEF NewestIsAlone
  <2>1. CASE s = s0
    BY <1>6, <1>7, <1>8, <1>10, <1>11, <2>1
  <2>2. CASE s # s0
    BY <1>6, <1>7, <1>8, <1>9, <1>10, <1>12, <1>13, <2>2 DEF IInv, NewestIsAlone
  <2> QED BY <2>1, <2>2
<1>19. JarIsNewest'
  BY <1>7, <1>10, <1>11, <1>12, <1>13 DEF IInv, JarIsNewest
<1>20. SentIsNewest'
  BY <1>6, <1>11, <1>12, <1>13 DEF IInv, SentIsNewest, Spent, Orphaned
<1>21. OustedWere' /\ OustedByOthers'
  BY <1>2, <1>4, <1>12, <1>13 DEF IInv, OustedWere, OustedByOthers
<1>22. SpentIsKnown' /\ SignedOutHolds'
  BY <1>6, <1>10, <1>11, <1>12, <1>13 DEF IInv, SpentIsKnown, SignedOutHolds
<1> QED BY <1>14, <1>15, <1>16, <1>17, <1>18, <1>19, <1>20, <1>21, <1>22 DEF Protocol

LEMMA RotatesProtocol ==
  ASSUME IInv, NEW c \in Call, refresh[c].phase = "sent", UNCHANGED <<jar, tab, call, out, left>>,
         NEW s0 \in Sess, Rotates(c, s0)
  PROVE  Protocol'
<1>1. /\ \A d \in Call \ {c} : refresh'[d] = refresh[d]
      /\ refresh'[c].phase = "answered" /\ refresh'[c].token = refresh[c].token
      /\ refresh'[c].answer.status = 200
      /\ refresh'[c].answer.jar = Set(s0, session[s0].token + 1, session[s0].account)
      /\ \A x \in Sess \ {s0} : session'[x] = session[x]
      /\ session'[s0].token = session[s0].token + 1 /\ session'[s0].state = session[s0].state
      /\ session'[s0].usable = session[s0].usable /\ session'[s0].account = session[s0].account
  BY RotatesType
<1>2. /\ refresh[c].token = <<s0, session[s0].token>> /\ session[s0].state = "active"
      /\ rotated' = [rotated EXCEPT ![s0] = @ \cup {call[c].tab}]
      /\ strayed' = IF Orphaned(c) THEN strayed \cup {s0} ELSE strayed
      /\ UNCHANGED ousted
  BY DEF Rotates, Active
<1>3. TypeOK /\ Pending(c) /\ call[c].tab \in Tab /\ session[s0].token \in Nat /\ refresh[c].token # None
  BY <1>2, RefresherIsOfTab, TokenTypes, BrowserAssumption DEF IInv, Pending, BrowserAssumption
<1>4. \A d \in Call : /\ Pending(d)' <=> Pending(d)
                      /\ refresh'[d].token = refresh[d].token
                      /\ \A s \in Sess : Spent(d, s)' <=> Spent(d, s)
                      /\ Orphaned(d)' <=> Orphaned(d)
  BY <1>1, <1>3 DEF Spent, Pending, Orphaned
<1>5. Spent(c, s0) /\ \A s \in Sess : Spent(c, s) => s = s0
  BY <1>2, <1>3 DEF Spent
<1>6. (\A d \in Call \ {c} : ~Arriving(d, s0)) /\ \A d \in Call : ~SigningIn(d, s0)
  BY <1>2, <1>3, <1>5 DEF IInv, NewestIsAlone
<1>7. \A d \in Call \ {c}, s \in Sess : Arriving(d, s)' <=> Arriving(d, s)
  BY <1>1, <1>4 DEF Arriving
<1>8. \A s \in Sess : Arriving(c, s)' => s = s0
  BY <1>4, <1>5 DEF Arriving
<1>9. \A d \in Call, s \in Sess : SigningIn(d, s)' <=> SigningIn(d, s)
  BY DEF SigningIn
<1>10. \A s \in Sess : Held(s)' <=> Held(s)
  BY DEF Held
<1>11. /\ \A s \in Sess : rotated[s] \subseteq rotated'[s]
       /\ call[c].tab \in rotated'[s0] /\ strayed \subseteq strayed'
  BY <1>2, <1>3 DEF TypeOK
<1>12. ~Arriving(c, s0)
  BY DEF Arriving, IInv, AnswersFit, RefreshFits
<1>13. OwnersKnown'
  BY <1>1 DEF IInv, OwnersKnown
<1>14. OneRefreshPerTab'
  BY <1>4 DEF IInv, OneRefreshPerTab, Awaited
<1>15. AnswersFit'
  <2>1. ASSUME NEW d \in Call PROVE AnswerFits(d)'
    <3>1. AnswerFits(d)
      BY DEF IInv, AnswersFit
    <3>2. call[d].phase = "answered" /\ call[d].answer.jar.sets = "cookies" => call[d].answer.jar.of # s0
      BY <1>6 DEF SigningIn
    <3>3. \A s \in Sess : /\ session'[s].state = session[s].state
                          /\ session'[s].token = session[s].token \/ s = s0
      BY <1>1
    <3> QED BY <3>1, <3>2, <3>3, AnswerFitsKept
  <2>2. ASSUME NEW d \in Call, d # c PROVE RefreshFits(d)'
    <3>1. RefreshFits(d) /\ refresh'[d] = refresh[d]
      BY <1>1, <2>2 DEF IInv, AnswersFit
    <3>2. ASSUME NEW s \in Sess, Arriving(d, s)'
          PROVE  Brings(refresh[d].answer.jar, s)' /\ call'[d].tab \in rotated'[s]
      <4>1. Arriving(d, s) /\ s # s0
        BY <1>6, <1>7, <2>2, <3>2
      <4>2. Brings(refresh[d].answer.jar, s) /\ call[d].tab \in rotated[s]
        BY <3>1, <4>1 DEF RefreshFits
      <4> QED BY <1>1, <1>11, <3>1, <4>1, <4>2 DEF Brings
    <3> QED BY <3>1, <3>2 DEF RefreshFits
  <2>3. RefreshFits(c)'
    <3> DEFINE change == Set(s0, session[s0].token + 1, session[s0].account)
    <3>1. /\ change.sets = "cookies" /\ change.of = s0 /\ change.cookies.access = s0
          /\ change.cookies.refresh = <<s0, session[s0].token + 1>> /\ refresh'[c].answer.jar = change
      BY <1>1 DEF Set, Cookies
    <3> HIDE DEF change
    <3>2. Brings(refresh[c].answer.jar, s0)'
      BY <1>1, <3>1 DEF Brings
    <3>3. \A s \in Sess : Arriving(c, s)' => Brings(refresh[c].answer.jar, s)' /\ call'[c].tab \in rotated'[s]
      BY <1>8, <1>11, <3>2
    <3> QED BY <1>1, <1>3, <3>3 DEF RefreshFits
  <2> QED BY <2>1, <2>2, <2>3 DEF AnswersFit
<1>16. TokensIssued'
  <2>1. \A s \in Sess : session'[s].state = session[s].state /\ session[s].token <= session'[s].token
    BY <1>1, <1>3, TokenTypes
  <2>2. \A s \in Sess : session'[s].token \in Nat /\ session[s].token \in Nat
    BY <1>1, <1>3, TokenTypes
  <2>3. Issued(jar.refresh)' /\ (jar.access # None => Held(jar.access))'
    BY <2>1, <2>2, TokenTypes DEF IInv, TokensIssued, Issued, Held
  <2>4. ASSUME NEW d \in Call, Pending(d)' PROVE Issued(refresh[d].token)'
    <3>1. Issued(refresh[d].token) /\ refresh'[d].token = refresh[d].token
      BY <1>4, <2>4 DEF IInv, TokensIssued
    <3> QED BY <2>1, <2>2, <3>1, TokenTypes DEF Issued
  <2> QED BY <2>3, <2>4 DEF TokensIssued
<1>17. NewestIsAlone'
  <2> SUFFICES ASSUME NEW s \in Sess
               PROVE  /\ \A d \in Call : Arriving(d, s)' =>
                           /\ Held(s)' => jar'.refresh[2] < session'[s].token
                           /\ \A e \in Call \ {d} : Spent(e, s)' => /\ ~Arriving(e, s)'
                                                                    /\ refresh'[e].token[2] < session'[s].token
                      /\ \A d \in Call : SigningIn(d, s)' =>
                           /\ ~Held(s)'
                           /\ \A e \in Call : ~Spent(e, s)' /\ (SigningIn(e, s)' => e = d)
    BY DEF NewestIsAlone
  <2>1. CASE s = s0
    <3>1. Held(s0) => jar.refresh[2] \in Nat /\ jar.refresh[2] <= session[s0].token
      BY TokenTypes DEF IInv, TokensIssued, Issued, Held
    <3>2. \A e \in Call : Spent(e, s0) => refresh[e].token[2] \in Nat /\ refresh[e].token[2] <= session[s0].token
      BY TokenTypes DEF IInv, TokensIssued, Issued, Spent
    <3>3. ASSUME NEW d \in Call, Arriving(d, s0)'
          PROVE  /\ Held(s0)' => jar'.refresh[2] < session'[s0].token
                 /\ \A e \in Call \ {d} : Spent(e, s0)' => /\ ~Arriving(e, s0)'
                                                           /\ refresh'[e].token[2] < session'[s0].token
      <4>1. d = c
        BY <1>6, <1>7, <3>3
      <4> QED BY <1>1, <1>3, <1>4, <1>6, <1>7, <1>10, <3>1, <3>2, <4>1
    <3> QED BY <1>6, <1>9, <2>1, <3>3
  <2>2. CASE s # s0
    BY <1>1, <1>4, <1>7, <1>8, <1>9, <1>10, <2>2 DEF IInv, NewestIsAlone
  <2> QED BY <2>1, <2>2
<1>18. JarIsNewest'
  <2>1. ASSUME NEW s \in Sess, Held(s)', s # s0
        PROVE  jar'.refresh[2] = session'[s].token \/ s \in strayed' \/ \E d \in Call : Arriving(d, s)'
    <3>1. jar.refresh[2] = session[s].token \/ s \in strayed \/ \E d \in Call : Arriving(d, s)
      BY <1>10, <2>1 DEF IInv, JarIsNewest
    <3>2. ~Arriving(c, s)
      BY <1>5, <2>1 DEF Arriving
    <3> QED BY <1>1, <1>7, <1>11, <2>1, <3>1, <3>2
  <2>2. s0 \in strayed' \/ Arriving(c, s0)'
    BY <1>1, <1>2, <1>4, <1>5 DEF Arriving
  <2> QED BY <2>1, <2>2 DEF JarIsNewest
<1>19. SentIsNewest'
  <2> SUFFICES ASSUME NEW d \in Call, NEW s \in Sess, refresh'[d].phase = "sent", Spent(d, s)', ~Orphaned(d)'
               PROVE  refresh'[d].token[2] = session'[s].token \/ s \in strayed' \/ rotated'[s] \ {call'[d].tab} # {}
    BY DEF SentIsNewest
  <2>1. d # c /\ refresh'[d] = refresh[d] /\ Spent(d, s) /\ ~Orphaned(d)
    BY <1>1, <1>4
  <2>2. refresh[d].token[2] = session[s].token \/ s \in strayed \/ rotated[s] \ {call[d].tab} # {}
    BY <2>1 DEF IInv, SentIsNewest
  <2>3. CASE s # s0
    BY <1>1, <1>11, <2>1, <2>2, <2>3
  <2>4. CASE s = s0 /\ Orphaned(c)
    BY <1>2, <2>4
  <2>5. CASE s = s0 /\ ~Orphaned(c)
    <3>1. call[d].tab # call[c].tab
      BY <1>3, <2>1, <2>5, PendingIs DEF Spent
    <3> QED BY <1>11, <2>5, <3>1
  <2> QED BY <2>3, <2>4, <2>5
<1>20. OustedWere' /\ OustedByOthers'
  <2>1. \A s \in Sess : session'[s].state = session[s].state /\ (session'[s].usable => session[s].usable)
    BY <1>1
  <2> QED BY <1>2, <1>11, <2>1 DEF IInv, OustedWere, OustedByOthers
<1>21. SpentIsKnown' /\ SignedOutHolds'
  <2>1. \A s \in Sess : session'[s].state = session[s].state
    BY <1>1
  <2> QED BY <1>4, <1>10, <2>1 DEF IInv, SpentIsKnown, SignedOutHolds
<1> QED BY <1>13, <1>14, <1>15, <1>16, <1>17, <1>18, <1>19, <1>20, <1>21 DEF Protocol

LEMMA RefusesProtocol ==
  ASSUME IInv, NEW c \in Call, refresh[c].phase = "sent", UNCHANGED <<jar, tab, call, out, left>>,
         NEW s0 \in Sess, Unasked(c) \/ Refuses(c, s0)
  PROVE  Protocol'
<1>1. /\ \A d \in Call \ {c} : refresh'[d] = refresh[d]
      /\ refresh'[c].phase = "answered" /\ refresh'[c].token = refresh[c].token
      /\ refresh'[c].answer.status = 401
      /\ refresh'[c].answer.jar.sets # "cookies" /\ refresh'[c].answer.jar.of = None
      /\ UNCHANGED <<session, rotated, strayed>>
  BY RefusesType DEF Unasked, Refuses
<1>2. \A d \in Call : /\ Pending(d)' <=> Pending(d)
                      /\ refresh'[d].token = refresh[d].token
                      /\ refresh'[d].phase = "sent" => d # c /\ refresh[d].phase = "sent"
                      /\ \A s \in Sess : Spent(d, s)' <=> Spent(d, s)
                      /\ Orphaned(d)' <=> Orphaned(d)
  BY <1>1 DEF Spent, Pending, Orphaned
<1>3. ~(refresh[c].answer.status = 200)
  BY DEF IInv, AnswersFit, RefreshFits
<1>4. \A d \in Call, s \in Sess : Arriving(d, s)' <=> Arriving(d, s)
  BY <1>1, <1>2, <1>3 DEF Arriving
<1>5. \A d \in Call, s \in Sess : SigningIn(d, s)' <=> SigningIn(d, s)
  BY DEF SigningIn
<1>6. \A s \in Sess : Held(s)' <=> Held(s)
  BY DEF Held
<1>7. OwnersKnown' /\ OneRefreshPerTab'
  BY <1>1, <1>2 DEF IInv, OwnersKnown, OneRefreshPerTab, Awaited
<1>8. AnswersFit'
  <2>1. ASSUME NEW d \in Call PROVE AnswerFits(d)'
    <3>1. AnswerFits(d) /\ (call'[d] = call[d] \/ call'[d].phase # "answered")
      BY <1>1 DEF IInv, AnswersFit
    <3>2. UNCHANGED session
      BY <1>1
    <3> QED BY <3>1, <3>2, AnswerFitsKept
  <2>2. ASSUME NEW d \in Call PROVE RefreshFits(d)'
    <3>1. CASE d = c
      BY <1>1, <1>3, <1>4, <3>1 DEF Arriving, RefreshFits
    <3>2. CASE d # c
      <4>1. RefreshFits(d) /\ refresh'[d] = refresh[d]
        BY <1>1, <3>2 DEF IInv, AnswersFit
      <4> QED BY <1>1, <1>4, <4>1 DEF RefreshFits, Brings
    <3> QED BY <3>1, <3>2
  <2> QED BY <2>1, <2>2 DEF AnswersFit
<1>9. TokensIssued'
  <2>1. Issued(jar.refresh)' /\ (jar.access # None => Held(jar.access))'
    BY <1>1 DEF IInv, TokensIssued, Issued, Held
  <2>2. ASSUME NEW d \in Call, Pending(d)' PROVE Issued(refresh[d].token)'
    BY <1>1, <1>2, <2>2 DEF IInv, TokensIssued, Issued
  <2> QED BY <2>1, <2>2 DEF TokensIssued
<1>10. NewestIsAlone'
  BY <1>1, <1>2, <1>4, <1>5, <1>6 DEF IInv, NewestIsAlone
<1>11. JarIsNewest'
  BY <1>1, <1>4, <1>6 DEF IInv, JarIsNewest
<1>12. SentIsNewest'
  BY <1>1, <1>2 DEF IInv, SentIsNewest
<1>13. OustedWere' /\ OustedByOthers'
  <2>1. CASE ousted' = ousted
    BY <1>1, <2>1 DEF IInv, OustedWere, OustedByOthers
  <2>2. CASE Refuses(c, s0) /\ Active(s0) /\ ~Orphaned(c)
    <3>1. Spent(c, s0) /\ Pending(c)
      BY <2>2 DEF Refuses, Spent, Pending
    <3>2. refresh[c].token[2] = session[s0].token \/ s0 \in strayed \/ rotated[s0] \ {call[c].tab} # {}
      BY <2>2, <3>1 DEF IInv, SentIsNewest
    <3>3. rotated[s0] \ {call[c].tab} # {} \/ s0 \in strayed \/ ~session[s0].usable
      BY <2>2, <3>2 DEF Refuses
    <3>4. ousted' = ousted \cup {<<call[c].tab, s0>>} /\ session[s0].state # "absent"
      BY <2>2 DEF Refuses, Active
    <3> QED BY <1>1, <3>3, <3>4 DEF IInv, OustedWere, OustedByOthers
  <2> QED BY <2>1, <2>2 DEF Unasked, Refuses
<1>14. SpentIsKnown' /\ SignedOutHolds'
  BY <1>1, <1>2, <1>6 DEF IInv, SpentIsKnown, SignedOutHolds
<1> QED BY <1>7, <1>8, <1>9, <1>10, <1>11, <1>12, <1>13, <1>14 DEF Protocol

LEMMA StartsProtocol ==
  ASSUME IInv, NEW c \in Call, AwaitRefresh(c), refreshAccessToken(call[c].tab, c) = c
  PROVE  Protocol'
<1>1. /\ call[c].phase = "answered" /\ call'[c].phase = "waiting" /\ call'[c].awaits = c
      /\ call'[c].tab = call[c].tab
      /\ \A d \in Call \ {c} : call'[d] = call[d] /\ refresh'[d] = refresh[d]
      /\ refresh'[c].phase = "sent" /\ refresh'[c].token = jar.refresh /\ refresh'[c].answer.status = 0
      /\ refresh'[c].answer.jar = Keep
      /\ call[c].tab \in Tab /\ tab[call[c].tab].refreshPromise \in {None, c}
      /\ tab'[call[c].tab].refreshPromise = c
      /\ \A u \in Tab \ {call[c].tab} : tab'[u] = tab[u]
      /\ UNCHANGED <<session, jar, ousted, rotated, strayed, out, left>>
  BY StartsType DEF server, history
<1>2. ~Pending(c)
  BY <1>1, RefresherIsOfTab
<1>3. \A d \in Call \ {c} : /\ Pending(d)' <=> Pending(d)
                            /\ Orphaned(d)' <=> Orphaned(d)
                            /\ \A s \in Sess : /\ Spent(d, s)' <=> Spent(d, s)
                                               /\ Arriving(d, s)' <=> Arriving(d, s)
                                               /\ SigningIn(d, s)' <=> SigningIn(d, s)
  BY <1>1 DEF Pending, Spent, Orphaned, Arriving, SigningIn
<1>4. \A s \in Sess : /\ Held(s)' <=> Held(s)
                      /\ Spent(c, s)' <=> Held(s)
                      /\ ~Arriving(c, s)' /\ ~SigningIn(c, s)' /\ ~Spent(c, s) /\ ~Arriving(c, s)
  BY <1>1, <1>2 DEF Held, Spent, Pending, Arriving, SigningIn
<1>5. \A d \in Call \ {c} : Pending(d) /\ ~Orphaned(d) => call[d].tab # call[c].tab
  BY <1>1, PendingIs, BrowserAssumption DEF BrowserAssumption
<1>6. OwnersKnown'
  BY <1>1 DEF IInv, OwnersKnown
<1>7. OneRefreshPerTab'
  <2>1. Awaited(c)'
    BY <1>1 DEF Awaited
  <2>2. ASSUME NEW d \in Call \ {c}, Pending(d)' PROVE Awaited(d)'
    <3>1. Pending(d) /\ call'[d] = call[d] /\ Awaited(d) /\ call[d].tab \in Tab
      BY <1>1, <1>3, <2>2, RefresherIsOfTab DEF IInv, OneRefreshPerTab
    <3>2. ~Orphaned(d) => tab'[call[d].tab] = tab[call[d].tab]
      BY <1>1, <1>5, <3>1
    <3> QED BY <3>1, <3>2 DEF Awaited, Orphaned
  <2> QED BY <2>1, <2>2 DEF OneRefreshPerTab, Awaited
<1>8. AnswersFit'
  <2>1. AnswerFits(c)' /\ RefreshFits(c)'
    BY <1>1, <1>4 DEF AnswerFits, RefreshFits, Keep
  <2>2. ASSUME NEW d \in Call \ {c} PROVE AnswerFits(d)' /\ RefreshFits(d)'
    <3>1. AnswerFits(d) /\ RefreshFits(d) /\ call'[d] = call[d]
      BY <1>1, <2>2 DEF IInv, AnswersFit
    <3>2. AnswerFits(d)'
      BY <1>1, <3>1, AnswerFitsKept
    <3>3. RefreshFits(d)'
      BY <1>1, <1>3, <3>1 DEF RefreshFits, Brings
    <3> QED BY <3>2, <3>3
  <2> QED BY <2>1, <2>2 DEF AnswersFit
<1>9. TokensIssued'
  <2>1. Issued(jar.refresh)' /\ (jar.access # None => Held(jar.access))' /\ Issued(refresh[c].token)'
    BY <1>1 DEF IInv, TokensIssued, Issued, Held
  <2>2. ASSUME NEW d \in Call \ {c}, Pending(d)' PROVE Issued(refresh[d].token)'
    BY <1>1, <1>3, <2>2 DEF IInv, TokensIssued, Issued
  <2> QED BY <2>1, <2>2 DEF TokensIssued
<1>10. NewestIsAlone'
  <2> SUFFICES ASSUME NEW s \in Sess
               PROVE  /\ \A d \in Call : Arriving(d, s)' =>
                           /\ Held(s)' => jar'.refresh[2] < session'[s].token
                           /\ \A e \in Call \ {d} : Spent(e, s)' => /\ ~Arriving(e, s)'
                                                                    /\ refresh'[e].token[2] < session'[s].token
                      /\ \A d \in Call : SigningIn(d, s)' =>
                           /\ ~Held(s)'
                           /\ \A e \in Call : ~Spent(e, s)' /\ (SigningIn(e, s)' => e = d)
    BY DEF NewestIsAlone
  <2>1. ASSUME NEW d \in Call, Arriving(d, s)'
        PROVE  /\ Held(s)' => jar'.refresh[2] < session'[s].token
               /\ \A e \in Call \ {d} : Spent(e, s)' => /\ ~Arriving(e, s)'
                                                        /\ refresh'[e].token[2] < session'[s].token
    <3>1. d # c /\ Arriving(d, s)
      BY <1>3, <1>4, <2>1
    <3>2. Held(s) => jar.refresh[2] < session[s].token
      BY <3>1 DEF IInv, NewestIsAlone
    <3>3. \A e \in Call \ {d, c} : Spent(e, s) => ~Arriving(e, s) /\ refresh[e].token[2] < session[s].token
      BY <3>1 DEF IInv, NewestIsAlone
    <3> QED BY <1>1, <1>3, <1>4, <3>2, <3>3
  <2>2. ASSUME NEW d \in Call, SigningIn(d, s)'
        PROVE  ~Held(s)' /\ \A e \in Call : ~Spent(e, s)' /\ (SigningIn(e, s)' => e = d)
    <3>1. d # c /\ SigningIn(d, s)
      BY <1>3, <1>4, <2>2
    <3> QED BY <1>3, <1>4, <3>1 DEF IInv, NewestIsAlone
  <2> QED BY <2>1, <2>2
<1>11. JarIsNewest'
  BY <1>1, <1>3, <1>4 DEF IInv, JarIsNewest
<1>12. SentIsNewest'
  <2> SUFFICES ASSUME NEW d \in Call, NEW s \in Sess, refresh'[d].phase = "sent", Spent(d, s)', ~Orphaned(d)'
               PROVE  refresh'[d].token[2] = session'[s].token \/ s \in strayed' \/ rotated'[s] \ {call'[d].tab} # {}
    BY DEF SentIsNewest
  <2>1. CASE d # c
    BY <1>1, <1>3, <2>1 DEF IInv, SentIsNewest
  <2>2. CASE d = c
    <3>1. Held(s)
      BY <1>4, <2>2
    <3>2. CASE \E e \in Call : Arriving(e, s)
      <4>1. PICK e \in Call : Arriving(e, s)
        BY <3>2
      <4>2. e # c /\ Pending(e) /\ ~Orphaned(e) /\ call[e].tab \in rotated[s]
        BY <1>4, <4>1 DEF IInv, AnswersFit, RefreshFits, Arriving, Spent
      <4>3. call[e].tab # call[c].tab
        BY <1>5, <4>2
      <4> QED BY <1>1, <2>2, <4>2, <4>3
    <3>3. CASE ~\E e \in Call : Arriving(e, s)
      BY <1>1, <2>2, <3>1, <3>3 DEF IInv, JarIsNewest
    <3> QED BY <3>2, <3>3
  <2> QED BY <2>1, <2>2
<1>13. OustedWere' /\ OustedByOthers'
  BY <1>1 DEF IInv, OustedWere, OustedByOthers
<1>14. SpentIsKnown' /\ SignedOutHolds'
  BY <1>1, <1>3, <1>4 DEF IInv, SpentIsKnown, SignedOutHolds
<1> QED BY <1>6, <1>7, <1>8, <1>9, <1>10, <1>11, <1>12, <1>13, <1>14 DEF Protocol

\* What an answer makes of the jar.
LEMMA JarBecomes ==
  ASSUME IInv, NEW change \in Changes, SetsCookies(change)
  PROVE  /\ left \subseteq left'
         /\ change.sets = "nothing" => UNCHANGED <<jar, left>>
         /\ change.sets # "nothing" => \A s \in Sess : Held(s) => s \in left' \/ s = change.of
         /\ change.sets = "cleared" => jar' = NoCookies /\ \A s \in Sess : ~Held(s)'
         /\ \A s \in Sess : Brings(change, s) =>
              /\ jar'.access = s /\ jar'.refresh = <<s, session[s].token>>
              /\ \A x \in Sess : Held(x)' <=> x = s
<1>1. TypeOK
  BY DEF IInv
<1>2. left \subseteq left' /\ (change.sets # "nothing" => \A s \in Sess : Held(s) => s \in left' \/ s = change.of)
  BY <1>1, SetsCookiesType
<1>3. change.sets = "nothing" => UNCHANGED <<jar, left>>
  BY DEF SetsCookies, JarAfter, Dropped
<1>4. change.sets = "cleared" => jar' = NoCookies /\ \A s \in Sess : ~Held(s)'
  BY DEF SetsCookies, JarAfter, Held, NoCookies
<1>5. ASSUME NEW s \in Sess, Brings(change, s)
      PROVE  /\ jar'.access = s /\ jar'.refresh = <<s, session[s].token>>
             /\ \A x \in Sess : Held(x)' <=> x = s
  <2>1. jar'.access = s /\ jar'.refresh = <<s, session[s].token>>
    BY <1>5, JarAfterCookies DEF SetsCookies
  <2>2. <<s, session[s].token>> # None
    BY TokenTypes, BrowserAssumption DEF BrowserAssumption
  <2> QED BY <2>1, <2>2 DEF Held
<1> QED BY <1>2, <1>3, <1>4, <1>5

LEMMA SucceedProtocol ==
  ASSUME IInv, NEW c \in Call, Succeed(c), call[c].op \in {"login", "logout"}
  PROVE  Protocol'
<1> DEFINE change == call[c].answer.jar
<1>1. /\ call[c].phase = "answered" /\ call[c].answer.status = 200
      /\ change \in Changes /\ SetsCookies(change)
      /\ \A d \in Call \ {c} : call'[d] = call[d]
      /\ call'[c].phase = "done"
      /\ \A u \in Tab : tab'[u].refreshPromise = tab[u].refreshPromise
      /\ call[c].op = "login" => out' = FALSE
      /\ UNCHANGED <<session, refresh, ousted, rotated, strayed>>
  <2>1. UNCHANGED server
    BY SucceedType
  <2>2. UNCHANGED session
    BY <2>1 DEF server
  <2> QED BY <2>2, SucceedType
<1>2. \A d \in Call : /\ Pending(d)' <=> Pending(d)
                      /\ Pending(d) => d # c /\ call'[d] = call[d] /\ call[d].tab \in Tab
                      /\ \A s \in Sess : Spent(d, s)' <=> Spent(d, s)
  BY <1>1, RefresherIsOfTab DEF Pending, Spent
<1>3. \A d \in Call, s \in Sess : Arriving(d, s)' <=> Arriving(d, s)
  BY <1>1, <1>2 DEF Arriving, Spent, Orphaned
<1>4. \A d \in Call, s \in Sess : SigningIn(d, s)' => d # c /\ SigningIn(d, s)
  BY <1>1 DEF SigningIn
<1>5. OwnersKnown' /\ OneRefreshPerTab' /\ OustedWere' /\ OustedByOthers'
  BY <1>1, <1>2 DEF IInv, OwnersKnown, OneRefreshPerTab, Awaited, OustedWere, OustedByOthers
<1>6. AnswersFit'
  <2>1. ASSUME NEW d \in Call PROVE AnswerFits(d)'
    <3>1. AnswerFits(d) /\ (call'[d] = call[d] \/ call'[d].phase # "answered")
      BY <1>1 DEF IInv, AnswersFit
    <3>2. UNCHANGED session
      BY <1>1
    <3> QED BY <3>1, <3>2, AnswerFitsKept
  <2>2. ASSUME NEW d \in Call PROVE RefreshFits(d)'
    <3>1. RefreshFits(d) /\ \A s \in Sess : Arriving(d, s) => call'[d] = call[d]
      BY <1>2 DEF IInv, AnswersFit, Arriving, Spent
    <3> QED BY <1>1, <1>3, <3>1 DEF RefreshFits, Brings
  <2> QED BY <2>1, <2>2 DEF AnswersFit
<1>7. SentIsNewest'
  BY <1>1, <1>2 DEF IInv, SentIsNewest, Spent, Orphaned
<1>8. \A d \in Call : Pending(d)' => Issued(refresh[d].token)'
  BY <1>1, <1>2 DEF IInv, TokensIssued, Issued
<1>9. CASE call[c].op = "login"
  <2> DEFINE s0 == change.of
  <2>1. s0 \in Sess /\ Brings(change, s0) /\ session[s0].state # "absent" /\ SigningIn(c, s0)
        /\ change.sets # "nothing"
    BY <1>1, <1>9 DEF IInv, AnswersFit, AnswerFits, SigningIn
  <2> HIDE DEF change
  <2>2. /\ left \subseteq left' /\ \A s \in Sess : Held(s) => s \in left' \/ s = s0
        /\ jar'.access = s0 /\ jar'.refresh = <<s0, session[s0].token>>
        /\ \A x \in Sess : Held(x)' <=> x = s0
    BY <1>1, <2>1, JarBecomes
  <2> HIDE DEF s0
  <2>3. \A d \in Call : ~Spent(d, s0) /\ (SigningIn(d, s0) => d = c)
    BY <2>1 DEF IInv, NewestIsAlone
  <2>4. TokensIssued'
    <3>1. Issued(jar.refresh)'
      BY <1>1, <2>1, <2>2, TokenTypes DEF Issued
    <3>2. Held(jar.access)'
      BY <2>1, <2>2 DEF Held
    <3> QED BY <1>8, <3>1, <3>2 DEF TokensIssued
  <2>5. NewestIsAlone'
    <3> SUFFICES ASSUME NEW s \in Sess
                 PROVE  /\ \A d \in Call : Arriving(d, s)' =>
                             /\ Held(s)' => jar'.refresh[2] < session'[s].token
                             /\ \A e \in Call \ {d} : Spent(e, s)' => /\ ~Arriving(e, s)'
                                                                      /\ refresh'[e].token[2] < session'[s].token
                        /\ \A d \in Call : SigningIn(d, s)' =>
                             /\ ~Held(s)'
                             /\ \A e \in Call : ~Spent(e, s)' /\ (SigningIn(e, s)' => e = d)
      BY DEF NewestIsAlone
    <3>1. CASE s = s0
      <4>1. \A d \in Call : ~Arriving(d, s)' /\ ~SigningIn(d, s)'
        BY <1>3, <1>4, <2>3, <3>1 DEF Arriving
      <4> QED BY <4>1
    <3>2. CASE s # s0
      BY <1>1, <1>2, <1>3, <1>4, <2>2, <3>2 DEF IInv, NewestIsAlone
    <3> QED BY <3>1, <3>2
  <2>6. JarIsNewest'
    BY <1>1, <2>2 DEF JarIsNewest
  <2>7. SpentIsKnown' /\ SignedOutHolds'
    BY <1>1, <1>2, <1>9, <2>2 DEF IInv, SpentIsKnown, SignedOutHolds
  <2> QED BY <1>5, <1>6, <1>7, <2>4, <2>5, <2>6, <2>7 DEF Protocol
<1>10. CASE call[c].op = "logout"
  <2>1. change.sets = "cleared" /\ change.of \in Sess /\ session[change.of].state = "ended"
    BY <1>1, <1>10 DEF IInv, AnswersFit, AnswerFits
  <2> HIDE DEF change
  <2>2. /\ left \subseteq left' /\ \A s \in Sess : Held(s) => s \in left' \/ s = change.of
        /\ jar' = NoCookies /\ \A s \in Sess : ~Held(s)'
    BY <1>1, <2>1, JarBecomes
  <2>3. TokensIssued'
    BY <1>8, <2>2 DEF TokensIssued, Issued, NoCookies
  <2>4. NewestIsAlone'
    BY <1>1, <1>2, <1>3, <1>4, <2>2 DEF IInv, NewestIsAlone
  <2>5. JarIsNewest' /\ SignedOutHolds'
    BY <2>2 DEF JarIsNewest, SignedOutHolds
  <2>6. SpentIsKnown'
    BY <1>1, <1>2, <2>1, <2>2 DEF IInv, SpentIsKnown
  <2> QED BY <1>5, <1>6, <1>7, <2>3, <2>4, <2>5, <2>6 DEF Protocol
<1> QED BY <1>9, <1>10

\* What the end of a refresh leaves of the others.
LEMMA OthersRefresh ==
  ASSUME IInv, NEW c \in Call, Pending(c), refresh'[c] = NoRefresh,
         \A d \in Call \ {c} : refresh'[d] = refresh[d],
         \A u \in Tab : tab'[u].refreshPromise = tab[u].refreshPromise \/ tab[u].refreshPromise = c,
         \A d \in Call : d \notin Waiters(c) => call'[d] = call[d],
         \A d \in Waiters(c) : call'[d].phase \in {"sent", "refused"},
         UNCHANGED <<session, ousted, rotated>>, strayed \subseteq strayed'
  PROVE  /\ \A d \in Call \ {c} : /\ Pending(d)' <=> Pending(d)
                                  /\ Pending(d) => call'[d] = call[d] /\ d \notin Waiters(c)
                                  /\ \A s \in Sess : /\ Spent(d, s)' <=> Spent(d, s)
                                                     /\ Arriving(d, s)' <=> Arriving(d, s)
         /\ ~Pending(c)' /\ \A s \in Sess : ~Spent(c, s)' /\ ~Arriving(c, s)'
         /\ \A d \in Call, s \in Sess : SigningIn(d, s)' => SigningIn(d, s)
         /\ OwnersKnown' /\ OneRefreshPerTab' /\ AnswersFit' /\ SentIsNewest' /\ OustedWere' /\ OustedByOthers'
         /\ \A d \in Call : Pending(d)' => Issued(refresh[d].token)'
<1>1. \A d \in Call \ {c} : /\ Pending(d)' <=> Pending(d)
                            /\ Pending(d) => call'[d] = call[d] /\ d \notin Waiters(c) /\ call[d].tab \in Tab
  BY RefresherIsOfTab DEF IInv, OneRefreshPerTab, Awaited, Waiters, Pending
<1>2. \A d \in Call \ {c}, s \in Sess : /\ Spent(d, s)' <=> Spent(d, s)
                                        /\ Arriving(d, s)' <=> Arriving(d, s)
  BY <1>1 DEF Spent, Arriving, Orphaned
<1>3. ~Pending(c)' /\ \A s \in Sess : ~Spent(c, s)' /\ ~Arriving(c, s)'
  BY DEF Pending, NoRefresh, Spent, Arriving
<1>4. \A d \in Call, s \in Sess : SigningIn(d, s)' => SigningIn(d, s)
  BY DEF SigningIn
<1>5. OwnersKnown' /\ OustedWere' /\ OustedByOthers'
  BY DEF IInv, OwnersKnown, OustedWere, OustedByOthers
<1>6. OneRefreshPerTab'
  <2> SUFFICES ASSUME NEW d \in Call, Pending(d)' PROVE Awaited(d)'
    BY DEF OneRefreshPerTab, Awaited
  <2>1. d # c /\ Pending(d) /\ call'[d] = call[d] /\ call[d].tab \in Tab /\ Awaited(d)
    BY <1>1, <1>3 DEF IInv, OneRefreshPerTab
  <2> QED BY <2>1 DEF Awaited
<1>7. AnswersFit'
  <2>1. ASSUME NEW d \in Call PROVE AnswerFits(d)'
    <3>1. AnswerFits(d) /\ (call'[d] = call[d] \/ call'[d].phase # "answered")
      BY <1>1 DEF IInv, AnswersFit
    <3> QED BY <3>1, AnswerFitsKept
  <2>2. RefreshFits(c)'
    BY <1>3 DEF RefreshFits, NoRefresh, NoAnswer, Keep
  <2>3. ASSUME NEW d \in Call \ {c} PROVE RefreshFits(d)'
    <3>1. RefreshFits(d) /\ \A s \in Sess : Arriving(d, s) => call'[d] = call[d]
      BY <1>1 DEF IInv, AnswersFit, Arriving, Spent
    <3> QED BY <1>2, <3>1 DEF RefreshFits, Brings
  <2> QED BY <2>1, <2>2, <2>3 DEF AnswersFit
<1>8. SentIsNewest'
  <2> SUFFICES ASSUME NEW d \in Call, NEW s \in Sess, refresh'[d].phase = "sent", Spent(d, s)', ~Orphaned(d)'
               PROVE  refresh'[d].token[2] = session'[s].token \/ s \in strayed' \/ rotated'[s] \ {call'[d].tab} # {}
    BY DEF SentIsNewest
  <2>1. d # c /\ Spent(d, s) /\ call'[d] = call[d] /\ refresh'[d] = refresh[d]
    BY <1>1, <1>2, <1>3 DEF Spent
  <2> QED BY <2>1 DEF IInv, SentIsNewest, Orphaned
<1>9. \A d \in Call : Pending(d)' => Issued(refresh[d].token)'
  BY <1>1, <1>3 DEF IInv, TokensIssued, Issued
<1> QED BY <1>1, <1>2, <1>3, <1>4, <1>5, <1>6, <1>7, <1>8, <1>9

LEMMA RefreshLostProtocol ==
  ASSUME IInv, NEW c \in Call, RefreshLost(c)
  PROVE  Protocol'
<1>1. /\ Pending(c) /\ refresh'[c] = NoRefresh
      /\ strayed' = IF refresh[c].answer.status = 200 THEN strayed \cup {refresh[c].token[1]} ELSE strayed
      /\ \A d \in Call \ {c} : refresh'[d] = refresh[d]
      /\ \A u \in Tab : tab'[u].refreshPromise = tab[u].refreshPromise \/ tab[u].refreshPromise = c
      /\ \A d \in Call : d \notin Waiters(c) => call'[d] = call[d]
      /\ \A d \in Waiters(c) : call'[d].phase \in {"sent", "refused"}
      /\ UNCHANGED <<session, jar, ousted, rotated, out, left>>
  BY RefreshLostType DEF server
<1>2. strayed \subseteq strayed'
  BY <1>1
<1>3. /\ \A d \in Call \ {c} : /\ Pending(d)' <=> Pending(d)
                               /\ \A s \in Sess : /\ Spent(d, s)' <=> Spent(d, s)
                                                  /\ Arriving(d, s)' <=> Arriving(d, s)
      /\ ~Pending(c)' /\ \A s \in Sess : ~Spent(c, s)' /\ ~Arriving(c, s)'
      /\ \A d \in Call, s \in Sess : SigningIn(d, s)' => SigningIn(d, s)
      /\ OwnersKnown' /\ OneRefreshPerTab' /\ AnswersFit' /\ SentIsNewest' /\ OustedWere' /\ OustedByOthers'
      /\ \A d \in Call : Pending(d)' => Issued(refresh[d].token)'
  BY <1>1, <1>2, OthersRefresh
<1>4. \A s \in Sess : Held(s)' <=> Held(s)
  BY <1>1 DEF Held
<1>5. TokensIssued'
  <2>1. Issued(jar.refresh)' /\ (jar.access # None => Held(jar.access))'
    BY <1>1 DEF IInv, TokensIssued, Issued, Held
  <2> QED BY <1>3, <2>1 DEF TokensIssued
<1>6. NewestIsAlone'
  BY <1>1, <1>3, <1>4 DEF IInv, NewestIsAlone
<1>7. JarIsNewest'
  <2> SUFFICES ASSUME NEW s \in Sess, Held(s)'
               PROVE  jar'.refresh[2] = session'[s].token \/ s \in strayed' \/ \E d \in Call : Arriving(d, s)'
    BY DEF JarIsNewest
  <2>1. jar.refresh[2] = session[s].token \/ s \in strayed \/ \E d \in Call : Arriving(d, s)
    BY <1>4 DEF IInv, JarIsNewest
  <2>2. Arriving(c, s) => s \in strayed'
    BY <1>1 DEF Arriving, Spent
  <2> QED BY <1>1, <1>2, <1>3, <2>1, <2>2
<1>8. SpentIsKnown' /\ SignedOutHolds'
  BY <1>1, <1>3, <1>4 DEF IInv, SpentIsKnown, SignedOutHolds
<1> QED BY <1>3, <1>5, <1>6, <1>7, <1>8 DEF Protocol

LEMMA RefreshArrivesProtocol ==
  ASSUME IInv, NEW c \in Call, RefreshArrives(c)
  PROVE  Protocol'
<1> DEFINE change == refresh[c].answer.jar
<1>1. /\ Pending(c) /\ ~Orphaned(c) /\ refresh'[c] = NoRefresh
      /\ change \in Changes /\ SetsCookies(change)
      /\ \A d \in Call \ {c} : refresh'[d] = refresh[d]
      /\ \A u \in Tab : tab'[u].refreshPromise = tab[u].refreshPromise \/ tab[u].refreshPromise = c
      /\ \A d \in Call : d \notin Waiters(c) => call'[d] = call[d]
      /\ \A d \in Waiters(c) : call'[d].phase \in {"sent", "refused"}
      /\ UNCHANGED <<session, ousted, rotated, strayed, out>>
  BY RefreshArrivesType DEF server
<1>2. /\ \A d \in Call \ {c} : /\ Pending(d)' <=> Pending(d)
                               /\ \A s \in Sess : /\ Spent(d, s)' <=> Spent(d, s)
                                                  /\ Arriving(d, s)' <=> Arriving(d, s)
      /\ ~Pending(c)' /\ \A s \in Sess : ~Spent(c, s)' /\ ~Arriving(c, s)'
      /\ \A d \in Call, s \in Sess : SigningIn(d, s)' => SigningIn(d, s)
      /\ OwnersKnown' /\ OneRefreshPerTab' /\ AnswersFit' /\ SentIsNewest' /\ OustedWere' /\ OustedByOthers'
      /\ \A d \in Call : Pending(d)' => Issued(refresh[d].token)'
  BY <1>1, OthersRefresh
<1>3. RefreshFits(c)
  BY DEF IInv, AnswersFit
<1>4. CASE refresh[c].answer.status = 200
  <2> DEFINE s0 == refresh[c].token[1]
  <2>1. s0 \in Sess /\ Spent(c, s0) /\ Arriving(c, s0) /\ Brings(change, s0) /\ change.sets # "nothing"
        /\ change.of = s0
    BY <1>1, <1>3, <1>4, TokenTypes DEF RefreshFits, Arriving, Spent, Brings
  <2>2. session[s0].state # "absent"
    BY <1>1, <1>3, <1>4 DEF IInv, TokensIssued, Issued, RefreshFits
  <2> HIDE DEF change
  <2>3. /\ left \subseteq left' /\ \A s \in Sess : Held(s) => s \in left' \/ s = s0
        /\ jar'.access = s0 /\ jar'.refresh = <<s0, session[s0].token>>
        /\ \A x \in Sess : Held(x)' <=> x = s0
    BY <1>1, <2>1, JarBecomes
  <2> HIDE DEF s0
  <2>4. TokensIssued'
    <3>1. Issued(jar.refresh)'
      BY <1>1, <2>1, <2>2, <2>3, TokenTypes DEF Issued
    <3>2. Held(jar.access)'
      BY <2>1, <2>3 DEF Held
    <3> QED BY <1>2, <3>1, <3>2 DEF TokensIssued
  <2>5. (\A d \in Call \ {c} : ~Arriving(d, s0)) /\ \A d \in Call : ~SigningIn(d, s0)
    BY <2>1 DEF IInv, NewestIsAlone, Arriving
  <2>6. NewestIsAlone'
    <3> SUFFICES ASSUME NEW s \in Sess
                 PROVE  /\ \A d \in Call : Arriving(d, s)' =>
                             /\ Held(s)' => jar'.refresh[2] < session'[s].token
                             /\ \A e \in Call \ {d} : Spent(e, s)' => /\ ~Arriving(e, s)'
                                                                      /\ refresh'[e].token[2] < session'[s].token
                        /\ \A d \in Call : SigningIn(d, s)' =>
                             /\ ~Held(s)'
                             /\ \A e \in Call : ~Spent(e, s)' /\ (SigningIn(e, s)' => e = d)
      BY DEF NewestIsAlone
    <3>1. CASE s = s0
      BY <1>2, <2>5, <3>1
    <3>2. CASE s # s0
      BY <1>1, <1>2, <2>3, <3>2 DEF IInv, NewestIsAlone
    <3> QED BY <3>1, <3>2
  <2>7. JarIsNewest'
    BY <1>1, <2>3 DEF JarIsNewest
  <2>8. SpentIsKnown' /\ SignedOutHolds'
    <3>1. Held(s0) \/ session[s0].state = "ended" \/ s0 \in left
      BY <2>1 DEF IInv, SpentIsKnown
    <3> QED BY <1>1, <1>2, <2>3, <3>1 DEF IInv, SpentIsKnown, SignedOutHolds
  <2> QED BY <1>2, <2>4, <2>6, <2>7, <2>8 DEF Protocol
<1>5. CASE refresh[c].answer.status # 200
  <2>1. change.sets \in {"nothing", "cleared"} /\ change.of = None /\ \A s \in Sess : ~Arriving(c, s)
    BY <1>1, <1>3, <1>5 DEF RefreshFits, Changes, Arriving
  <2>2. None \notin Sess
    BY BrowserAssumption DEF BrowserAssumption
  <2> HIDE DEF change
  <2>3. /\ left \subseteq left'
        /\ \/ UNCHANGED <<jar, left>>
           \/ /\ jar' = NoCookies /\ \A s \in Sess : ~Held(s)' /\ (Held(s) => s \in left')
    BY <1>1, <2>1, <2>2, JarBecomes
  <2>4. \A s \in Sess : Held(s)' => Held(s) /\ jar' = jar
    BY <2>3 DEF Held
  <2>5. TokensIssued'
    <3>1. Issued(jar.refresh)' /\ (jar.access # None => Held(jar.access))'
      <4>1. CASE jar' = jar
        BY <1>1, <4>1 DEF IInv, TokensIssued, Issued, Held
      <4>2. CASE jar' = NoCookies
        BY <4>2 DEF Issued, NoCookies
      <4> QED BY <2>3, <4>1, <4>2
    <3> QED BY <1>2, <3>1 DEF TokensIssued
  <2>6. NewestIsAlone'
    BY <1>1, <1>2, <2>4 DEF IInv, NewestIsAlone
  <2>7. JarIsNewest'
    BY <1>1, <1>2, <2>1, <2>4 DEF IInv, JarIsNewest
  <2>8. SpentIsKnown' /\ SignedOutHolds'
    <3>1. \A s \in Sess : Held(s) => Held(s)' \/ s \in left'
      BY <2>3 DEF Held
    <3> QED BY <1>1, <1>2, <2>3, <2>4, <3>1 DEF IInv, SpentIsKnown, SignedOutHolds
  <2> QED BY <1>2, <2>5, <2>6, <2>7, <2>8 DEF Protocol
<1> QED BY <1>4, <1>5

LEMMA LoadsProtocol ==
  ASSUME IInv, NEW t \in Tab, NEW to \in Pages, NEW hard \in BOOLEAN, Loads(t, to, hard)
  PROVE  Protocol'
<1> DEFINE gone == LeftBehind(t, hard)
<1>1. /\ (SetsCookies(Clear(None)) \/ UNCHANGED <<jar, left>>)
      /\ \A u \in Tab \ {t} : tab'[u] = tab[u]
      /\ tab'[t].refreshPromise = IF hard THEN None ELSE tab[t].refreshPromise
      /\ \A c \in Call : c \notin gone => call'[c] = call[c]
      /\ \A c \in gone : /\ call'[c].phase \in {"aborted", "lost"}
                         /\ call[c].phase = "waiting" => call'[c].phase = "lost"
                         /\ refresh[c].answer.status = 200 => refresh[c].token[1] \in strayed'
      /\ strayed \subseteq strayed'
      /\ UNCHANGED <<session, refresh, ousted, rotated, out>>
  BY LoadsType DEF server
<1>2. \A c \in Call : /\ Pending(c)' <=> Pending(c)
                      /\ \A s \in Sess : Spent(c, s)' <=> Spent(c, s)
  BY <1>1 DEF Pending, Spent
<1>3. \A c \in Call : ~Orphaned(c)' => c \notin gone /\ call'[c] = call[c] /\ ~Orphaned(c)
  BY <1>1 DEF Orphaned
<1>4. \A c \in Call, s \in Sess : /\ Arriving(c, s)' => Arriving(c, s) /\ call'[c] = call[c]
                                  /\ Arriving(c, s) => Arriving(c, s)' \/ s \in strayed'
  BY <1>1, <1>2, <1>3 DEF Arriving, Spent, Orphaned
<1>5. \A c \in Call, s \in Sess : SigningIn(c, s)' => SigningIn(c, s)
  BY <1>1 DEF SigningIn
<1>6. /\ left \subseteq left'
      /\ \/ UNCHANGED <<jar, left>>
         \/ /\ jar' = NoCookies /\ \A s \in Sess : ~Held(s)' /\ (Held(s) => s \in left')
  <2>1. Clear(None) \in Changes /\ Clear(None).sets = "cleared" /\ Clear(None).of = None /\ None \notin Sess
    BY ChangeTypes, BrowserAssumption DEF Clear, BrowserAssumption
  <2> QED BY <1>1, <2>1, JarBecomes
<1>7. \A s \in Sess : /\ Held(s)' => Held(s) /\ jar' = jar
                      /\ Held(s) => Held(s)' \/ s \in left'
  BY <1>6 DEF Held
<1>8. OwnersKnown' /\ OustedWere' /\ OustedByOthers'
  BY <1>1 DEF IInv, OwnersKnown, OustedWere, OustedByOthers
<1>9. OneRefreshPerTab'
  <2> SUFFICES ASSUME NEW c \in Call, Pending(c)' PROVE Awaited(c)'
    BY DEF OneRefreshPerTab, Awaited
  <2>1. Pending(c) /\ Awaited(c) /\ call[c].tab \in Tab
    BY <1>2, RefresherIsOfTab DEF IInv, OneRefreshPerTab
  <2>2. CASE call[c].phase = "lost"
    BY <1>1, <2>2 DEF Awaited, LeftBehind, InFlight
  <2>3. CASE call[c].phase = "waiting" /\ c \in gone
    BY <1>1, <2>3 DEF Awaited
  <2>4. CASE call[c].phase = "waiting" /\ c \notin gone
    <3>1. ~(hard /\ call[c].tab = t)
      BY <2>4 DEF LeftBehind, InFlight
    <3> QED BY <1>1, <2>1, <2>4, <3>1 DEF Awaited
  <2> QED BY <2>1, <2>2, <2>3, <2>4 DEF Awaited
<1>10. AnswersFit'
  <2>1. ASSUME NEW c \in Call PROVE AnswerFits(c)'
    <3>1. AnswerFits(c) /\ (call'[c] = call[c] \/ call'[c].phase # "answered")
      BY <1>1 DEF IInv, AnswersFit, LeftBehind
    <3>2. UNCHANGED session
      BY <1>1
    <3> QED BY <3>1, <3>2, AnswerFitsKept
  <2>2. ASSUME NEW c \in Call PROVE RefreshFits(c)'
    BY <1>1, <1>4 DEF IInv, AnswersFit, RefreshFits, Brings
  <2> QED BY <2>1, <2>2 DEF AnswersFit
<1>11. TokensIssued'
  <2>1. Issued(jar.refresh)' /\ (jar.access # None => Held(jar.access))'
    <3>1. CASE jar' = jar
      BY <1>1, <3>1 DEF IInv, TokensIssued, Issued, Held
    <3>2. CASE jar' = NoCookies
      BY <3>2 DEF Issued, NoCookies
    <3> QED BY <1>6, <3>1, <3>2
  <2>2. \A c \in Call : Pending(c)' => Issued(refresh[c].token)'
    BY <1>1, <1>2 DEF IInv, TokensIssued, Issued
  <2> QED BY <2>1, <2>2 DEF TokensIssued
<1>12. NewestIsAlone'
  BY <1>1, <1>2, <1>4, <1>5, <1>7 DEF IInv, NewestIsAlone
<1>13. JarIsNewest'
  BY <1>1, <1>4, <1>7 DEF IInv, JarIsNewest
<1>14. SentIsNewest'
  BY <1>1, <1>2, <1>3 DEF IInv, SentIsNewest
<1>15. SpentIsKnown' /\ SignedOutHolds'
  BY <1>1, <1>2, <1>6, <1>7 DEF IInv, SpentIsKnown, SignedOutHolds
<1> QED BY <1>8, <1>9, <1>10, <1>11, <1>12, <1>13, <1>14, <1>15 DEF Protocol

-----------------------------------------------------------------------------
(* The invariant *)

\* Nothing is under way at first, and the jar has the newest token of the one
\* session there may be.
LEMMA InitInv == Init => IInv
<1> SUFFICES ASSUME Init PROVE IInv
  OBVIOUS
<1>1. /\ elsewhere = "nothing" /\ mustChange = {} /\ carried = [c \in Call |-> 0]
      /\ call = [c \in Call |-> Unused] /\ refresh = [c \in Call |-> NoRefresh]
      /\ ousted = {} /\ rotated = [s \in Sess |-> {}] /\ strayed = {} /\ out = FALSE /\ left = {}
  BY DEF Init
<1>2. /\ session \in [Sess -> Sessions] /\ tab \in [Tab -> Tabs] /\ jar \in Jars /\ stored \in Account \cup {None}
      /\ \A s \in Sess : session[s].state # "absent" => session[s].account \in Account
      /\ jar.access # None => Held(jar.access)
      /\ jar.refresh # None => /\ jar.refresh[1] \in Sess /\ jar.refresh[2] = 0
                               /\ session[jar.refresh[1]].state # "absent"
      /\ \A s \in Sess : session[s].token = 0
  <2>1. CASE /\ session = [s \in Sess |-> NoSession] /\ jar = NoCookies /\ stored = None
             /\ tab = [t \in Tab |-> NewTab]
    <3>1. session \in [Sess -> Sessions] /\ tab \in [Tab -> Tabs] /\ jar \in Jars
      BY <2>1, SessionTypes, NewTabType, CookiesType
    <3>2. jar.access = None /\ jar.refresh = None
      BY <2>1 DEF NoCookies
    <3>3. \A s \in Sess : session[s].state = "absent" /\ session[s].token = 0
      BY <2>1 DEF NoSession
    <3> QED BY <2>1, <3>1, <3>2, <3>3
  <2>2. CASE \E a \in Account :
               /\ RoleOf[a] # None
               /\ session = [s \in Sess |-> IF s = FirstSession THEN NewSession(a) ELSE NoSession]
               /\ jar = Cookies(FirstSession, 0, RoleOf[a]) /\ stored = a
               /\ tab = [t \in Tab |-> [NewTab EXCEPT !.page = Home(a), !.user = a]]
    <3>1. PICK a \in Account :
            /\ session = [s \in Sess |-> IF s = FirstSession THEN NewSession(a) ELSE NoSession]
            /\ jar = Cookies(FirstSession, 0, RoleOf[a]) /\ stored = a
            /\ tab = [t \in Tab |-> [NewTab EXCEPT !.page = Home(a), !.user = a]]
      BY <2>2
    <3>2. FirstSession \in Sess /\ RoleOf[a] \in Roles \cup {None}
      BY FirstType, BrowserAssumption DEF BrowserAssumption
    <3>3. session \in [Sess -> Sessions] /\ jar \in Jars
      BY <3>1, <3>2, SessionTypes, CookiesType
    <3>4. [NewTab EXCEPT !.page = Home(a), !.user = a] \in Tabs
      BY NewTabType, HomeType DEF Tabs
    <3>5. /\ session[FirstSession].state = "active" /\ session[FirstSession].account = a
          /\ session[FirstSession].token = 0
          /\ \A s \in Sess \ {FirstSession} : session[s].state = "absent" /\ session[s].token = 0
      BY <3>1, <3>2 DEF NewSession, NoSession
    <3>6. jar.access = FirstSession /\ jar.refresh = <<FirstSession, 0>>
      BY <3>1 DEF Cookies
    <3>7. jar.refresh # None
      BY <3>2, <3>6, BrowserAssumption DEF BrowserAssumption
    <3> QED BY <3>1, <3>2, <3>3, <3>4, <3>5, <3>6, <3>7 DEF Held
  <2> QED BY <2>1, <2>2 DEF Init
<1>3. NoRefresh \in Refreshes /\ Unused \in Calls
  BY NoAnswerType, UnusedType DEF NoRefresh, Refreshes
<1>4. TypeOK
  BY <1>1, <1>2, <1>3 DEF TypeOK
<1>5. /\ \A c \in Call : call[c].phase = "unused" /\ ~Pending(c)
                         /\ refresh[c].answer.status = 0 /\ refresh[c].answer.jar = Keep
      /\ \A c \in Call, s \in Sess : ~Spent(c, s) /\ ~Arriving(c, s) /\ ~SigningIn(c, s)
  BY <1>1 DEF Unused, NoRefresh, NoAnswer, Pending, Spent, Arriving, SigningIn
<1>6. CallsAreOfTabs /\ OwnersKnown /\ RetriesAreUnserved /\ OneRefreshPerTab
  BY <1>1, <1>2, <1>5 DEF CallsAreOfTabs, Underway, OwnersKnown, RetriesAreUnserved, CarriedOnce,
                          OneRefreshPerTab, Awaited
<1>7. AnswersFit
  BY <1>5 DEF AnswersFit, AnswerFits, RefreshFits, Keep
<1>8. TokensIssued
  BY <1>2, <1>5 DEF TokensIssued, Issued
<1>9. NewestIsAlone /\ JarIsNewest /\ SentIsNewest
  BY <1>2, <1>5 DEF NewestIsAlone, JarIsNewest, SentIsNewest, Held
<1>10. OustedWere /\ OustedByOthers /\ SpentIsKnown /\ SignedOutHolds
  BY <1>1, <1>5 DEF OustedWere, OustedByOthers, SpentIsKnown, SignedOutHolds
<1> QED BY <1>4, <1>6, <1>7, <1>8, <1>9, <1>10 DEF IInv

LEMMA QuietStep ==
  ASSUME IInv, TypeOK', Quiet, \A d \in Call : CallGoes(d), UNCHANGED carried
  PROVE  IInv'
  BY QuietProtocol, CallsKept DEF IInv, Protocol

LEMMA CallStep ==
  ASSUME IInv, NEW c \in Call, Proceeds(c)
  PROVE  IInv'
<1>1. CASE ServeLogin(c)
  <2>1. UNCHANGED carried
    BY <1>1 DEF ServeLogin
  <2> QED BY <1>1, <2>1, ServeLoginType, LoginProtocol, CallsKept DEF IInv, Protocol
<1>2. CASE RefuseLogin(c) \/ Unauthenticated(c)
  <2>1. UNCHANGED carried
    BY <1>2 DEF RefuseLogin, Unauthenticated, server
  <2> QED BY <1>2, <2>1, RefusalsQuiet, QuietStep
<1>3. CASE ServeSave(c)
  BY <1>3, ServeSaveQuiet, ServedOnce, QuietProtocol, CallsKept DEF IInv, Protocol
<1>4. CASE ServeLogout(c)
  <2>1. UNCHANGED carried
    BY <1>4 DEF ServeLogout
  <2> QED BY <1>4, <2>1, ServeLogoutQuiet, QuietStep
<1>5. CASE ServePassword(c)
  <2>1. UNCHANGED carried
    BY <1>5 DEF ServePassword
  <2> QED BY <1>5, <2>1, ServePasswordQuiet, QuietStep
<1>6. CASE AwaitRefresh(c)
  <2>1. UNCHANGED carried
    BY <1>6 DEF AwaitRefresh, server
  <2>2. CASE refreshAccessToken(call[c].tab, c) # c
    BY <1>6, <2>1, <2>2, JoinsQuiet, QuietStep
  <2>3. CASE refreshAccessToken(call[c].tab, c) = c
    BY <1>6, <2>1, <2>3, StartsType, StartsProtocol, CallsKept DEF IInv, Protocol
  <2> QED BY <2>2, <2>3
<1>7. CASE Succeed(c)
  <2>1. UNCHANGED carried /\ TypeOK' /\ \A d \in Call : CallGoes(d)
    BY <1>7, SucceedType DEF server
  <2>2. CASE call[c].op \in {"login", "logout"}
    BY <1>7, <2>1, <2>2, SucceedProtocol, CallsKept DEF IInv, Protocol
  <2>3. CASE call[c].op \notin {"login", "logout"}
    BY <1>7, <2>1, <2>3, SavesQuiet, QuietStep
  <2> QED BY <2>2, <2>3
<1>8. CASE Refuse(c)
  <2>1. UNCHANGED carried
    BY <1>8 DEF Refuse, server
  <2> QED BY <1>8, <2>1, RefuseQuiet, QuietStep
<1>9. CASE Lose(c)
  <2>1. UNCHANGED carried
    BY <1>9 DEF Lose, server
  <2> QED BY <1>9, <2>1, LoseQuiet, QuietStep
<1>10. CASE ServeRefresh(c)
  <2>1. /\ refresh[c].phase = "sent"
        /\ UNCHANGED <<carried, jar, tab, call, out, left>>
        /\ Unasked(c) \/ \E s \in Sess : Rotates(c, s) \/ Refuses(c, s)
    BY <1>10, ServeRefreshIs
  <2>2. \E s \in Sess : TRUE
    BY BrowserAssumption DEF BrowserAssumption
  <2>3. Protocol'
    BY <2>1, <2>2, RotatesProtocol, RefusesProtocol
  <2> QED BY <1>10, <2>1, <2>3, ServeRefreshType, CallsKept DEF IInv, Protocol
<1>11. CASE RefreshArrives(c)
  <2>1. UNCHANGED carried /\ TypeOK' /\ \A d \in Call : CallGoes(d)
    BY <1>11, RefreshArrivesType DEF server
  <2> QED BY <1>11, <2>1, RefreshArrivesProtocol, CallsKept DEF IInv, Protocol
<1>12. CASE RefreshLost(c)
  <2>1. UNCHANGED carried /\ TypeOK' /\ \A d \in Call : CallGoes(d)
    BY <1>12, RefreshLostType DEF server
  <2> QED BY <1>12, <2>1, RefreshLostProtocol, CallsKept DEF IInv, Protocol
<1> QED BY <1>1, <1>2, <1>3, <1>4, <1>5, <1>6, <1>7, <1>8, <1>9, <1>10, <1>11, <1>12 DEF Proceeds

LEMMA LoadStep ==
  ASSUME IInv, NEW t \in Tab, Load(t) \/ Visit(t, "/") \/ Visit(t, "/login")
  PROVE  IInv'
<1>1. PICK to \in Pages, hard \in BOOLEAN : Loads(t, to, hard)
  <2>1. tab[t] \in Tabs /\ "/" \in Pages /\ "/login" \in Pages
    BY DEF IInv, TypeOK, Pages, Portals, ROLE_PORTAL_MAP, Roles
  <2>2. Load(t) => tab[t].next \in Pages /\ tab[t].hard \in BOOLEAN
    BY <2>1 DEF Load, Ready, Tabs
  <2> QED BY <2>1, <2>2 DEF Load, Visit
<1>2. TypeOK' /\ (\A d \in Call : CallGoes(d)) /\ UNCHANGED carried
  BY <1>1, LoadsType DEF server
<1> QED BY <1>1, <1>2, LoadsProtocol, CallsKept DEF IInv, Protocol

LEMMA NextInv == IInv /\ [Next]_vars => IInv'
<1> SUFFICES ASSUME IInv, [Next]_vars PROVE IInv'
  OBVIOUS
<1>1. CASE \E c \in Call : Proceeds(c)
  BY <1>1, CallStep
<1>2. CASE \E c \in Call, t \in Tab :
             \/ Save(t, c) \/ SignOut(t, c) \/ ChangePassword(t, c)
             \/ \E a \in Account : SignIn(t, c, a)
  <2>1. PICK c \in Call, t \in Tab :
          \/ Save(t, c) \/ SignOut(t, c) \/ ChangePassword(t, c)
          \/ \E a \in Account : SignIn(t, c, a)
    BY <1>2
  <2>2. UNCHANGED carried
    BY <2>1 DEF Save, SignOut, ChangePassword, SignIn, Sends, server
  <2> QED BY <2>1, <2>2, PageStepsQuiet, QuietStep
<1>3. CASE \/ \E s \in Sess : EndSession(s) \/ RetireToken(s) \/ Lapse(s)
           \/ \E a \in Account : AdminReset(a)
  <2>1. UNCHANGED carried
    BY <1>3 DEF EndSession, RetireToken, Lapse, AdminReset
  <2> QED BY <1>3, <2>1, ElsewhereQuiet, QuietStep
<1>4. CASE \E t \in Tab : Load(t) \/ Visit(t, "/") \/ Visit(t, "/login")
  BY <1>4, LoadStep
<1>5. CASE ExpireAccess
  <2>1. UNCHANGED carried
    BY <1>5 DEF ExpireAccess, server
  <2> QED BY <1>5, <2>1, ExpireQuiet, QuietStep
<1>6. CASE UNCHANGED vars
  <2>1. UNCHANGED <<elsewhere, session, mustChange, carried, jar, stored, tab, call, refresh,
                    ousted, rotated, strayed, out, left>>
    BY <1>6 DEF vars, history
  <2>2. TypeOK' /\ (\A d \in Call : CallGoes(d)) /\ \A d \in Call : CallStays(d)
    BY <2>1 DEF IInv, TypeOK, CallGoes, CallStays
  <2>3. Quiet
    BY <2>1, <2>2, SameSessions DEF IInv, Quiet
  <2> QED BY <2>1, <2>2, <2>3, QuietStep
<1> QED BY <1>1, <1>2, <1>3, <1>4, <1>5, <1>6 DEF Next

-----------------------------------------------------------------------------
(* The theorems *)

\* The strengthening holds in every state: the state has its type, a tab waits
\* for one refresh at a time, and the newest token of a session is in the jar,
\* on its way there, or known to have strayed.
THEOREM BrowserKnowsItsTokens == Spec => []IInv
<1>1. Init => IInv
  BY InitInv
<1>2. IInv /\ [Next]_vars => IInv'
  BY NextInv
<1> QED BY <1>1, <1>2, PTL DEF Spec

\* A call that goes through client.ts is carried out at most once, however often
\* it meets a 401, is retried, aborted or lost.
THEOREM RetriesRepeatNothing == Spec => []CarriedOnce
<1>1. IInv => CarriedOnce
  BY DEF IInv, RetriesAreUnserved
<1> QED BY <1>1, BrowserKnowsItsTokens, PTL

\* A tab does not get itself signed out: its refresh is refused while the session
\* goes on only because of another tab, a lost answer, or later logins.
THEOREM TabsAreOustedByOthers == Spec => []OustedByOthers
<1>1. IInv => OustedByOthers
  BY DEF IInv
<1> QED BY <1>1, BrowserKnowsItsTokens, PTL

\* After a sign-out no late answer signs the browser in again to a session that
\* goes on.
THEOREM SignOutIsFinal == Spec => []SignedOutStaysOut
<1>1. IInv => SignedOutStaysOut
  <2> SUFFICES ASSUME IInv, out, NEW s \in Sess, Active(s),
                      jar.access = s \/ (jar.refresh # None /\ jar.refresh[1] = s)
               PROVE  s \in left
    BY DEF SignedOutStaysOut
  <2>1. s # None
    BY BrowserAssumption DEF BrowserAssumption
  <2>2. Held(s)
    BY <2>1 DEF IInv, TokensIssued, Held
  <2> QED BY <2>2 DEF IInv, SignedOutHolds, Active
<1> QED BY <1>1, BrowserKnowsItsTokens, PTL

-----------------------------------------------------------------------------
(* Waiting for a refresh                                                   *)

NobodyJoins == \A c \in Call : call'[c].phase = "waiting" => call'[c] = call[c]

\* A step that leaves the calls that wait, and what they wait for, alone.
LEMMA CalmPromises ==
  ASSUME IInv, PromisesKept, NobodyJoins,
         \A t \in Tab : tab'[t].refreshPromise = tab[t].refreshPromise,
         \A c \in Call : Pending(c) => Pending(c)',
         \A c \in Call : call[c].phase = "waiting" => call'[c] = call[c]
  PROVE  PromisesKept'
<1>1. \A t \in Tab : tab[t].refreshPromise \in Call \cup {None}
  BY DEF IInv, TypeOK, Tabs
<1>2. \A c \in Call : call[c].phase = "waiting" => call[c].tab \in Tab
  BY DEF IInv, CallsAreOfTabs
<1> QED BY <1>1, <1>2 DEF PromisesKept, NobodyJoins

LEMMA QuietPromises ==
  ASSUME IInv, PromisesKept, NobodyJoins, Quiet
  PROVE  PromisesKept'
<1>1. \A c \in Call : call[c].phase = "waiting" => call'[c] = call[c]
  BY DEF Quiet, CallStays
<1>2. \A c \in Call : Pending(c) => Pending(c)'
  BY DEF Quiet, Pending
<1> QED BY <1>1, <1>2, CalmPromises DEF Quiet

LEMMA ReplaceJoinsNobody ==
  ASSUME IInv, NEW c \in Call, NEW q, call' = [call EXCEPT ![c] = q], q.phase # "waiting"
  PROVE  NobodyJoins
<1>1. call'[c] = q /\ \A d \in Call \ {c} : call'[d] = call[d]
  BY DEF IInv, TypeOK
<1> QED BY <1>1 DEF NobodyJoins

LEMMA EndsJoinsNobody ==
  ASSUME IInv, NEW c \in Call, NEW phase \in {"done", "refused", "lost"}, Ends(c, phase)
  PROVE  NobodyJoins
<1>1. Ended(c, phase).phase = phase
  BY EndedType DEF IInv
<1> QED BY <1>1, ReplaceJoinsNobody DEF Ends

LEMMA AnswersJoinsNobody ==
  ASSUME IInv, NEW c \in Call, NEW status, NEW change, Answers(c, status, change)
  PROVE  NobodyJoins
<1> DEFINE reply == [call[c] EXCEPT !.phase = "answered", !.with = NoCookies,
                       !.answer = [status |-> status, jar |-> change, must |-> call[c].account \in mustChange]]
<1>1. reply.phase = "answered"
  BY DEF IInv, TypeOK, Calls
<1>2. Ended(c, "lost").phase = "lost"
  BY EndedType DEF IInv
<1>3. call' = [call EXCEPT ![c] = Ended(c, "lost")] \/ call' = [call EXCEPT ![c] = reply]
  BY DEF Answers
<1> HIDE DEF reply
<1> QED BY <1>1, <1>2, <1>3, ReplaceJoinsNobody

\* The steps of the server, the network and the pages that start and end no wait.
LEMMA ServedPromises ==
  ASSUME IInv, PromisesKept, NEW c \in Call,
         \/ ServeLogin(c) \/ RefuseLogin(c) \/ Unauthenticated(c) \/ ServeSave(c) \/ ServeLogout(c) \/ ServePassword(c)
         \/ Succeed(c) \/ Refuse(c) \/ Lose(c)
  PROVE  PromisesKept'
<1>1. NobodyJoins
  BY AnswersJoinsNobody, EndsJoinsNobody
     DEF ServeLogin, RefuseLogin, Unauthenticated, ServeSave, ServeLogout, ServePassword, Succeed, Refuse, Lose, Ends, GivenUp
<1>2. CASE ServeLogin(c)
  <2>1. call[c].phase \in {"sent", "aborted"} /\ UNCHANGED <<tab, refresh>> /\ \A d \in Call \ {c} : call'[d] = call[d]
    BY <1>2 DEF ServeLogin, Reaches, Answers, IInv, TypeOK
  <2> QED BY <1>1, <2>1, CalmPromises DEF Pending
<1>3. CASE RefuseLogin(c) \/ Unauthenticated(c) \/ ServeSave(c) \/ ServeLogout(c) \/ ServePassword(c)
  BY <1>1, <1>3, RefusalsQuiet, ServeSaveQuiet, ServeLogoutQuiet, ServePasswordQuiet, QuietPromises
<1>4. CASE Succeed(c)
  <2>1. /\ call[c].phase = "answered" /\ UNCHANGED refresh /\ \A d \in Call \ {c} : call'[d] = call[d]
        /\ \A t \in Tab : tab'[t].refreshPromise = tab[t].refreshPromise
    BY <1>4, SucceedType
  <2> QED BY <1>1, <2>1, CalmPromises DEF Pending
<1>5. CASE Refuse(c) \/ Lose(c)
  BY <1>1, <1>5, RefuseQuiet, LoseQuiet, QuietPromises
<1> QED BY <1>2, <1>3, <1>4, <1>5

\* A call that meets a 401 waits for the refresh of its tab, an old one or its own.
LEMMA JoinsPromises ==
  ASSUME IInv, PromisesKept, NEW c \in Call, AwaitRefresh(c), refreshAccessToken(call[c].tab, c) # c
  PROVE  PromisesKept'
<1> DEFINE t == call[c].tab
           d == tab[t].refreshPromise
           q == [call[c] EXCEPT !.phase = "waiting", !.awaits = d, !.answer = NoAnswer]
<1>1. call[c].phase = "answered" /\ d # None /\ call' = [call EXCEPT ![c] = q] /\ UNCHANGED refresh
  BY DEF AwaitRefresh, refreshAccessToken
<1>2. t \in Tab /\ tab[t] \in Tabs /\ call[c] \in Calls /\ call \in [Call -> Calls]
  BY <1>1, CallIsOfTab DEF IInv, TypeOK
<1>3. q.phase = "waiting" /\ q.awaits = d /\ q.tab = t
  BY <1>2 DEF Calls
<1>4. call'[c] = q /\ \A e \in Call \ {c} : call'[e] = call[e]
  BY <1>1, <1>2
<1>5. \A u \in Tab : tab'[u].refreshPromise = tab[u].refreshPromise
  BY JoinsQuiet DEF Quiet
<1>6. \A u \in Tab : tab[u].refreshPromise \in Call \cup {None}
  BY DEF IInv, TypeOK, Tabs
<1>7. \A e \in Call : call[e].phase = "waiting" => call[e].tab \in Tab
  BY DEF IInv, CallsAreOfTabs
<1> HIDE DEF q
<1>8. ASSUME NEW u \in Tab, NEW e, e = tab'[u].refreshPromise, e # None
      PROVE  Pending(e)' /\ call'[e].phase = "waiting" /\ call'[e].tab = u
  <2>1. e \in Call /\ Pending(e) /\ call[e].phase = "waiting" /\ call[e].tab = u
    BY <1>5, <1>6, <1>8 DEF PromisesKept
  <2> QED BY <1>1, <1>4, <2>1 DEF Pending
<1>9. ASSUME NEW e \in Call, call'[e].phase = "waiting"
      PROVE  call'[e].awaits # None /\ tab'[call'[e].tab].refreshPromise = call'[e].awaits
  <2>1. CASE e = c
    BY <1>1, <1>2, <1>3, <1>4, <1>5, <2>1
  <2>2. CASE e # c
    BY <1>4, <1>5, <1>7, <1>9, <2>2 DEF PromisesKept
  <2> QED BY <2>1, <2>2
<1> QED BY <1>8, <1>9 DEF PromisesKept

LEMMA StartsPromises ==
  ASSUME IInv, PromisesKept, NEW c \in Call, AwaitRefresh(c), refreshAccessToken(call[c].tab, c) = c
  PROVE  PromisesKept'
<1> DEFINE t == call[c].tab
<1>1. /\ call[c].phase = "answered" /\ call'[c].phase = "waiting" /\ call'[c].awaits = c
      /\ call'[c].tab = t
      /\ \A d \in Call \ {c} : call'[d] = call[d] /\ refresh'[d] = refresh[d]
      /\ refresh'[c].phase = "sent"
      /\ t \in Tab /\ tab[t].refreshPromise \in {None, c}
      /\ tab'[t].refreshPromise = c
      /\ \A u \in Tab \ {t} : tab'[u] = tab[u]
  BY StartsType
<1>2. \A u \in Tab : tab[u].refreshPromise \in Call \cup {None}
  BY DEF IInv, TypeOK, Tabs
<1>3. \A e \in Call : call[e].phase = "waiting" => call[e].tab \in Tab
  BY DEF IInv, CallsAreOfTabs
<1>4. tab[t].refreshPromise = None
  BY <1>1 DEF PromisesKept
<1>5. c # None
  BY BrowserAssumption DEF BrowserAssumption
<1> HIDE DEF t
<1>6. ASSUME NEW u \in Tab, NEW e, e = tab'[u].refreshPromise, e # None
      PROVE  Pending(e)' /\ call'[e].phase = "waiting" /\ call'[e].tab = u
  <2>1. CASE u = t
    BY <1>1, <1>6, <2>1 DEF Pending
  <2>2. CASE u # t
    <3>1. e \in Call /\ Pending(e) /\ call[e].phase = "waiting" /\ call[e].tab = u
      BY <1>1, <1>2, <1>6, <2>2 DEF PromisesKept
    <3> QED BY <1>1, <3>1 DEF Pending
  <2> QED BY <2>1, <2>2
<1>7. ASSUME NEW e \in Call, call'[e].phase = "waiting"
      PROVE  call'[e].awaits # None /\ tab'[call'[e].tab].refreshPromise = call'[e].awaits
  <2>1. CASE e = c
    BY <1>1, <1>5, <2>1
  <2>2. CASE e # c
    <3>1. call[e].phase = "waiting" /\ call'[e] = call[e]
      BY <1>1, <1>7, <2>2
    <3>2. call[e].tab \in Tab \ {t}
      BY <1>3, <1>4, <3>1 DEF PromisesKept
    <3> QED BY <1>1, <3>1, <3>2 DEF PromisesKept
  <2> QED BY <2>1, <2>2
<1> QED BY <1>6, <1>7 DEF PromisesKept

\* The end of a refresh is the end of its tab's wait.
LEMMA RefreshedFrees ==
  ASSUME IInv, NEW c \in Call, Pending(c), NEW ok \in BOOLEAN, Refreshed(c, ok),
         tab[call[c].tab].refreshPromise = c
  PROVE  /\ tab'[call[c].tab].refreshPromise = None
         /\ \A u \in Tab \ {call[c].tab} : tab'[u] = tab[u]
<1> DEFINE t == call[c].tab
           sent == IF ok \/ Waiters(c) = {} THEN tab[t] ELSE SentToLogin(t)
           freed == [sent EXCEPT !.refreshPromise = IF @ = c THEN None ELSE @]
           settled == [tab EXCEPT ![t] = freed]
<1>1. TypeOK /\ t \in Tab /\ tab[t] \in Tabs
  BY RefresherIsOfTab DEF IInv, TypeOK
<1>2. sent \in Tabs /\ sent.refreshPromise = tab[t].refreshPromise
  BY <1>1, TabTypes, LoginIsAPage DEF SentToLogin
<1>3. freed \in Tabs /\ freed.refreshPromise = None
  <2> HIDE DEF sent
  <2> QED BY <1>2 DEF Tabs
<1>4. settled \in [Tab -> Tabs] /\ settled[t].refreshPromise = None /\ \A u \in Tab \ {t} : settled[u] = tab[u]
  <2> HIDE DEF freed
  <2> QED BY <1>1, <1>3 DEF TypeOK
<1>5. tab' = Forgets(settled, t) \/ tab' = settled
  BY DEF Refreshed
<1> HIDE DEF settled, t
<1>6. CASE tab' = Forgets(settled, t)
  <2>1. \A u \in Tab \ {t} : tab'[u] = settled[u]
    BY <1>1, <1>4, <1>6 DEF Forgets
  <2> QED BY <1>1, <1>4, <1>6, <2>1, ForgetsType DEF t
<1> QED BY <1>4, <1>5, <1>6 DEF t

LEMMA RefreshedPromises ==
  ASSUME IInv, PromisesKept, NEW c \in Call, Pending(c), NEW ok \in BOOLEAN, Refreshed(c, ok), jar' \in Jars
  PROVE  PromisesKept'
<1>1. /\ \A d \in Call \ {c} : refresh'[d] = refresh[d]
      /\ \A d \in Call : d \notin Waiters(c) => call'[d] = call[d]
      /\ \A d \in Waiters(c) : call'[d].phase \in {"sent", "refused"}
      /\ \A u \in Tab : tab'[u].refreshPromise = tab[u].refreshPromise \/ tab[u].refreshPromise = c
  BY RefreshedType
<1>2. \A u \in Tab : tab[u].refreshPromise \in Call \cup {None}
  BY DEF IInv, TypeOK, Tabs
<1>3. \A e \in Call : call[e].phase = "waiting" => call[e].tab \in Tab
  BY DEF IInv, CallsAreOfTabs
<1>4. \A u \in Tab : tab'[u].refreshPromise = IF tab[u].refreshPromise = c THEN None ELSE tab[u].refreshPromise
  <2> SUFFICES ASSUME NEW u \in Tab, tab[u].refreshPromise = c PROVE tab'[u].refreshPromise = None
    BY <1>1
  <2>1. call[c].tab = u
    BY BrowserAssumption DEF BrowserAssumption, PromisesKept
  <2> QED BY <2>1, RefreshedFrees
<1>5. ASSUME NEW u \in Tab, NEW e, e = tab'[u].refreshPromise, e # None
      PROVE  Pending(e)' /\ call'[e].phase = "waiting" /\ call'[e].tab = u
  <2>1. e = tab[u].refreshPromise /\ e # c /\ e \in Call
    BY <1>2, <1>4, <1>5
  <2>2. Pending(e) /\ call[e].phase = "waiting" /\ call[e].tab = u
    BY <2>1, <1>5 DEF PromisesKept
  <2>3. call[e].awaits = e
    BY <2>1, <2>2 DEF PromisesKept
  <2>4. e \notin Waiters(c)
    BY <2>1, <2>3 DEF Waiters
  <2> QED BY <1>1, <2>1, <2>2, <2>4 DEF Pending
<1>6. ASSUME NEW e \in Call, call'[e].phase = "waiting"
      PROVE  call'[e].awaits # None /\ tab'[call'[e].tab].refreshPromise = call'[e].awaits
  <2>1. e \notin Waiters(c) /\ call'[e] = call[e]
    BY <1>1, <1>6
  <2>2. call[e].awaits # None /\ tab[call[e].tab].refreshPromise = call[e].awaits /\ call[e].tab \in Tab
    BY <1>3, <1>6, <2>1 DEF PromisesKept
  <2>3. call[e].awaits # c
    BY <1>6, <2>1 DEF Waiters
  <2> QED BY <1>4, <2>1, <2>2, <2>3
<1> QED BY <1>5, <1>6 DEF PromisesKept

\* A new document waits for nothing, and the old one's calls are aborted.
LEMMA LoadsPromises ==
  ASSUME IInv, PromisesKept, NEW t \in Tab, NEW to \in Pages, NEW hard \in BOOLEAN, Loads(t, to, hard)
  PROVE  PromisesKept'
<1>1. /\ \A u \in Tab \ {t} : tab'[u] = tab[u]
      /\ tab'[t].refreshPromise = IF hard THEN None ELSE tab[t].refreshPromise
      /\ \A c \in Call : c \notin LeftBehind(t, hard) => call'[c] = call[c]
      /\ \A c \in LeftBehind(t, hard) : call'[c].phase \in {"aborted", "lost"}
      /\ UNCHANGED refresh
  BY LoadsType
<1>2. \A u \in Tab : tab[u].refreshPromise \in Call \cup {None}
  BY DEF IInv, TypeOK, Tabs
<1>3. \A e \in Call : call[e].phase = "waiting" => call[e].tab \in Tab
  BY DEF IInv, CallsAreOfTabs
<1>4. ASSUME NEW u \in Tab, NEW e, e = tab'[u].refreshPromise, e # None
      PROVE  Pending(e)' /\ call'[e].phase = "waiting" /\ call'[e].tab = u
  <2>1. e = tab[u].refreshPromise /\ e \in Call /\ (u = t => ~hard)
    BY <1>1, <1>2, <1>4
  <2>2. Pending(e) /\ call[e].phase = "waiting" /\ call[e].tab = u
    BY <2>1, <1>4 DEF PromisesKept
  <2>3. e \notin LeftBehind(t, hard)
    BY <2>1, <2>2 DEF LeftBehind
  <2> QED BY <1>1, <2>1, <2>2, <2>3 DEF Pending
<1>5. ASSUME NEW e \in Call, call'[e].phase = "waiting"
      PROVE  call'[e].awaits # None /\ tab'[call'[e].tab].refreshPromise = call'[e].awaits
  <2>1. e \notin LeftBehind(t, hard) /\ call'[e] = call[e]
    BY <1>1, <1>5
  <2>2. call[e].awaits # None /\ tab[call[e].tab].refreshPromise = call[e].awaits /\ call[e].tab \in Tab
    BY <1>3, <1>5, <2>1 DEF PromisesKept
  <2>3. call[e].tab = t => ~hard
    BY <1>5, <2>1 DEF LeftBehind, InFlight
  <2> QED BY <1>1, <2>1, <2>2, <2>3
<1> QED BY <1>4, <1>5 DEF PromisesKept

LEMMA ServeRefreshKeeps ==
  ASSUME IInv, NEW c \in Call, ServeRefresh(c), NEW d \in Call, Pending(d)
  PROVE  Pending(d)'
<1>1. ASSUME NEW status, NEW change, AnswersRefresh(c, status, change) PROVE Pending(d)'
  <2> DEFINE q == [refresh[c] EXCEPT !.phase = "answered", !.answer = [NoAnswer EXCEPT !.status = status, !.jar = change]]
  <2>1. refresh' = [refresh EXCEPT ![c] = q] /\ q.phase = "answered"
    BY <1>1 DEF AnswersRefresh, IInv, TypeOK, Refreshes
  <2> HIDE DEF q
  <2> QED BY <2>1 DEF IInv, TypeOK, Pending
<1> QED BY <1>1 DEF ServeRefresh

LEMMA NextPromises ==
  ASSUME IInv, PromisesKept, [Next]_vars
  PROVE  PromisesKept'
<1>1. ASSUME NEW c \in Call, Proceeds(c) PROVE PromisesKept'
  <2>1. CASE AwaitRefresh(c)
    BY <2>1, JoinsPromises, StartsPromises
  <2>2. CASE ServeRefresh(c)
    <3>1. UNCHANGED <<tab, call>>
      BY <2>2 DEF ServeRefresh
    <3>2. ASSUME NEW d \in Call, Pending(d) PROVE Pending(d)'
      BY <2>2, <3>2, ServeRefreshKeeps
    <3> QED BY <3>1, <3>2, CalmPromises DEF NobodyJoins
  <2>3. CASE RefreshArrives(c)
    <3>1. Pending(c) /\ jar' \in Jars
      BY <2>3, RefreshArrivesType DEF TypeOK
    <3>2. (refresh[c].answer.status = 200) \in BOOLEAN /\ Refreshed(c, refresh[c].answer.status = 200)
      BY <2>3 DEF RefreshArrives
    <3> QED BY <3>1, <3>2, RefreshedPromises
  <2>4. CASE RefreshLost(c)
    <3>1. Pending(c) /\ jar' \in Jars /\ Refreshed(c, FALSE)
      BY <2>4, RefreshLostType DEF TypeOK, RefreshLost
    <3> QED BY <3>1, RefreshedPromises
  <2> QED BY <1>1, <2>1, <2>2, <2>3, <2>4, ServedPromises DEF Proceeds
<1>2. ASSUME NEW c \in Call, NEW t \in Tab,
             \/ Save(t, c) \/ SignOut(t, c) \/ ChangePassword(t, c)
             \/ \E a \in Account : SignIn(t, c, a)
      PROVE  PromisesKept'
  <2>1. PICK op, a : Sends(t, c, op, a)
    BY <1>2 DEF Save, SignOut, ChangePassword, SignIn
  <2> DEFINE q == [Unused EXCEPT !.tab = t, !.op = op, !.account = a, !.phase = "sent", !.with = jar]
  <2>2. q.phase = "sent" /\ call' = [call EXCEPT ![c] = q]
    BY <2>1 DEF Sends, Unused
  <2> HIDE DEF q
  <2>3. NobodyJoins
    BY <2>2, ReplaceJoinsNobody
  <2> QED BY <1>2, <2>3, PageStepsQuiet, QuietPromises
<1>3. CASE \/ \E s \in Sess : EndSession(s) \/ RetireToken(s) \/ Lapse(s)
           \/ \E a \in Account : AdminReset(a)
           \/ ExpireAccess
  <2>1. UNCHANGED <<tab, call, refresh>>
    BY <1>3 DEF EndSession, RetireToken, Lapse, AdminReset, ExpireAccess
  <2> QED BY <2>1, CalmPromises DEF NobodyJoins, Pending
<1>4. ASSUME NEW t \in Tab, Load(t) \/ Visit(t, "/") \/ Visit(t, "/login") PROVE PromisesKept'
  <2>1. tab[t] \in Tabs /\ "/" \in Pages /\ "/login" \in Pages
    BY DEF IInv, TypeOK, Pages, Portals, ROLE_PORTAL_MAP, Roles
  <2>2. Load(t) => tab[t].next \in Pages /\ tab[t].hard \in BOOLEAN
    BY <2>1 DEF Load, Ready, Tabs
  <2> QED BY <1>4, <2>1, <2>2, LoadsPromises DEF Load, Visit
<1>5. CASE UNCHANGED vars
  <2>1. UNCHANGED <<tab, call, refresh>>
    BY <1>5 DEF vars
  <2> QED BY <2>1, CalmPromises DEF NobodyJoins, Pending
<1> QED BY <1>1, <1>2, <1>3, <1>4, <1>5 DEF Next

\* However refreshes and navigations overlap, no call is left waiting for a refresh
\* that is over or that its tab has forgotten: each gets the answer of the one
\* refresh its tab waits for, or goes with its document.
THEOREM NobodyIsLeftWaiting == Spec => []PromisesKept
<1>1. Init => PromisesKept
  <2>1. ASSUME Init, NEW t \in Tab PROVE tab[t].refreshPromise = None
    <3>1. NewTab.refreshPromise = None
      BY DEF NewTab
    <3>2. ASSUME NEW a \in Account PROVE [NewTab EXCEPT !.page = Home(a), !.user = a].refreshPromise = None
      BY DEF NewTab
    <3>3. tab[t] = NewTab \/ \E a \in Account : tab[t] = [NewTab EXCEPT !.page = Home(a), !.user = a]
      BY <2>1 DEF Init
    <3> QED BY <3>1, <3>2, <3>3
  <2>2. ASSUME Init, NEW c \in Call PROVE call[c].phase # "waiting"
    BY <2>2 DEF Init, Unused
  <2> QED BY <2>1, <2>2 DEF PromisesKept
<1> QED BY <1>1, NextPromises, BrowserKnowsItsTokens, PTL DEF Spec
=============================================================================

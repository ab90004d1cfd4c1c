------------------------------- MODULE Browser -------------------------------
(***************************************************************************)
(* A browser with Mentorio open in some tabs: the cookie jar the tabs      *)
(* share, the calls each tab makes (lib/api/client.ts) with the refresh    *)
(* and the one retry behind a 401, the pages that sign in, sign out and    *)
(* replace a temporary password, and the proxy every page load goes        *)
(* through (proxy.ts).  The backend is what auth_custom/views and          *)
(* common/authentication promise a caller, each request in one step;       *)
(* module Sessions has its steps.                                          *)
(*                                                                         *)
(* A portal stands for all of its pages.  The network may lose a request   *)
(* or its answer and answers overtake one another.                         *)
(***************************************************************************)
EXTENDS Naturals, FiniteSets

CONSTANTS Tab,
          Call,      \* the calls of a behaviour, each used once
          Sess,      \* rows of auth.sessions
          Account, RoleOf,
          Elsewhere, \* what may happen to sessions apart from this browser
          None

Roles == {"super_admin", "center_admin", "admin", "teacher", "student"}

ASSUME BrowserAssumption ==
  /\ RoleOf \in [Account -> Roles \cup {None}]
  /\ Elsewhere \subseteq {"ended", "retired", "lapsed", "reset"}
  /\ None \notin Roles \cup Tab \cup Call \cup Sess \cup Account
  /\ None \notin Sess \X Nat /\ None # "/login" /\ None # "/change-password" /\ Sess # {}

\* Role slug to portal.
ROLE_PORTAL_MAP ==
  [super_admin |-> "/super-admin", center_admin |-> "/", admin |-> "/", teacher |-> "/teacher", student |-> "/student"]

Portals == {ROLE_PORTAL_MAP[r] : r \in Roles}
Home(a) == IF RoleOf[a] = None THEN "/login" ELSE ROLE_PORTAL_MAP[RoleOf[a]]
Pages == Portals \cup {"/login", "/change-password"}

VARIABLES
  elsewhere,   \* what has happened to sessions apart from this browser
  session,     \* server: the sessions, each with its newest refresh token
  mustChange,  \* server: the accounts on a password an administrator picked
  carried,     \* server: how often a call was carried out
  jar,         \* the cookies access_token, refresh_token and user_role
  stored,      \* the user in localStorage
  tab,
  call,
  refresh,     \* the refresh request each call has started
  ousted,      \* history: <<t, s>>: the refresh of tab t was refused while
               \* session s, which its token is of, went on
  rotated,     \* history: the tabs that have had a token of the session rotated
  strayed,     \* history: sessions whose rotated token never reached the jar
  out,         \* history: the last sign-in or sign-out answered was a sign-out
  left         \* history: sessions whose cookies left the jar in another way than
               \* by signing out of them

server == <<elsewhere, session, mustChange, carried>>
history == <<ousted, rotated, strayed, out, left>>
vars == <<elsewhere, session, mustChange, carried, jar, stored, tab, call, refresh, history>>

NoSession == [account |-> None, state |-> "absent", lapsed |-> FALSE, token |-> 0, usable |-> FALSE]

NoCookies == [access |-> None, refresh |-> None, role |-> None]

Cookies(s, n, role) == [access |-> s, refresh |-> <<s, n>>, role |-> role]

Tokens == Sess \X Nat
Jars == [access: Sess \cup {None}, refresh: Tokens \cup {None}, role: Roles \cup {None}]

\* What an answer does to the jar, and the session it is about.
Keep == [sets |-> "nothing", of |-> None, cookies |-> NoCookies]
Clear(s) == [sets |-> "cleared", of |-> s, cookies |-> NoCookies]
Set(s, n, a) == [sets |-> "cookies", of |-> s, cookies |-> Cookies(s, n, RoleOf[a])]

NoAnswer == [status |-> 0, jar |-> Keep, must |-> FALSE]

NewTab == [page |-> "/login", next |-> None, hard |-> FALSE, user |-> None, refreshPromise |-> None]

Unused == [tab |-> None, op |-> "none", account |-> None, phase |-> "unused", retry |-> FALSE,
           with |-> NoCookies, awaits |-> None, answer |-> NoAnswer]

NoRefresh == [phase |-> "idle", token |-> None, answer |-> NoAnswer]

FirstSession == CHOOSE s \in Sess : TRUE

NewSession(a) == [NoSession EXCEPT !.account = a, !.state = "active", !.usable = TRUE]

\* Nobody has signed in yet, or somebody has and every tab shows the portal.
Init ==
  /\ \/ /\ session = [s \in Sess |-> NoSession]
        /\ jar = NoCookies /\ stored = None
        /\ tab = [t \in Tab |-> NewTab]
     \/ \E a \in Account :
          /\ RoleOf[a] # None
          /\ session = [s \in Sess |-> IF s = FirstSession THEN NewSession(a) ELSE NoSession]
          /\ jar = Cookies(FirstSession, 0, RoleOf[a]) /\ stored = a
          /\ tab = [t \in Tab |-> [NewTab EXCEPT !.page = Home(a), !.user = a]]
  /\ elsewhere = "nothing" /\ mustChange = {} /\ carried = [c \in Call |-> 0]
  /\ call = [c \in Call |-> Unused]
  /\ refresh = [c \in Call |-> NoRefresh]
  /\ ousted = {} /\ rotated = [s \in Sess |-> {}] /\ strayed = {} /\ out = FALSE /\ left = {}

-----------------------------------------------------------------------------
(* The server *)

Active(s) == session[s].state = "active"

\* SessionValidatingJWTAuthentication: a live row, not past its expires_at.
Authenticates(s) == s # None /\ Active(s) /\ ~session[s].lapsed

Finish(S) == [s \in Sess |-> IF s \in S /\ Active(s) THEN [session[s] EXCEPT !.state = "ended"] ELSE session[s]]

Of(a) == {s \in Sess : session[s].account = a}

\* What is remembered of a call that has ended, or is not waited for any more.
EndedWith(c, phase, status) ==
  [call[c] EXCEPT !.account = None, !.phase = phase, !.with = NoCookies, !.awaits = None,
                  !.answer = [NoAnswer EXCEPT !.status = status]]

Ended(c, phase) == EndedWith(c, phase, call[c].answer.status)

Ends(c, phase) == call' = [call EXCEPT ![c] = Ended(c, phase)]

\* A request reaches the server, whether or not its page is still there.
Reaches(c, op) == call[c].phase \in {"sent", "aborted"} /\ call[c].op = op

Answers(c, status, cookies) ==
  call' = [call EXCEPT ![c] =
    IF @.phase = "aborted" THEN Ended(c, "lost")
    ELSE [@ EXCEPT !.phase = "answered", !.with = NoCookies,
            !.answer = [status |-> status, jar |-> cookies, must |-> call[c].account \in mustChange]]]

FreshSession == CHOOSE s \in Sess : session[s].state = "absent"

\* LoginView: the password is right ...
ServeLogin(c) ==
  /\ Reaches(c, "login") /\ \E s \in Sess : session[s].state = "absent"
  /\ LET s == FreshSession IN
     /\ session' = [session EXCEPT ![s] = NewSession(call[c].account)]
     /\ Answers(c, 200, Set(s, 0, call[c].account))
  /\ UNCHANGED <<elsewhere, mustChange, carried, jar, stored, tab, refresh, history>>

\* ... or not.
RefuseLogin(c) ==
  /\ Reaches(c, "login")
  /\ Answers(c, 401, Keep)
  /\ UNCHANGED <<server, jar, stored, tab, refresh, history>>

Unauthenticated(c) ==
  /\ \E op \in {"save", "logout", "password"} : Reaches(c, op)
  /\ ~Authenticates(call[c].with.access)
  /\ Answers(c, 401, Keep)
  /\ UNCHANGED <<server, jar, stored, tab, refresh, history>>

\* Any call of a portal, a read or a write.
ServeSave(c) ==
  LET s == call[c].with.access IN
  /\ Reaches(c, "save") /\ Authenticates(s)
  /\ IF session[s].account \in mustChange
     THEN Answers(c, 403, Keep) /\ UNCHANGED carried
     ELSE Answers(c, 200, Keep) /\ carried' = [carried EXCEPT ![c] = @ + 1]
  /\ UNCHANGED <<elsewhere, session, mustChange, jar, stored, tab, refresh, history>>

\* Fault: only the refresh token is revoked.
TokenOnly(c) ==
  LET k == call[c].with.refresh IN
  [s \in Sess |-> IF k # None /\ k = <<s, session[s].token>> THEN [session[s] EXCEPT !.usable = FALSE] ELSE session[s]]

\* LogoutView revokes the refresh token of the request and ends its session.
SignedOut(c) ==
  [s \in Sess |-> IF s = call[c].with.access THEN [TokenOnly(c)[s] EXCEPT !.state = "ended"] ELSE TokenOnly(c)[s]]

ServeLogout(c) ==
  /\ Reaches(c, "logout") /\ Authenticates(call[c].with.access)
  /\ session' = SignedOut(c)
  /\ Answers(c, 200, Clear(call[c].with.access))
  /\ UNCHANGED <<elsewhere, mustChange, carried, jar, stored, tab, refresh, history>>

\* The PATCH of one's own record replaces the password and ends the other
\* sessions; of another's, or with a wrong password, it is refused.
ServePassword(c) ==
  LET s == call[c].with.access  a == call[c].account IN
  /\ Reaches(c, "password") /\ Authenticates(s)
  /\ \/ /\ session[s].account = a
        /\ mustChange' = mustChange \ {a}
        /\ session' = Finish(Of(a) \ {s})
        /\ Answers(c, 200, Keep)
     \/ Answers(c, 400, Keep) /\ UNCHANGED <<session, mustChange>>
  /\ UNCHANGED <<elsewhere, carried, jar, stored, tab, refresh, history>>

\* The document that asked is gone.
Orphaned(c) == call[c].phase # "waiting"

AnswersRefresh(c, status, cookies) ==
  refresh' = [refresh EXCEPT ![c] = [@ EXCEPT !.phase = "answered", !.answer = [NoAnswer EXCEPT !.status = status, !.jar = cookies]]]

\* RefreshView: rotate_tokens takes the newest token of a live session, expired
\* or not, once; it refuses any other and clears the cookies.
ServeRefresh(c) ==
  LET k == refresh[c].token IN
  /\ refresh[c].phase = "sent"
  /\ \/ /\ k = None
        /\ AnswersRefresh(c, 401, Keep)
        /\ UNCHANGED <<session, ousted, rotated, strayed>>
     \/ \E s \in Sess :
          /\ k = <<s, session[s].token>> /\ Active(s) /\ session[s].usable
          /\ session' = [session EXCEPT ![s].token = @ + 1]
          /\ rotated' = [rotated EXCEPT ![s] = @ \cup {call[c].tab}]
          /\ AnswersRefresh(c, 200, Set(s, session[s].token + 1, session[s].account))
          /\ strayed' = IF Orphaned(c) THEN strayed \cup {s} ELSE strayed
          /\ UNCHANGED ousted
     \/ \E s \in Sess :
          /\ k # None /\ k[1] = s
          /\ ~(k[2] = session[s].token /\ Active(s) /\ session[s].usable)
          /\ ousted' = IF Active(s) /\ ~Orphaned(c) THEN ousted \cup {<<call[c].tab, s>>} ELSE ousted
          /\ AnswersRefresh(c, 401, Clear(None))
          /\ UNCHANGED <<session, rotated, strayed>>
  /\ UNCHANGED <<elsewhere, mustChange, carried, jar, stored, tab, call, out, left>>

\* Bound: one kind of thing happens elsewhere in a behaviour.
Happens(kind) == kind \in Elsewhere /\ elsewhere \in {"nothing", kind} /\ elsewhere' = kind

\* Elsewhere: the session is revoked from another device, ...
EndSession(s) ==
  /\ Happens("ended") /\ Active(s)
  /\ session' = Finish({s})
  /\ UNCHANGED <<mustChange, carried, jar, stored, tab, call, refresh, history>>

\* ... later logins push its token out (_enforce_max_active_tokens), ...
RetireToken(s) ==
  /\ Happens("retired") /\ Active(s) /\ session[s].usable
  /\ session' = [session EXCEPT ![s].usable = FALSE]
  /\ UNCHANGED <<mustChange, carried, jar, stored, tab, call, refresh, history>>

\* ... thirty days after the login the session is past its expires_at, ...
Lapse(s) ==
  /\ Happens("lapsed") /\ Active(s) /\ ~session[s].lapsed
  /\ session' = [session EXCEPT ![s].lapsed = TRUE]
  /\ UNCHANGED <<mustChange, carried, jar, stored, tab, call, refresh, history>>

\* ... an administrator resets the password.
AdminReset(a) ==
  /\ Happens("reset") /\ a \notin mustChange
  /\ mustChange' = mustChange \cup {a}
  /\ session' = Finish(Of(a))
  /\ UNCHANGED <<carried, jar, stored, tab, call, refresh, history>>

-----------------------------------------------------------------------------
(* The cookie jar *)

\* A role-less answer leaves the role cookie as it is (set_auth_cookies).
JarAfter(change) ==
  IF change.sets = "nothing" THEN jar
  ELSE IF change.sets = "cleared" THEN NoCookies
  ELSE [change.cookies EXCEPT !.role = IF @ = None THEN jar.role ELSE @]

\* The session whose cookies an answer about another one replaces.
Dropped(change) ==
  IF change.sets = "nothing" \/ jar.refresh = None THEN {} ELSE {jar.refresh[1]} \ {change.of}

SetsCookies(change) == jar' = JarAfter(change) /\ left' = left \cup Dropped(change)

\* After 15 minutes the access token is gone.
ExpireAccess ==
  /\ jar.access # None
  /\ jar' = [jar EXCEPT !.access = None]
  /\ UNCHANGED <<server, stored, tab, call, refresh, history>>

-----------------------------------------------------------------------------
(* A tab *)

NextCall == CHOOSE c \in Call : call[c].phase = "unused"
InFlight(c) == call[c].phase \in {"sent", "answered", "waiting"}
Ready(t) == tab[t].next = None

Sends(t, c, op, a) ==
  /\ Ready(t) /\ call[c].phase = "unused" /\ c = NextCall
  /\ call' = [call EXCEPT ![c] = [Unused EXCEPT !.tab = t, !.op = op, !.account = a, !.phase = "sent", !.with = jar]]
  /\ UNCHANGED <<server, jar, stored, tab, refresh, history>>

\* The button is disabled while a sign-in is under way.
SignIn(t, c, a) ==
  /\ tab[t].page = "/login" /\ \A d \in Call : ~(InFlight(d) /\ call[d].tab = t /\ call[d].op = "login")
  /\ Sends(t, c, "login", a)

Save(t, c) == tab[t].page \in Portals /\ Sends(t, c, "save", None)

SignOut(t, c) == tab[t].page # "/login" /\ Sends(t, c, "logout", None)

ChangePassword(t, c) ==
  /\ tab[t].page = "/change-password" /\ tab[t].user # None
  /\ Sends(t, c, "password", tab[t].user)

\* proxy(): /login is public; without a session and a role, back to it and the
\* cookies are deleted; a signed-in user has one portal.
SignedIn == (jar.access # None \/ jar.refresh # None) /\ jar.role # None

Landing(page) ==
  IF page = "/login" \/ ~SignedIn THEN "/login"
  ELSE IF page = "/change-password" THEN page
  ELSE ROLE_PORTAL_MAP[jar.role]

\* A page is loaded through the proxy.  A hard navigation starts a new document:
\* the calls of the old one are aborted, the user is read from localStorage.
Loads(t, to, hard) ==
  LET page == Landing(to)
      user == IF hard THEN stored ELSE tab[t].user
      gone == {c \in Call : hard /\ call[c].tab = t /\ InFlight(c)} IN
  /\ IF to # "/login" /\ page = "/login" THEN SetsCookies(Clear(None)) ELSE UNCHANGED <<jar, left>>
  /\ tab' = [tab EXCEPT ![t] = [page |-> page, user |-> user, hard |-> FALSE,
                 next |-> IF page = "/change-password" /\ user = None THEN "/login" ELSE None,
                 refreshPromise |-> IF hard THEN None ELSE @.refreshPromise]]
  /\ call' = [c \in Call |->
       IF c \notin gone THEN call[c]
       ELSE IF call[c].phase = "sent" THEN [call[c] EXCEPT !.phase = "aborted"] ELSE Ended(c, "lost")]
  /\ strayed' = strayed \cup {refresh[c].token[1] : c \in {d \in gone : refresh[d].answer.status = 200}}
  /\ UNCHANGED <<server, stored, refresh, ousted, rotated, out>>

\* The page the tab was sent to.
Load(t) == ~Ready(t) /\ Loads(t, tab[t].next, tab[t].hard)

\* An address is typed in, a bookmark is opened, the page is reloaded.  The proxy
\* treats the addresses of all portals alike (Landing): one of them will do.
\* Nothing links to /change-password.
Visit(t, page) == Ready(t) /\ Loads(t, page, TRUE)

\* Fault: the tab stays where it is.
StaysPut(t) == tab[t]

\* location.assign, unless the tab is there already.
Assigns(t, page) == IF tab[t].page = page THEN tab[t] ELSE [tab[t] EXCEPT !.next = page, !.hard = TRUE]

SentToLogin(t) == Assigns(t, "/login")

\* router.push; a hard navigation that has begun goes on.
Pushes(t, page) == IF tab[t].hard THEN tab[t] ELSE [tab[t] EXCEPT !.next = page]

\* The end of handleLogout, however the call ended: the user is forgotten and
\* the login page shown.
Forgets(tt, t) == [tt EXCEPT ![t].user = None, ![t].next = IF tt[t].hard THEN @ ELSE "/login"]

\* Fault: every 401 starts a refresh of its own.
OwnRefresh(t, c) == c

\* The refresh a 401 of tab t waits for: the one in flight, or a new one.
refreshAccessToken(t, c) == IF tab[t].refreshPromise = None THEN c ELSE tab[t].refreshPromise

\* A 401 that no refresh has answered yet.
AwaitRefresh(c) ==
  LET t == call[c].tab  r == refreshAccessToken(t, c) IN
  /\ call[c].phase = "answered" /\ call[c].op # "login"
  /\ call[c].answer.status = 401 /\ ~call[c].retry
  /\ call' = [call EXCEPT ![c] = [@ EXCEPT !.phase = "waiting", !.awaits = r, !.answer = NoAnswer]]
  /\ tab' = [tab EXCEPT ![t].refreshPromise = r]
  /\ refresh' = IF r = c THEN [refresh EXCEPT ![c] = [NoRefresh EXCEPT !.phase = "sent", !.token = jar.refresh]] ELSE refresh
  /\ UNCHANGED <<server, jar, stored, history>>

\* The call succeeds.
Succeed(c) ==
  LET t == call[c].tab  a == call[c].account  change == call[c].answer.jar IN
  /\ call[c].phase = "answered" /\ call[c].answer.status = 200
  /\ SetsCookies(change)
  /\ Ends(c, "done")
  /\ \/ call[c].op = "save" /\ UNCHANGED <<tab, stored, out>>
     \/ /\ call[c].op = "login" /\ out' = FALSE
        /\ IF RoleOf[a] = None THEN UNCHANGED <<tab, stored>>
           ELSE /\ stored' = a
                /\ tab' = [tab EXCEPT ![t] = [Pushes(t, IF call[c].answer.must THEN "/change-password" ELSE Home(a))
                                                 EXCEPT !.user = a]]
     \/ /\ call[c].op = "logout" /\ out' = TRUE
        /\ stored' = None /\ tab' = Forgets(tab, t)
     \/ /\ call[c].op = "password" /\ UNCHANGED out
        /\ stored' = a /\ tab' = [tab EXCEPT ![t] = Pushes(t, Home(a))]
  /\ UNCHANGED <<server, refresh, ousted, rotated, strayed>>

\* The call is refused: a 401 after the retry or of a login, a 403 or 400.  A
\* password that must be changed sends the tab to the page that changes it.
Refuse(c) ==
  LET t == call[c].tab
      then == IF call[c].answer.status = 403 THEN [tab EXCEPT ![t] = Assigns(t, "/change-password")] ELSE tab IN
  /\ call[c].phase = "answered" /\ call[c].answer.status # 200
  /\ call[c].answer.status = 401 => call[c].retry \/ call[c].op = "login"
  /\ Ends(c, "refused")
  /\ IF call[c].op = "logout" THEN stored' = None /\ tab' = Forgets(then, t) ELSE tab' = then /\ UNCHANGED stored
  /\ UNCHANGED <<server, jar, refresh, history>>

\* Fault: a call without an answer is sent again.
SentAgain(c) == IF call[c].retry THEN Ended(c, "lost")
                ELSE [call[c] EXCEPT !.phase = "sent", !.retry = TRUE, !.with = jar, !.answer = NoAnswer]

GivenUp(c) == Ended(c, "lost")

\* The request or its answer is lost: fetch throws, nothing is retried.
Lose(c) ==
  /\ call[c].phase \in {"sent", "answered"}
  /\ call' = [call EXCEPT ![c] = GivenUp(c)]
  /\ IF call[c].op = "logout"
     THEN stored' = None /\ tab' = Forgets(tab, call[c].tab)
     ELSE UNCHANGED <<stored, tab>>
  /\ UNCHANGED <<server, jar, refresh, history>>

\* A refresh ends for the calls that wait for it: they are sent again, once, or
\* fail and their tab is sent to the login page.
Waiters(c) == {d \in Call : call[d].phase = "waiting" /\ call[d].awaits = c}

Refreshed(c, ok) ==
  LET t == call[c].tab
      out_ == {d \in Waiters(c) : call[d].op = "logout"}
      settled == [tab EXCEPT ![t] = [(IF ok \/ Waiters(c) = {} THEN tab[t] ELSE SentToLogin(t)) EXCEPT
                                       !.refreshPromise = IF @ = c THEN None ELSE @]] IN
  /\ refresh' = [refresh EXCEPT ![c] = NoRefresh]
  /\ call' = [d \in Call |->
       IF d \notin Waiters(c) THEN call[d]
       ELSE IF ok THEN [call[d] EXCEPT !.phase = "sent", !.retry = TRUE, !.with = jar', !.awaits = None]
       ELSE EndedWith(d, "refused", 401)]
  /\ IF ~ok /\ out_ # {} THEN stored' = None /\ tab' = Forgets(settled, t) ELSE tab' = settled /\ UNCHANGED stored

\* The answer reaches the document that asked.
RefreshArrives(c) ==
  LET change == refresh[c].answer.jar IN
  /\ refresh[c].phase = "answered" /\ ~Orphaned(c)
  /\ SetsCookies(change)
  /\ Refreshed(c, refresh[c].answer.status = 200)
  /\ UNCHANGED <<server, ousted, rotated, strayed, out>>

\* It is lost, or its document is gone.
RefreshLost(c) ==
  /\ refresh[c].phase # "idle"
  /\ strayed' = IF refresh[c].answer.status = 200 THEN strayed \cup {refresh[c].token[1]} ELSE strayed
  /\ UNCHANGED jar
  /\ Refreshed(c, FALSE)
  /\ UNCHANGED <<server, ousted, rotated, out, left>>

\* What the server and the network do with a call.
Proceeds(c) ==
  \/ ServeLogin(c) \/ RefuseLogin(c) \/ Unauthenticated(c) \/ ServeSave(c) \/ ServeLogout(c) \/ ServePassword(c)
  \/ AwaitRefresh(c) \/ Succeed(c) \/ Refuse(c) \/ Lose(c)
  \/ ServeRefresh(c) \/ RefreshArrives(c) \/ RefreshLost(c)

Next ==
  \/ \E c \in Call : Proceeds(c)
  \/ \E c \in Call, t \in Tab :
       \/ Save(t, c) \/ SignOut(t, c) \/ ChangePassword(t, c)
       \/ \E a \in Account : SignIn(t, c, a)
  \/ \E s \in Sess : EndSession(s) \/ RetireToken(s) \/ Lapse(s)
  \/ \E a \in Account : AdminReset(a)
  \/ \E t \in Tab : Load(t) \/ Visit(t, "/") \/ Visit(t, "/login")
  \/ ExpireAccess

Spec == Init /\ [][Next]_vars

\* Requests are answered or lost in the end, and pages that are asked for load;
\* nobody has to do anything.
Fairness == WF_vars((\E c \in Call : Proceeds(c)) \/ \E t \in Tab : Load(t))
FairSpec == Spec /\ Fairness

-----------------------------------------------------------------------------
Sessions == [account: Account \cup {None}, state: {"absent", "active", "ended"}, lapsed: BOOLEAN,
             token: Nat, usable: BOOLEAN]
Changes == [sets: {"nothing", "cleared", "cookies"}, of: Sess \cup {None}, cookies: Jars]
Replies == [status: {0, 200, 400, 401, 403}, jar: Changes, must: BOOLEAN]
Tabs == [page: Pages, next: Pages \cup {None}, hard: BOOLEAN, user: Account \cup {None},
         refreshPromise: Call \cup {None}]
Calls == [tab: Tab \cup {None}, op: {"none", "login", "save", "logout", "password"}, account: Account \cup {None},
          phase: {"unused", "sent", "answered", "waiting", "done", "refused", "lost", "aborted"},
          retry: BOOLEAN, with: Jars, awaits: Call \cup {None}, answer: Replies]
Refreshes == [phase: {"idle", "sent", "answered"}, token: Tokens \cup {None}, answer: Replies]

\* The state has its type.
TypeOK ==
  /\ elsewhere \in Elsewhere \cup {"nothing"} /\ session \in [Sess -> Sessions] /\ mustChange \subseteq Account /\ carried \in [Call -> Nat]
  /\ jar \in Jars /\ stored \in Account \cup {None}
  /\ tab \in [Tab -> Tabs] /\ call \in [Call -> Calls]
  /\ refresh \in [Call -> Refreshes]
  /\ ousted \subseteq Tab \X Sess /\ rotated \in [Sess -> SUBSET Tab]
  /\ strayed \subseteq Sess /\ out \in BOOLEAN /\ left \subseteq Sess

\* A tab's refresh is refused while the session goes on only when another tab had
\* its token rotated, a rotated token never reached the browser, or newer logins
\* pushed it out: however many of its calls meet a 401 at once, a tab does not
\* spend the one token twice.
OustedByOthers ==
  \A t \in Tab, s \in Sess : <<t, s>> \in ousted =>
    rotated[s] \ {t} # {} \/ s \in strayed \/ ~session[s].usable

\* The retry behind a 401 never repeats what was carried out.
CarriedOnce == \A c \in Call : carried[c] <= 1

\* After a sign-out was answered the browser holds no cookie of a session that
\* goes on until it signs in again, whatever answers to other tabs were still
\* under way; unless the cookies of that session had been lost to another's.
SignedOutStaysOut ==
  out => \A s \in Sess : Active(s) /\ (jar.access = s \/ (jar.refresh # None /\ jar.refresh[1] = s)) => s \in left

AtLogin(c) == call[c].tab # None /\ tab[call[c].tab].page = "/login"

Refused401(c) == call[c].op = "save" /\ call[c].answer.status = 401

\* A first 401 ends in a retry or at the login page, unless the page is left.
RefusalEnds ==
  \A c \in Call : (call[c].phase = "answered" /\ Refused401(c)) ~>
    (AtLogin(c) \/ call[c].retry \/ call[c].phase \in {"lost", "aborted"})

\* "Only if the refresh itself fails does the original 401 fall through to the
\* caller -- and the browser is sent to /login": a 401 that falls through to a
\* page of a portal has the tab leave it.
RefusedLeaves ==
  \A c \in Call : (call[c].phase = "refused" /\ Refused401(c)) ~> AtLogin(c)
-----------------------------------------------------------------------------
(* What the safety properties rest on: the strengthening that the proofs   *)
(* show to be inductive.                                                   *)

Underway(c) == call[c].phase \in {"sent", "answered", "waiting", "aborted"}

CallsAreOfTabs ==
  \A c \in Call :
    /\ call[c].phase # "unused" => call[c].tab \in Tab
    /\ Underway(c) /\ call[c].op \in {"login", "password"} => call[c].account \in Account

\* A call that may be sent once more has not been carried out.
Unserved(c) == call[c].phase \in {"unused", "sent", "aborted", "waiting"}
               \/ (call[c].phase = "answered" /\ call[c].answer.status # 200)
RetriesAreUnserved == CarriedOnce /\ \A c \in Call : Unserved(c) => carried[c] = 0

\* A refresh under way is the one its tab waits for, or its document is gone.
Pending(c) == refresh[c].phase # "idle"
Awaited(c) ==
  Pending(c) => \/ call[c].phase = "lost"
                \/ call[c].phase = "waiting" /\ call[c].awaits = c /\ tab[call[c].tab].refreshPromise = c
OneRefreshPerTab == \A c \in Call : Awaited(c)

\* Nobody is left waiting: the refresh a tab waits for is under way, and a call
\* waits for none but the one its tab will hear of.
PromisesKept ==
  /\ \A t \in Tab : LET c == tab[t].refreshPromise IN
       c # None => Pending(c) /\ call[c].phase = "waiting" /\ call[c].tab = t
  /\ \A c \in Call : call[c].phase = "waiting" =>
       call[c].awaits # None /\ tab[call[c].tab].refreshPromise = call[c].awaits

\* The jar, or a refresh under way, has a token of session s.
Held(s) == jar.refresh # None /\ jar.refresh[1] = s
Spent(c, s) == Pending(c) /\ refresh[c].token # None /\ refresh[c].token[1] = s

\* An answer on its way to a document that brings cookies of session s.
Arriving(c, s) == Spent(c, s) /\ refresh[c].answer.status = 200 /\ ~Orphaned(c)
SigningIn(c, s) == call[c].phase = "answered" /\ call[c].answer.jar.sets = "cookies" /\ call[c].answer.jar.of = s

OwnersKnown == \A s \in Sess : session[s].state # "absent" => session[s].account \in Account

Brings(change, s) == /\ change.sets = "cookies" /\ change.of = s
                     /\ change.cookies.access = s /\ change.cookies.refresh = <<s, session[s].token>>

\* What an answer may do to the jar.
AnswerFits(c) ==
  LET change == call[c].answer.jar IN
  call[c].phase = "answered" =>
    \/ change.sets = "nothing" /\ (call[c].answer.status = 200 => call[c].op \in {"save", "password"})
    \/ /\ change.sets = "cookies" /\ call[c].op = "login"
       /\ change.of \in Sess /\ Brings(change, change.of) /\ session[change.of].state # "absent"
    \/ change.sets = "cleared" /\ call[c].op = "logout" /\ change.of \in Sess /\ session[change.of].state = "ended"

RefreshFits(c) ==
  /\ refresh[c].answer.status = 200 => refresh[c].phase = "answered" /\ refresh[c].token # None
  /\ refresh[c].answer.status # 200 => refresh[c].answer.jar.sets # "cookies" /\ refresh[c].answer.jar.of = None
  /\ \A s \in Sess : Arriving(c, s) => Brings(refresh[c].answer.jar, s) /\ call[c].tab \in rotated[s]

AnswersFit == \A c \in Call : AnswerFits(c) /\ RefreshFits(c)

\* Every token is one the server gave out; ...
Issued(k) == k # None => session[k[1]].state # "absent" /\ k[2] <= session[k[1]].token
TokensIssued ==
  /\ jar.access # None => Held(jar.access)
  /\ Issued(jar.refresh)
  /\ \A c \in Call : Pending(c) => Issued(refresh[c].token)

\* ... while the newest one is on its way, the tokens in use are older, and it
\* is on its way once; while a login is answered, nobody has a token yet.
NewestIsAlone ==
  \A s \in Sess :
    /\ \A c \in Call : Arriving(c, s) =>
         /\ Held(s) => jar.refresh[2] < session[s].token
         /\ \A d \in Call \ {c} : Spent(d, s) => ~Arriving(d, s) /\ refresh[d].token[2] < session[s].token
    /\ \A c \in Call : SigningIn(c, s) =>
         /\ ~Held(s)
         /\ \A d \in Call : ~Spent(d, s) /\ (SigningIn(d, s) => d = c)

\* The jar has the newest token of a session, or it is on its way or strayed; so
\* has a tab that is not refused because of others.
JarIsNewest ==
  \A s \in Sess : Held(s) =>
    jar.refresh[2] = session[s].token \/ s \in strayed \/ \E c \in Call : Arriving(c, s)
SentIsNewest ==
  \A c \in Call, s \in Sess : refresh[c].phase = "sent" /\ Spent(c, s) /\ ~Orphaned(c) =>
    refresh[c].token[2] = session[s].token \/ s \in strayed \/ rotated[s] \ {call[c].tab} # {}

\* A session the browser may still get cookies of is in the jar, has ended, or
\* lost its cookies to another.
SpentIsKnown ==
  \A c \in Call, s \in Sess : Spent(c, s) => Held(s) \/ session[s].state = "ended" \/ s \in left

SignedOutHolds == out => \A s \in Sess : Held(s) => session[s].state = "ended" \/ s \in left

OustedWere == \A t \in Tab, s \in Sess : <<t, s>> \in ousted => session[s].state # "absent"

IInv == /\ TypeOK /\ CallsAreOfTabs /\ OwnersKnown /\ RetriesAreUnserved /\ OneRefreshPerTab /\ AnswersFit
        /\ TokensIssued /\ NewestIsAlone /\ JarIsNewest /\ SentIsNewest /\ OustedWere /\ OustedByOthers
        /\ SpentIsKnown /\ SignedOutHolds
=============================================================================

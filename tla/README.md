# Verification of Mentorio's concurrent core

Mentorio is a learning-centre management system: a Django/DRF backend (`src/backend`), a Next.js
frontend (`src/frontend`), SQL design documents (`src/database`) and deployment files
(`src/deploy`). Most of the backend is CRUD over one row per request, most of the frontend is
layout. What is hard is what several requests, webhooks, bot updates and workers do to the same
rows at once, and what a browser's tabs, caches and forms make of answers that come late. The
modules here model those parts: the backend statement by statement, the frontend action by action.
TLC checks them on small instances and TLAPS proves the properties that matter most for every
instance.

Contents: 1 the system, 2 the modules and their order, 3 payments, 4 invoices, 5 notifications,
6 accounts, 7 the browser, 8 runs, 9 proofs, 10 findings, 11 what is not shown.

## 1. The system

### 1.1 How code runs

* **HTTP requests with a JWT** run inside one transaction: `common/middleware.py` opens
  `transaction.atomic()`, sets the organization for row-level security and commits when the view
  returns a response. DRF turns its own exceptions into responses, so a 4xx commits too. Row locks
  taken by the request's `UPDATE`s and `SELECT ... FOR UPDATE`s are kept until then.
* **Requests without a token** (login, refresh, password reset, the Telegram, Payme and Click
  webhooks) run in autocommit mode, on a second connection (`auth_bypass_rls`): every statement is
  its own transaction unless the code opens one.
* **PostgreSQL is at READ COMMITTED.** Each statement sees what was committed when it started; a
  later statement of the same request may see more. An `UPDATE` that waited for a row re-evaluates
  its `WHERE` on the new version.
* **Workers**: `send_notifications --loop` (a systemd unit), and cron jobs for monthly invoices,
  payment reminders and the cleanup of uploads.
* **A browser** has tabs. Every page load passes the Next.js proxy, which looks at the cookies alone.
  The tabs share the cookie jar and `localStorage`. Each has its own query cache (React Query), its own
  refresh in flight and its own forms; nothing tells one tab what another saved.

### 1.2 Components

| component | state | operations | what is hard | what makes it correct |
|---|---|---|---|---|
| Gateway settlement (`payment_gateways`, ledger part of `finance`) | invoices, payments, gateway transactions | checkout link, Payme Create/Perform/Cancel, Click Prepare/Complete, `pay()`, payment and invoice CRUD | retried, overlapping and reordered webhooks; staff writing without the lock webhooks take | no overpaid invoice, one gateway credit, a settled checkout stays settled, status in step with payments |
| Invoicing (`finance/services.py`, `finance/numbering.py`, `issue_monthly_invoices`) | invoices, numbers | get-or-create per student, group and month; monthly command | command, enrolment and `pay()` creating the same invoice; number clashes | a month is billed twice only by writers that cannot see each other; unique numbers; every member billed |
| Expenses and payroll (`finance/views.py`) | row status | approve, reject, cancel, mark paid | unlocked read-check-write | a decision is taken once |
| Notification outbox (`notifications/services`) | deliveries, chat links | queue with the event, claim, send, record, deactivate; link and unlink chats | several workers, leases, crashes between send and save | no message lost, retries and repeats each with their cause, one message per chat |
| Sessions and refresh tokens (`auth_custom/services`) | password, sessions, tokens | login, refresh, logout, revoke, three password changes, profile edit | writes over two connections, row locks, overlapping issuers | a session does not outlive its password, tokens capped and single-use, no hang |
| Password reset over Telegram | reset requests, chat bindings | start, bind, contact, confirm | two-phase confirm, several live requests, two lock orders | only the newest request works, only the owner's chat proves it, bounded guesses |
| Login and lockout | attempt log | login | counting before writing | attempts bounded |
| Lesson schedule (`schedule`) | lessons | create, update | advisory lock per day; the teacher is the group's | no double-booked room, group or teacher |
| Groups and enrolment | members | add, update, remove | capacity checked without a lock | capacity |
| Homework and uploads | files, submissions | upload, link, cleanup, grade | cleanup against linking | a linked file survives, a saved form keeps its files |
| Teacher salaries | salary rows | create, update | "one active row" without a lock | one active salary |
| Platform billing | platform invoices, payments | as finance | as finance, with an advisory lock | as finance |
| Attendance, exams, grades, reports, students, courses | one row per request | CRUD, aggregates | little | unique constraints |
| Foundation | settings, backups, tenancy | merge settings, rotate key, back up | read-merge-write of settings | no lost update |
| Query cache, pages and forms (`frontend/lib/queries`, `app`, `components`) | per tab: cached answers, requests, open form | load, refetch, focus, collect; save, invalidate, write by hand | answers given before a save and shown after it; forms filled in from old rows | a page at rest shows its own saves, a form reverts nothing, loading ends |
| Browser session (`lib/api/client.ts`, `proxy.ts`, login, logout, change-password) | cookies, stored user, refresh in flight | sign in and out, any call, refresh and retry, page loads | tabs that share one single-use token, lost answers, sessions ended elsewhere | a tab does not spend a token twice, no call is carried out twice, signed out stays out |
| Marks editors, person sagas | draft rows; several calls in a row | save row by row, compensate | one call of several fails | - |
| Presentation, database design, deployment | - | - | - | layout and documents |

### 1.3 How they interact

All components meet in PostgreSQL. Settlement and `pay()` create invoices through invoicing;
invoices and attendance queue notifications in their own transaction, and the worker delivers
them; enrolment issues the first invoice; the bot's updates reach both notification links and
password resets; a password change, whoever makes it, ends sessions and tokens. The frontend reaches
all of them through `apiFetch`: what a save did to the server's rows reaches a page only through the
keys its hook invalidates, and what the backend did to a session reaches a tab only as the next 401.

## 2. The modules and their order

Most important first: `PaymentSettlement` with its abstract specification `InvoiceAccount`;
`NotificationOutbox`; `Sessions`, and `PasswordReset`, which extends and composes with it;
`QueryCache` with the tables of the pages (`Queries`, `Screens`, one `...Screens` module per portal),
composed in `MCScreens`; `Browser`, whose backend takes each request of `Sessions` in one step
(no refinement is claimed); `MonthlyBilling`. The modules with proofs (`..._proofs`) extend the module they are about; the `MC...`
modules give TLC its constants.

What could be added, in this order: what `pay()` pays over a month split into several bills (a composition of
`MonthlyBilling` and `InvoiceAccount`); lesson conflicts under the day lock; the cleanup of uploads
against a form that links them; the approval workflow, capacity, salary rows and the settings merge,
each a small read-check-write module; and that each request of `Browser`'s server is one of `Sessions`.

## 3. Payments: `PaymentSettlement`, `InvoiceAccount`

| TLA+ | code |
|---|---|
| `inv`, `pay`, `txn` | committed rows of `Invoice`, `Payment`, `GatewayTransaction` |
| `rowLock` | owner of `SELECT ... FOR UPDATE` on each invoice row |
| `req` | per request in flight: what it has read and what it will write |
| `...Read`, `SettleLock`, `PayLock`, `...Delete`, `Recompute` | the statements whose results later code depends on |
| `...Save`, `...Commit` | the remaining writes and the COMMIT |
| `InvoiceDestroy`, `Checkout` | soft delete of an invoice, `build_checkout_url` |
| `Abort` | the worker or its connection dies: rollback |

**Atomicity.** A request's own writes are invisible until commit, so writes after its last read are
merged into the commit. `OwnView` adds the request's uncommitted write to what it reads.
`Checkout` is one step: nothing can address the new row before the reply leaves.
Three locks are modelled: `FOR UPDATE` on an invoice; `KEY SHARE`, which the foreign key check of a
new payment takes and which `FOR UPDATE` excludes; and the lock a soft delete holds on
the payment row. A `PATCH` saves the whole row: it brings back the `deleted_at` and the status it
read.

**Environment.** Payme and Click may call in any order, and several calls about one transaction may be
under way at once. Only the run `settle_status` sets `SerialProvider`: a provider then waits for an answer
before it calls again about that transaction. Click knows
`merchant_prepare_id` only after a Prepare. Calls that find nothing to do (replays of a finished
call, refusals, CheckTransaction, GetStatement) change no row and are left out. Amounts are
natural numbers of minor units (`DecimalField`, no rounding: nothing is divided). `AdminOps` is
the set of staff endpoints in use, because several properties hold only without some of them. One
request of `pay()` settles one invoice here; that it locks all invoices of a month is in section 4.

A webhook reads its transaction, decides, waits for the invoice, and saves the transaction as it read it. If
another call has settled the row meanwhile, that outcome is written over. The code allows it, so the row
remembers it (`Saved`, the history variable `overwritten`), and the properties of a transaction exempt exactly
such a row. `perform_twice` shows what happens to it; everything else (replays after the answer, late calls,
crashes, edits and deletions by staff) is not exempt.

* `NeverOverpaid` leaves out `PaymentViewSet.create`, which checks the balance without the lock.
* `StatusInSync` leaves out deletions that overlap, since neither transaction sees the other's payment, and
  needs serial providers: a transaction that is overwritten may be reversed beside another credit.
* `CancelledMeansUncredited` leaves out `update`: a whole-row save that overlaps a reversal brings
  the deleted payment back.
* `OneGatewayCredit` leaves out the unlocked endpoints: a payment that staff record without the lock and
  delete again makes room for a second gateway's credit.
* `CreditedTwiceOnlyOverwritten`, `SuccessNamesItsCredit` and `SettledIsFinal` need none of this: every
  endpoint is in use. `SettledIsFinal` keeps to success and cancellation: Prepare reopens a failed transaction
  by design.

`InvoiceAccount` is the abstract specification: `Credit` adds money as far as it is owed, `Reverse`
takes it back. `ImplementsAccount` is the refinement, with `paid` mapped to
`invoice_paid_amount`.

## 4. Invoices: `MonthlyBilling`

Who is billed for a month, and under which number. A *place* is a student in a group.

| TLA+ | code |
|---|---|
| `month` | the calendar month, which turns at any moment |
| `member` | rows of `group_members` |
| `invoice` | rows of `Invoice`: `period` is `billing_period` (0 for a bill made by hand), `due` the month of `due_date`, `number` the digits of `INV-<year>-...` |
| `held` | `SELECT ... FOR UPDATE` on invoice rows |
| `writer` | the transactions: requests, each used once, and the process of the command |
| `Enroll`, `InsertMember` | `GroupMemberViewSet.create`, with or without the first bill |
| `SelfCreate` | `InvoiceViewSet.self_create` |
| `Pay`, `ReadBills`, `LockBill`, `LockFound` | the locks of `GroupBillingViewSet.pay`: it reads the bills of the month, then locks them one by one by due date, keeping those it has |
| `RunMonth`, `NextMember`, `EndRun` | `issue_monthly_invoices`: one transaction per member |
| `Look`, `PickLast`, `LockLast`, `Insert`, `InsertClashes`, `Relook` | `get_or_create_group_invoice` and `generate_invoice_number`, one step per statement |
| `HandMade`, `EditRead`, `EditSave`, `Destroy` | `InvoiceSerializer` and `InvoiceViewSet` |
| `SetStatus` | a membership set inactive, or active again |
| `Commit`, `Dies` | the end of a transaction |

**What a statement sees** is what is committed and the writer's own rows. `PickLast` chooses the
last number in the snapshot of its statement; if somebody holds that row, `LockLast` gets it when he is
done, and still adds one to *that* number. `Insert` waits for an uncommitted row that it may clash with, and
then inserts, or clashes with one of the two constraints (`uq_invoices_org_number` counts deleted
rows, `uq_invoices_student_group_period` does not): the savepoint is rolled back, the lock given up, and the
bill looked for once more. `Before` is the order of numbers as text.

**History.** A bill remembers, in `seen`, the live bills that were committed when its writer looked
for one, each with its count of `edits`. `BilledTwiceOnlyUnseen` is then the promise the code keeps: two live bills
of one place and month exist only if neither writer could have seen the other's bill as it is now, or
one is a monthly bill that has been moved away from its month (`Moved`; the constraint still counts
it there, the lookup by due month elsewhere). The constraint alone covers two monthly bills; a bill by hand has no
period, so only the lookup stands between it and a monthly one.

`ClashOnlyInRace`: a number that is about to be inserted was free when the last one was looked for. It holds
while numbers keep their width; section 10 has what happens after. `MembersBilled`: a clash ends a
run of the command, but the next run bills who was left.

**Waiting.** `WaitsEnd`: a transaction waits only for one that has come further (`Stage`), or for a `pay()`
that is ahead of it in the order of due dates (`Overtakes`). An edit may change that order between two `pay()`
calls, which can then wait for each other in a circle; `WaitsEnd` exempts the bills edited, `DeadlockVictim` is
PostgreSQL failing one of the two.

An edit (`EditRead`) may leave place and due month as they are (a new amount or note): the whole row is saved
all the same, and brings a bill back that was deleted or moved in between.

**Left out.** Prices and amounts, the capacity of a group, cancelled bills, and what is paid:
`PaymentSettlement` has the ledger.

## 5. Notifications: `NotificationOutbox`

| TLA+ | code |
|---|---|
| `link` | `TelegramLink` rows: which chat stands for which recipient (a student or a parent) |
| `notice` | per event, the transaction that queues it (`notify_student`) |
| `row` | `NotificationDelivery` rows; `due` abstracts `next_attempt_at <= now` |
| `worker` | batch, row being sent, answer |
| `blocked` | chats whose owner has blocked the bot |
| `got`, `lost`, `died`, `overran`, `refused` | history: times shown, answers that could not be recorded, workers that died with the row, times it fell due under a worker, chats that refused a message |
| `NotifyRead`, `NotifyCommit`, `NotifyAbort` | the statements of `notify_student` and the outcome of the event's transaction |
| `Claim` | `_claim`: `SELECT ... FOR UPDATE SKIP LOCKED`, attempts + 1, lease |
| `Load`, `SendMessage` | the batch is loaded and sent one row at a time; Telegram shows it, refuses it (403) or fails, and an answer may be lost after it was shown |
| `RecordSent`, `RecordFailure`, `RecordRefusal`, `DeactivateChat` | the updates after each answer; the 403 takes two transactions |
| `FallsDue` | `next_attempt_at` passes |
| `LinkByPhone`, `Stop`, `BlocksBot`, `PhoneChanges` | the bot's linking and unlinking, the chat's owner, an edited phone |
| `Dies` | a worker is killed between any two steps |

Time is abstracted: `FallsDue` may happen at any moment to a row that is not due, whether a lease or a retry
delay has passed, also while a worker still holds the row. That is a batch that outlasts its lease of five minutes:
`overran` counts it, and `MaxOverruns` bounds it in the runs only. Nothing is exempt on its account. A row is
shown once, plus once for each answer not recorded and once for each overrun (`RepeatsHaveCause`); it is claimed
`MAX_ATTEMPTS` times, plus once for each death and overrun (`RetriesBounded`); and once settled it is never queued
again, whatever a late answer writes (`SettledStaysSettled`). That `"sent"` itself gives way to `"failed"` takes an
overrun: the property says so, because the update at `delivery.py:85` does not look at the status.

## 6. Accounts: `Sessions`, `PasswordReset`

**`Sessions`** is one account: its password, its sessions, its refresh tokens, the row locks on
them, and the requests that touch them.

| TLA+ | code |
|---|---|
| `account.password`, `.era` | the password hash, numbered in the order passwords were chosen; how many were |
| `session`, `token` | rows of `auth.sessions`, `auth.refresh_tokens` |
| `lock` | who holds which row lock (user, session, token) |
| `req` | requests in flight: step, rows named, what they have read |
| `LoginRead` .. `MintToken` | `LoginView`, `issue_tokens_for_new_session`, `_enforce_max_active_tokens` |
| `RefreshRead`, `RefreshSession`, `RotateToken`, `BumpSession` | `rotate_tokens` |
| `Authenticate`, `Touch` | `SessionValidatingJWTAuthentication`: it finds the session, then locks its row by updating `last_activity_at` |
| `LogoutToken`, `LogoutCommit` | `LogoutView`: token over the bypass connection, session in its own transaction |
| `RevokeRead`, `RevokeSave`, `RevokeCommit` | `SessionRevokeView` |
| `StartChange`, `ChangeRead`, `SaveUser`, `TokensUpdate`, `SessionsUpdate`, `LockSession`, `ChangeCommit` | an owner's change (`perform_update`), an administrator's reset (`reset_password`), the change a confirmed Telegram reset makes; all end in `revoke_all_user_sessions` |
| `EditRead`, `EditSave` | a profile edit without a password: the whole row as read |
| `DeadlockVictim`, `Dies` | PostgreSQL breaks a cycle it can see; a process dies |

Login and refresh are on the bypass connection, each statement a transaction of its own. The others
are one transaction: they keep their row locks, and what they wrote appears at the commit. The
`UPDATE` over all sessions is a scan: `SessionsUpdate` fixes the rows it finds, `LockSession` takes
them one by one, in any order, waiting where somebody else holds the row.
`Blockers` says who a waiting statement waits for; `Visible` whether PostgreSQL can see the edge
(an edge between two connections of one process it cannot); a `Circle` of waits all of which it sees is broken. History: `era` on a session and `late`,
which says that the login that opened it overlapped a password change; `from` on a token;
`overlap`, what requests that issue tokens have had in common. Properties exempt exactly the cases the code
allows. A login that read the old password before the change opens its session after it (`late`). Two logins or
refreshes that overlap may leave more tokens than the limit (`overlap.issuers`), until a login that has the
account to itself (`overlap.alone`) mints: it retires as many as are over, not one. Two
refreshes that have one token in hand together both rotate it (`overlap.tokens`); no later one does.

**`PasswordReset`** extends `Sessions` with the reset requests of the account. `StartLimit`,
`StartExpire` and `StartCommit` are `start_reset`; `BindChat` and `HandleContact` are the bot's two
updates (`bind_chat`, `handle_contact`), atomic because each is one short transaction over one row;
`ConfirmCode` is the first transaction of `confirm_reset` (count or accept the code), `ConfirmChange`,
`ConfirmMark`, `ConfirmCommit` the second, which runs the password change of `Sessions` with
`op = "reset"` and marks the request. `Expires` is the passing of the hour. Start and confirmation
lock user and request rows in opposite orders: `Crossed` is the deadlock PostgreSQL then breaks.
`OwnChats` are the chats whose contact is the account's phone; `crowded` is history: two requests
were being started at once.

## 7. The browser: `QueryCache`, the tables of the pages, `Browser`

**`QueryCache`** follows one entry of one tab's cache. Entries do not influence one another, so `Init`
picks any key of any portal, and everything the screens can do with that key (`views`) is read
off the tables: whether they mount it, which saves they offer, how a form is filled in from it. What the
rows hold is abstracted to which of the tab's saves they reflect.

| TLA+ | code |
|---|---|
| `data`, `age`, `error`, `fetch` | the entry: its rows, fresh, old or invalidated, in error, the request in flight |
| `view` | the open screen, a dialog with the page below it |
| `saves`, `stored` | mutations of this tab and what the server has carried out |
| `seed`, `known`, `pending` | the open form: what its fields reflect, what the tab knew when it opened, the save it waits for |
| `dropped`, `undone` | history: news of a save that an older answer overwrote; fields written back over a newer save |
| `Visit`, `FetchAnswered`, `FetchSettled`, `FetchFailed`, `Age`, `Focus`, `Collect` | `useQuery` under `query-client.ts`: `staleTime`, `retry: 1`, refetch on mount and focus, `gcTime` |
| `SendSave`, `Submit`, `SaveApplied`, `SaveAnswered`, `SaveFailed` | `useMutation` and the form's submit |
| `Invalidate`, `WriteByHand` | `invalidateQueries`, `setQueryData` in the hooks' `onSuccess` |

React Query itself is external; its part is modelled from how the hooks use it. The interesting rule is
that `invalidateQueries` replaces a request in flight only when there are rows to show meanwhile: a first
load goes on and may answer with rows from before the save.

**The tables.** `Queries` has, for every query hook, the resources its answer is made of, and for
every mutation what it changes and what its hook invalidates. `AdminScreens`, `TeacherScreens`,
`StudentScreens` and `SuperAdminScreens` have one row per page, tab, panel and dialog: what it mounts,
offers, and fills its form in from (`"row"`: the clicked row; `"once"`: the first answer;
`"synced"`: each new answer). `Screens` has what they share. `MCScreens` puts them together and lists the
*gaps* (`Left`): keys that a save changes and its hook leaves, which stay stale until `staleTime`
passes. `LeftIsExact` checks that every listed gap is one; `OwnWritesShown` fails if one is missing.
One of them is against the code's own word: `lib/queries/billing.ts:44-48` says the Centers
page is refreshed too, but `CentersPage` reads `organizations_page`, which no hook of a plan invalidates.

**`Browser`** is the cookie jar, the tabs, and the calls each tab makes.

| TLA+ | code |
|---|---|
| `session`, `mustChange`, `carried` | the server: sessions with their newest token, temporary passwords, how often a call was carried out |
| `jar`, `stored` | the three cookies; the user in `localStorage` |
| `tab`, `call`, `refresh` | a document, its calls, and the refresh each has started (`refreshPromise`) |
| `Serve...`, `RefuseLogin`, `Unauthenticated` | the backend's views, one step each: `Sessions` has their statements |
| `EndSession`, `RetireToken`, `Lapse`, `AdminReset` | what happens elsewhere; a behaviour has one kind |
| `SignIn`, `Save`, `SignOut`, `ChangePassword` | the pages |
| `AwaitRefresh`, `RefreshArrives`, `RefreshLost`, `Succeed`, `Refuse`, `Lose` | `apiFetch`, `refreshAccessToken`, `handleLogout`, the login and change-password handlers |
| `Landing`, `Load`, `Visit` | `proxy()`, `router.push`, `location.assign`, an address typed in |
| `ExpireAccess` | the access cookie's 15 minutes |

`ousted`, `rotated`, `strayed`, `out` and `left` are history: they name exactly the cases the
properties exempt because the code allows them. A page load aborts the calls of the old document, but a request that was
sent still reaches the server. `downloadFile`, the same retry without the redirect, is left out.

## 8. Runs

Every run lets the system stop (no more calls, no events), so deadlock is not checked; the
liveness properties say what must not get stuck.

| run | question | instance |
|---|---|---|
| `settle_locked` | both gateways, `pay()`, deletion: no overpayment, the checked balance is still there at commit, cancelled means uncredited, refinement of `InvoiceAccount` | 1 invoice of 2 units, 1 transaction per gateway, 3 payments, 2 requests (1,028,823 states) |
| `settle_edited` | overlapping calls beside every unlocked staff endpoint: credited twice only if overwritten, links, final outcomes, no deadlock | 1 invoice of 1 unit, 2 payments, 2 requests (1,441,928) |
| `settle_status` | serial providers, two links, `pay()` and invoice deletion: status in step with payments, one gateway credit at most and it pays in full, every request ends | 1 invoice of 1 or 2 units, a Payme and a Click link, 3 payments, 2 requests (26,096) |
| `outbox_overrun` | two workers, a lease that runs out under one of them, a death: repeats, retries, outcomes, settled rows | 2 events, 1 chat, `BATCH_SIZE` 2, 2 attempts, 5 claims, 1 death and 1 overrun per row (1,855,432) |
| `outbox_liveness` | one message per chat while its link moves, and every queued message is sent or given up | a student and a parent, 1 chat, 2 workers, `BATCH_SIZE` 1, 1 overrun per row (38,432) |
| `accounts` | everything on one account but the Telegram reset: sessions, proofs of password, the limit on tokens exceeded and restored, single use | 2 requests, 2 sessions, 3 tokens, `MAX_ACTIVE` 1, 2 changes (3,056,046) |
| `reset` | Telegram resets composed with logins and changes | 2 reset requests, 2 chats (one the owner's), 2 codes, 1 wrong code |
| `screens` | every key of every portal: own saves shown, forms that revert nothing, loading ends | 2 saves |
| `browser` | refresh, retry, sign-in and sign-out in two tabs | 2 tabs, 2 calls, 2 sessions, 1 account |
| `monthly_billing` | every way to a bill beside the daily command | 4 bills, 1 place, 2 requests, 2 months, numbers of one decimal digit (261,747) |
| `perform_twice`, `logout_hangs` | counterexamples, section 10 | |

Four larger instances are kept beside the runs, to be checked with `tlc -config <cfg> <module>`; each shows a
case that the runs are too small for, and TLC finds no error in them:

| instance | what it adds | size |
|---|---|---|
| `SettleLinks.cfg` (`MCPaymentSettlement`) | `OneGatewayCredit` with two Payme links and a Click link, and calls about one link that overlap | 3 payments, 2 requests (1,223,112) |
| `OutboxQueue.cfg` (`MCNotificationOutbox`) | `OneMessagePerChat` with a student and two parents who share and move two chats | 1 worker (522,885) |
| `Tokens.cfg` (`MCSessions`) | `TokensCapped` and `SingleUse` where a login has two tokens to retire after two that overlapped | 2 requests, 3 sessions, 4 tokens, logins, refreshes and logouts (848,248) |
| `BillsLocked.cfg` (`MCMonthlyBilling`) | `WaitsEnd` with two `pay()` calls that lock two bills one by one around an edit, and do wait for each other | 2 bills, 1 place, 4 requests, 1 month (813,833) |

**Why the bounds are enough to be of use.** All hazards named are races of two requests over one
row, so two requests and one row of each kind reach them; a third request only repeats one of the
roles. A request of `MonthlyBilling` is made once, so the circle of two payments, which takes two bills and an
edit, needs four of them: `BillsLocked.cfg`. Amounts of 1 and 2 units against a total of 2 tell part payment, exact payment and
overpayment apart, and three payments allow one more credit than fits. Where nothing is summed
(`settle_edited`), one unit will do. `MAX_ACTIVE = 1` with three
tokens puts the cap within reach (`Tokens.cfg` has the fourth); the limits of retries (4), codes (3 sends, 5 guesses) and
requests per hour are cut to 1 or 2, where the step over the limit is as near. `MaxClaims`,
`MaxDeaths`, `MaxOverruns` and `MaxChanges` bound counters nothing in the code bounds; where `RetriesBounded` is checked,
`MaxClaims` is above what it permits, so it never hides a violation. In the cache a second save is what can be
swallowed, overwritten or written back; in the browser two calls of one tab share a refresh and two tabs
share a token. The browser types one portal's
address and `/login`, because the proxy treats all portals alike. `monthly_billing` has one place,
where the double bill and the number clash both need only two writers.
`Radix` and `Width` say when numbers grow wider: in `NumbersRunOut.cfg` after two, in the code
after 9999. The theorems of section 9 need none of these bounds.

**Fairness.** `PaymentSettlement`: strong fairness on the steps of a started request, since
gunicorn finishes or aborts what it has begun and a request that waits for a row lock, enabled
only while the lock is free, is in PostgreSQL's queue for it. `Sessions` and `PasswordReset`: the
same, plus weak fairness on the victim of a deadlock PostgreSQL sees (`deadlock_timeout`). No fairness
is assumed of a wait PostgreSQL cannot see: `lock_timeout` and `statement_timeout` are not
configured. `NotificationOutbox`: weak fairness on a worker's next step (every Telegram call has a
timeout, systemd restarts the worker) and on time passing, strong fairness on claiming a given due
row, because batches are taken in the order of `next_attempt_at`. `MonthlyBilling`: weak fairness on each
writer's next statement, on the victim of a deadlock and on the command's runs, which cron starts every day; months need not end.
`QueryCache`: weak fairness on the answer or failure of a request; `Browser`: on the server, the network
and page loads taken together. New calls, users, aging and focus are never fair.

## 9. Proofs

Every invariant and every action property of the runs is stated by a theorem and proved for every value
of the constants that satisfies the modules' `ASSUME`s (finite sets of payments and tokens, distinct
names, limits that are numbers; `TablesAssumption` and `BrowserAssumption` say that the tables are well
formed). Each proof module shows an inductive invariant with one lemma per action and a step per conjunct
that the action can disturb; TLC checked each of these invariants on small instances before it was
proved. Where a property needs more than that, the theorem says so:

| theorem | property | assumes |
|---|---|---|
| `BookkeepingHolds`, `TypeCorrect`, `LinksHold` | (behind the others) | - |
| `BalanceStaysChecked`, `GatewayCreditsFit` | `IInv`, `GatewayCreditFits` | payments are not edited: `"update" \notin AdminOps` |
| `LockedNeverOverpaid`, `LedgerImplementsAccount` | `NeverOverpaid`, `ImplementsAccount` | staff money only through `pay()`: `AdminOps \subseteq {"pay", "destroy", "invoice_destroy"}` |
| `OutcomesInStep`, `SuccessHasItsCredit`, `NoDoubleCredit`, `SettlementIsFinal` | `SuccessNamesItsCredit`, `CreditedTwiceOnlyOverwritten`, `SettledIsFinal` | - |
| `CancelledIsUncredited` | `CancelledMeansUncredited` | payments are not edited |
| `LinksAskForAll`, `OneCreditPerInvoice` | `OneGatewayCredit` | `AdminOps \subseteq {"pay", "invoice_destroy"}` |
| `CallsReadTrue` | (behind the next) | `SerialProvider` |
| `StatusesInSync` | `StatusInSync` | `SerialProvider`, `AdminOps \subseteq {"pay", "invoice_destroy"}`, `0 \notin Totals` |
| `RowLocksAreOwned`, `NoDeadlock` | `WaitsEnd` | - |
| `OutboxInvariant`, `RepeatsAreCaused`, `RetriesAreBounded`, `SettledIsSettled` | `IInv`, `RepeatsHaveCause`, `RetriesBounded`, `SettledStaysSettled` | - |
| `OutcomeInvariant`, `OutcomesAreCaused`, `OneMessageEach` | `OutcomeHasCause`, `OneMessagePerChat` | - |
| `TypeCorrect`, `DisciplineHolds`, `SessionsDoNotOutlive`, `ProofStaysGood` | `IInv`, `SessionsFollowPassword`, `ProvenStillCurrent` | - |
| `TokensDisciplined`, `TokensStayCapped`, `TokensRotateOnce` | `TokensCapped`, `SingleUse` | - |
| `OnlyLogoutsHang` | `HangsThroughLogout` (no run) | - |
| `ResetsDisciplined`, `NewestAlone`, `CodesGoToTheOwner`, `GuessesRunOut`, `ResetsAreTheOwners` | `OnlyNewestLive`, `ProvenByOwnChat`, `GuessesBounded` | - |
| `ResetsRefineSessions`, `ResetsEndSessions` | `SessionsFollowPassword` | - |
| `TypeCorrect`, `OwnWrites`, `FormsRevertNothing` | `TypeOK` (no run), `OwnWritesShown`, `NoRevert` | `GapsListed`, for the last two |
| `BrowserKnowsItsTokens`, `RetriesRepeatNothing`, `TabsAreOustedByOthers`, `SignOutIsFinal` | `CarriedOnce`, `OustedByOthers`, `SignedOutStaysOut` | - |
| `NobodyIsLeftWaiting` | `PromisesKept` (no run) | - |
| `SeenStaysSound`, `TwiceOnlyUnseen` | `IInv`, `BilledTwiceOnlyUnseen` | - |
| `WritersStayAhead` | (behind the next) | -; its part about numbers holds in states where `NumbersFit` |
| `NumbersClashInRacesOnly` | `ClashOnlyInRace` | in states where `NumbersFit` |
| `RowsStayInHand`, `NoDeadlock` | `WaitsEnd` (of `MonthlyBilling`; no run, but `BillsLocked.cfg`) | - |

The assumptions are those of the code or of its use, not of the proofs: without each of them TLC finds a
counterexample. `NumbersRunOut.cfg` is the one without `NumbersFit`; `StatusInSync` is violated within seconds
when any one of `create`, `destroy`, `update` and `invoice_update` is added to `pay`, because each of these
saves a status that it read, or computed from what it saw, without the lock. What a property exempts occurs as well:
`perform_twice` has a transaction that was overwritten and credited twice.

**`PaymentSettlement_proofs`**

* `BalanceStaysChecked`. `Headroom` is the strengthening: what a request was allowed to credit is still
  owed. It is inductive because everything that can shrink a balance (a credit, a lower total) needs the
  row lock or waits for it, whether it asked for the lock or not: a plain `UPDATE` of the row and the
  foreign key check of an insert wait too. `GatewayCreditFits` follows at the commit.
* `LockedNeverOverpaid`, `LedgerImplementsAccount`. `NeverOverpaid` alone is not inductive: it needs
  `Headroom` for the request that is about to commit. The refinement maps each commit to `Credit` or
  `Reverse` and everything else to a stutter. The lemmas on `PaidUnits` say how the sum changes when one
  payment appears or is deleted.
* `LinksHold`. A payment that a transaction or a cancellation names was written by that transaction's own
  webhook (`LinksAreOwn`). This needs no row lock: the payment and the link to it are committed together.
* `OutcomesInStep` is `IInvCalls`: however the calls about a transaction overlap, its status says whether money has
  come (`CreditsInStep`), and a call that is about to settle it has read it unsettled (`CallsRead`). If the row is by then
  settled, saving it marks it (`Saved`). `NoDoubleCredit`, `SettlementIsFinal` and `CancelledIsUncredited` follow.
* `LinksAskForAll` is `IInvLinks`: a link asks for the whole balance (`LinksAskAll`), so once one has paid, nothing is
  owed, and with `Headroom` nobody who has passed the check is left.
* `CallsReadTrue` is `IInvSerial`: with one call at a time about a transaction (`OneCallEach`), what the call
  read before it waited for the invoice is still so when it writes (`ReadsHold`), and nothing is overwritten.
* `StatusesInSync` is the longest. `pay()` and the webhooks that credit hold the row lock while they recount; a
  Payme reversal does not. What keeps it alone is `OneGatewayCredit`: nobody passes the balance check until the
  reversal commits. So a status is saved by one request at a time, from a sum that is still the sum (`RecountHolds`).
* `NoDeadlock`. A row lock is that of a request which settles the invoice (`RowsOwned`), and such a request waits
  for nobody once it has the row. A reversal or a deletion keeps a payment row and may then wait for an invoice; an
  edit of the payment may wait for it. That is the longest chain.

**`NotificationOutbox_proofs`**

* `OutcomeInvariant` is `IInvOutcome`. Workers may hold the same row and overwrite each other's
  outcome, but what each knows cannot become false, since attempts, messages shown and refusals are never taken
  back (`Informed`). `OneMessagePerChat` rests on the event that queued the rows (`QueuedByEvent`): its
  commit takes each parents' chat once, and none that is the student's own as read before, whatever links move meanwhile.
* `OutboxInvariant` counts. A row has one holder, or may be claimed, and one more holder for each time it fell due under
  one (`Leases`). A holder whose answer is still to come stands for one showing to come (`Accounted`), and a pending
  row has an attempt left, or its latest claim is under way (`Retries`). One worker moves at a time, so each of
  these counts changes by at most one (`CountMoves`).

**`Sessions_proofs`, `PasswordReset_proofs`**

* `SessionsDoNotOutlive`. A change locks the user row first, and from then on every login in flight is marked
  late (`LoginsCurrent`). Its `UPDATE` therefore covers every active session that is neither late nor its own:
  it is still to be locked or locked by the change (`ChangeMeetsSessions`), and the commit ends all locked ones.
* `ProofStaysGood`. An owner's change keeps its session's row from `Touch` on (`CallerOwnsSession`), so
  another change can neither end that session nor commit past it.
* `TokensDisciplined`. A request that issues tokens while no other does, and a login that has had the account to itself
  whatever went before, has made room for its token or is about to (`LeavesRoom`): the counts of finite sets of tokens at
  each of its steps. The heart is `OldestMany`: the n oldest are n, or all. A token that another was
  minted from stays revoked (`RotationsUsed`), and one that a single refresh has had in hand is its own until it mints (`RotatesAlone`).
* `OnlyLogoutsHang`. A circle that PostgreSQL does not break has a wait it does not see: a logout's for its token
  (`Visible`). Whoever keeps a token row has the user row too and is an administrator's change or a reset (`LocksOwned`;
  an owner's change revokes no refresh tokens). Such a change waits for nothing but the rows of sessions, so the circle
  goes on through the one it waits for.
* `ResetsDisciplined`. Rows are numbered as they are created and a start expires the live ones before it creates
  its own (`StartsAlone`), so only the newest is live unless two starts overlapped (`crowded`).
* `ResetsRefineSessions`: `ResetSpec => Spec`. Every step of the composition is a step of `Sessions` or leaves its
  variables alone, so what is proved of `Sessions` holds with resets over Telegram in it (`ResetsEndSessions`).
  `ResetsAreTheOwners` is the converse: no step of `Sessions` with `op = "reset"` but for a request that was
  given the code the account's own phone got.

**`QueryCache_proofs`** (for any tables)

* `OwnWrites`. The invariant behind it: while an entry is fresh and nothing is in flight, or a request is, every
  owed save is in the rows, in the rows on their way, or still to be read by the server; and a mounted entry is
  never left invalid without a request or an error. `GapsListed` says that every save
  of every screen is sound for every key its portal mounts; the tables of `MCScreens` satisfy it.
* `FormsRevertNothing`. `IInvForms`: an open form holds every such save that was not under way when it was filled
  (`FormKnows`), and a save sent from it knows what the form did (`SavesKnow`). A dialog and the page below it
  fill their forms from different keys (`TablesAssumption`); were one key the seed of both, the form below would
  be the one remembered.

**`Browser_proofs`**

* `BrowserKnowsItsTokens`. A page that still runs has one refresh at a time (`OneRefreshPerTab`); the token it has
  sent, and the one in the jar, is the newest of its session unless another tab had it rotated or its answer
  went astray (`SentIsNewest`, `JarIsNewest`). From this `OustedByOthers`: a tab with the newest token is not
  refused unless something happened to its session.
* `RetriesRepeatNothing`. Nothing has been carried out for a call that may still be retried
  (`RetriesAreUnserved`): the backend refuses a call before the view runs, or not at all.
* `SignOutIsFinal`. Whatever an answer under way can put into the jar is of a session that is there, has ended, or
  was written over (`SpentIsKnown`).
* `NobodyIsLeftWaiting`. `refreshPromise` is reset when the refresh ends, for whoever waits then, and a call that joins it later
  finds it reset or under way: `PromisesKept` and `OneRefreshPerTab` together are inductive.

**`MonthlyBilling_proofs`**

* `TwiceOnlyUnseen`. What a writer has seen is not a bill of the month it is about to bill (`Sound`), and a bill's
  place and months change only with its count of edits, so it stays none until edited; the new bill takes over
  what its writer saw (`Unseen`). An edit of the other bill makes it unseen.
* `NumbersClashInRacesOnly`. While no number has outgrown its padding, the greatest as text is the greatest
  (`BeforeIsLess`), so the next is above every number that was committed when the writer looked (`Ahead`).
* `NoDeadlock`. A transaction goes through the waits in one order: for a membership, for an invoice row, for a new bill it may
  clash with (`Stage`). It keeps others in a wait only once it is past that wait itself (`RowsInHand`). This is
  so because `InsertClashes` gives up the lock before it looks again, and because `pay()` has locked bills of one month
  alone when it waits for another. Those it still has to lock come later by due date than those it has, as it read
  them (`BillsInOrder`); what it read is still so of a bill that was never edited.

**Waiting.** `WaitsEnd`, `HangsThroughLogout` and `PromisesKept` are the safety half of the liveness properties
`EveryCallEnds`, `EveryRequestEnds` and `RefusalEnds`: what cannot stop for ever because nobody waits in a circle, or for
somebody who has gone. `WaitsFor` and `Blockers` are meant to be exactly why a step cannot be taken, which
is a statement about `ENABLED`: TLC checked that a request under way can take its next step if and only if it
waits for nobody (in `MonthlyBilling`, if a new row is left in the instance) and that the chains, the circle of
two payments around an edit and, in `Sessions`, the unseen circle do occur. It did so for every state of
`settle_edited` and `monthly_billing`, of `BillsLocked.cfg` with a third bill (1,234,429 states), and of `Sessions`
with three requests (2,365,644).

**Only model-checked.** Liveness: `EveryCallEnds` (settlement and resets), `DeliverySettles`, `LoadSettles`,
`RefusalEnds`, `MembersBilled`, and `EveryRequestEnds`, which the code violates (`LogoutHangs.cfg`); they need `ENABLED`, which the prover does not have. That the tables of
`MCScreens` satisfy `TablesAssumption` and `GapsListed` is evaluated by TLC, not proved (`GapsListed` is no `ASSUME`
there: a table that breaks it should show as a trace of `OwnWritesShown`, and does).
Which instance shows which property is in section 8. `IInvCalls`, `IInvSerial`, `IInvLinks`, `IInvStatus`,
`TokenDiscipline`, `ResetIInv`, `IInvForms`, `IInvAhead`, `RowsOwned`, `RowsInHand`, `BillsInOrder`,
`HangsThroughLogout`, `PromisesKept`, `TypeOK` of `QueryCache` and `WaitsEnd` of `MonthlyBilling` are in no run, since
the theorems cover them for every instance; the last has an instance of its own, `BillsLocked.cfg`.

## 10. Findings

1. `perform_twice`: Payme's Perform reads the transaction's status before it locks the invoice and
   never rereads it, so two overlapping calls for one transaction both credit, if the balance allows
   (`payme.py:142`), against `gateway_transaction.py:29-30`.
2. `logout_hangs`: logout waits on one connection for a token while it keeps its session's row on
   the other; an administrator's reset that holds the token and wants the session closes a cycle
   PostgreSQL cannot see (`auth_custom/views.py:202`), against `session_service.py:78-80`. No
   `lock_timeout` is set, and gunicorn's `--timeout` does not stop a hung thread of its threaded
   worker (`deploy/mentorio.service:17-20`).

These two are runs. The next four each have a configuration that finds the trace in seconds
(`tlc -config <cfg> <module>`), kept beside the runs:

3. `EditRestores.cfg` (`MCSessions`): a profile edit without a password that overlaps a password
   change saves the old hash back (`foundation/serializers.py:208`), against lines 150-152 there.
4. `SessionLapses.cfg` (`MCBrowser`): a session's `expires_at` is set once and authentication refuses a
   session past it, but `rotate_tokens` does not look at it (`token_service.py:47`): thirty days after
   the login every call answers 401, its refresh succeeds, the retry answers 401 and the page stays
   where it is; so does signing out. Against `client.ts:113-116`: only if the refresh itself fails does
   the 401 fall through, and the browser is sent to `/login`.
5. `FormReverts.cfg` (`MCScreens`): the teacher's profile form opens over rows from before another save,
   because `useUpdateTeacherMutation` never invalidates `["user", id]`, and writes them back; against
   `app/teacher/profile/page.tsx:101-105`.
6. `NumbersRunOut.cfg` (`MCMonthlyBilling`): numbers are compared as text, so after `INV-2026-9999`
   every new number of the year is 10000 again and clashes for ever; nobody is billed any more, against
   `issue_monthly_invoices.py:7-9`, where the next run makes up for a missed day.

Smaller ones, seen in the models without a run of their own:

* A batch of 50 rows of up to 10 seconds each outlasts its lease of 5 minutes; a second worker then sends rows the
  first still holds (`delivery.py:62`), against `send_notifications.py:6`. In `outbox_overrun` this is the
  repeat beyond the answers not recorded, and a late 403 that turns `"sent"` into `"failed"`.
* Two `pay()` calls for a month with two bills lock them by due date; an edit of one between their reads can
  turn the order round, and PostgreSQL fails one of the two (`BillsLocked.cfg`, `Overtakes`).
* Two writers *can* race onto the same number when the year has no invoice yet, or when both chose their last row
  before either inserted (`finance/numbering.py:4-6` says they cannot; the constraint turns the race into a failed
  request, or into the end of that day's command).
* A bill made by hand and the month's bill that do not see each other both stand; so do a monthly bill moved to
  another month and the bill of that month.

## 11. What is not shown

* Everything marked not modelled in the table of components (`PROJECT.json` gives the reason for
  each), and the hazards listed there with a note in place of a property.
* In `Sessions`: the login's `last_login` stamp, the attempt log and the lockout, suspension of an
  account, and expiry: an expired token is refused, but its row stays active and counts to the cap.
* In `PasswordReset`: the bot's routing by chat state, which only narrows which chat reaches
  `handle_contact`, and the entropy of codes: a wrong code is one that differs. Confirmation's
  second transaction does not look at the request again, so two confirmations with one code both
  change the password; no property here says otherwise.
* In `MonthlyBilling`: see section 4. The command is one process; two overlapping runs of it are not
  modelled, nor numbers over the turn of a year.
* In `QueryCache`: other tabs and other users, whose saves a page sees only when it refetches; the cache
  itself outlives a sign-out that does not reload the document; an answer written by hand can be
  overwritten by an older fetch (`dropped` exempts it); deleting the last row of the last page leaves a page number the
  server answers with 404; `fetchAllPages` joins pages read at different moments.
* In `Browser`: two tabs that refresh with one token clear each other's cookies, and a reload during a
  refresh loses the rotated token (`OustedByOthers` exempts both: the code does not prevent them); an
  account without a role keeps the role cookie of the one before it.
* Of the pages: drafts of the attendance sheet, exam results and grading, whose rows are saved one call each and
  may fail one by one; `createStudent`, `createTeacher` and their updates, several calls with a compensation that
  may fail too; the settings page's sections that only show a toast.
* In `PaymentSettlement`: authentication of webhooks, amounts that differ from the checkout's
  (refused before any write), the money of a `pay()` over several invoices (their locks are in `MonthlyBilling`).
* Row-level security and permissions: checks inside PostgreSQL and DRF, taken as passed.

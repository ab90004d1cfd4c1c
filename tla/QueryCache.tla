----------------------------- MODULE QueryCache -----------------------------
(***************************************************************************)
(* What a browser tab shows and what it saves.  Every page of the frontend *)
(* reads the backend through React Query (src/frontend/lib/queries): an    *)
(* answer is kept in one cache per tab under its query key, a page that    *)
(* opens shows what is cached and asks again only when that is stale, and  *)
(* a save tells the cache which keys it made stale.                        *)
(*                                                                         *)
(* Cache entries do not influence one another, so a behaviour follows ONE  *)
(* entry, of any key, in any portal: the key is chosen at the start, and   *)
(* all that matters of it is what the screens of the portal do with it     *)
(* (views).  The data of the entry is abstracted to what the properties    *)
(* tell apart: which of this tab's saves the rows reflect.  A key stands   *)
(* for the family of its parameters (filters, page number, the id of the   *)
(* one person or group looked at).                                         *)
(***************************************************************************)
EXTENDS Naturals, FiniteSets

CONSTANTS
  Save,        \* the saves of a behaviour, each used once
  Portal, Screen, Key, Resource, Mutation,
  ScreensOf,   \* the screens of a portal
  Watches,     \* the keys mounted while a screen is open, the ones of the
               \* page below a dialog included
  Offers,      \* the saves a screen offers, its form's included
  Form,        \* the form of a screen: the save it makes and the keys its
               \* fields are filled in from, none for a screen without a form
  Behind,      \* the page a dialog lies over; itself for a page
  Reads,       \* the resources an answer to a key is made of
  Alters,      \* the resources a save changes
  Refreshes,   \* the keys a save invalidates
  SetsByHand,  \* the keys a save writes its answer into
  Gaps,        \* the keys a save alters and leaves as they are
  NoForm, NoData

ASSUME TablesAssumption ==
  /\ \A p \in Portal : ScreensOf[p] \subseteq Screen /\ \A s \in ScreensOf[p] : Behind[s] \in ScreensOf[p]
  /\ Watches \in [Screen -> SUBSET Key]
  /\ Offers \in [Screen -> SUBSET Mutation]
  /\ Behind \in [Screen -> Screen]
  /\ \A s \in Screen : Watches[Behind[s]] \subseteq Watches[s]
  /\ \A s \in Screen : Behind[s] # s => DOMAIN Form[s].seeds \cap DOMAIN Form[Behind[s]].seeds = {}
  /\ \A s \in Screen : \A k \in DOMAIN Form[s].seeds :
       k \in Key /\ Form[s].saves \in Offers[s] /\ Form[s].seeds[k] \in {"row", "once", "synced"}
  /\ Reads \in [Key -> SUBSET Resource]
  /\ Alters \in [Mutation -> SUBSET Resource]
  /\ Refreshes \in [Mutation -> SUBSET Key]
  /\ SetsByHand \in [Mutation -> SUBSET Key]
  /\ Gaps \in [Mutation -> SUBSET Key]
  /\ \A rows \in SUBSET Save : rows # NoData

-----------------------------------------------------------------------------
(* What a screen does with one key.  Two screens that do the same with it  *)
(* are the same to the entry.                                              *)

FilledFrom(s, k) == k \in DOMAIN Form[s].seeds

\* The saves of the forms filled in from key k.
Forms == {s \in Screen : DOMAIN Form[s].seeds # {}}
FormSaves(k) == {Form[s].saves : s \in {t \in Forms : FilledFrom(t, k)}}

\* What a save is to the entry of key k: whether it changes the rows, whether its
\* hook invalidates the entry or writes it, or leaves it although it should not,
\* and whether it changes values that a form filled in from k writes too.
Effect(k, m) ==
  [writes    |-> Reads[k] \cap Alters[m] # {},
   refreshes |-> k \in Refreshes[m],
   sets      |-> k \in SetsByHand[m],
   gap       |-> k \in Gaps[m],
   rewrites  |-> \E n \in FormSaves(k) : Reads[k] \cap Alters[n] \cap Alters[m] # {}]

Effects == [writes: BOOLEAN, refreshes: BOOLEAN, sets: BOOLEAN, gap: BOOLEAN, rewrites: BOOLEAN]

NoEffect == [writes |-> FALSE, refreshes |-> FALSE, sets |-> FALSE, gap |-> FALSE, rewrites |-> FALSE]

\* The form of a screen, if it is filled in from key k: where its first values
\* come from, the save it makes, whether it closes after it, and whether no page
\* below it has k mounted too.
FormView(k, s) ==
  IF FilledFrom(s, k)
  THEN [seed   |-> Form[s].seeds[k],
        effect |-> Effect(k, Form[s].saves),
        closes |-> Behind[s] # s,
        alone  |-> Behind[s] = s \/ k \notin Watches[Behind[s]]]
  ELSE NoForm

FormViews == [seed: {"row", "once", "synced"}, effect: Effects, closes: BOOLEAN, alone: BOOLEAN]

\* The saves of a screen that need no form filled in from key k.
Buttons(k, s) == IF FilledFrom(s, k) THEN Offers[s] \ {Form[s].saves} ELSE Offers[s]

\* A dialog leaves the page it lies over mounted.
PageView(k, s) ==
  [shown  |-> k \in Watches[s],
   offers |-> {Effect(k, m) : m \in Buttons(k, s)} \ {NoEffect},
   form   |-> FormView(k, s)]

View(k, s) ==
  LET page == PageView(k, s) IN
  [shown |-> page.shown, offers |-> page.offers, form |-> page.form, below |-> PageView(k, Behind[s])]

PageViews == [shown: BOOLEAN, offers: SUBSET Effects, form: FormViews \cup {NoForm}]

Views == [shown: BOOLEAN, offers: SUBSET Effects, form: FormViews \cup {NoForm}, below: PageViews]

ViewsOf(k, p) == {View(k, s) : s \in ScreensOf[p]}

-----------------------------------------------------------------------------
VARIABLES
  views,        \* what the screens of the portal can do with the entry
  view,         \* what the open screen does with the entry
  data,         \* the saves the cached rows reflect, or NoData
  age,          \* "fresh", "old" (past staleTime) or "invalid" (invalidated)
  error,        \* the last load failed
  fetch,        \* the request in flight for the entry
  saves,        \* the tab's saves
  stored,       \* the saves the server has carried out
  seed,         \* the saves the values of the open form reflect, or NoData
  known,        \* the saves the tab had seen succeed when the form was opened,
                \* if nothing was in flight then
  pending,      \* the save the open form waits for, if any
  dropped,      \* saves whose news the cache swallowed
  undone        \* <<v, b>>: save b wrote back what save v had replaced, and its
                \* form was opened when v had succeeded

entry == <<data, age, error, fetch>>
form == <<seed, known, pending>>
vars == <<views, view, data, age, error, fetch, saves, stored, seed, known, pending, dropped, undone>>

Idle == [phase |-> "idle", rows |-> {}, retried |-> FALSE]
Asked == [phase |-> "sent", rows |-> {}, retried |-> FALSE]

NewSave == [phase |-> "sent", effect |-> NoEffect, alone |-> FALSE, known |-> {}, base |-> {}, reply |-> {}]

Saves == [phase: {"unused", "sent", "applied", "answered", "failed"}, effect: Effects,
          alone: BOOLEAN, known: SUBSET Save, base: SUBSET Save, reply: SUBSET Save]

Elsewhere == [shown |-> FALSE, offers |-> {}, form |-> NoForm,
              below |-> [shown |-> FALSE, offers |-> {}, form |-> NoForm]]

Init ==
  /\ \E p \in Portal : \E k \in UNION {Watches[s] : s \in ScreensOf[p]} : views = ViewsOf(k, p)
  /\ view = Elsewhere
  /\ data = NoData /\ age = "fresh" /\ error = FALSE /\ fetch = Idle
  /\ saves = [o \in Save |-> [NewSave EXCEPT !.phase = "unused"]]
  /\ stored = {} /\ dropped = {} /\ undone = {}
  /\ seed = NoData /\ known = {} /\ pending = {}

-----------------------------------------------------------------------------
HasData == data # NoData
HasForm == view.form # NoForm
Answered == {o \in Save : saves[o].phase = "answered"}

\* The saves are used one after the other.
NextSave == CHOOSE o \in Save : saves[o].phase = "unused"

\* What is remembered of a save once its request has ended.
Ended(o, phase) == [NewSave EXCEPT !.phase = phase, !.effect = saves[o].effect, !.alone = saves[o].alone]

AtRest == /\ fetch.phase = "idle" /\ ~error
          /\ \A o \in Save : saves[o].phase \notin {"sent", "applied"}

\* A screen that mounts a key asks when nothing is cached or what is cached is
\* stale, and joins a request that is already in flight.
LoadedBy(shown) ==
  IF shown /\ fetch.phase = "idle" /\ (~HasData \/ age # "fresh") THEN Asked ELSE fetch

\* What a screen does with the entry, apart from what lies below it.
Top(v) == [shown |-> v.shown, offers |-> v.offers, form |-> v.form]

\* A page is opened from anywhere, a dialog over its page.  A dialog filled in from a clicked row has that row; one
\* that reads the key itself takes whatever the cache holds, once, as soon as
\* it holds anything.
Visit(v) ==
  /\ v # view /\ v.below \in {Top(v), Top(view)}
  /\ v.form # NoForm /\ v.form.seed # "once" => HasData
  /\ view' = v
  /\ fetch' = LoadedBy(v.shown)
  /\ seed' = IF v.form # NoForm /\ HasData THEN data ELSE NoData
  /\ known' = IF v.form # NoForm /\ AtRest THEN Answered \ dropped ELSE {}
  /\ pending' = {}
  /\ UNCHANGED <<views, data, age, error, saves, stored, dropped, undone>>

\* The server reads its rows for the request.
FetchAnswered ==
  /\ fetch.phase = "sent"
  /\ fetch' = [fetch EXCEPT !.phase = "answered", !.rows = stored]
  /\ UNCHANGED <<views, view, data, age, error, saves, stored, form, dropped, undone>>

\* The values a settling request gives the open form: a form filled in once takes
\* the first rows there are, the gateway cards follow the rows when they change.
Reseeds == IF view.form.seed = "synced" THEN data # fetch.rows
           ELSE view.form.seed = "once" /\ seed = NoData

\* The answer reaches the tab, whether or not a screen still wants it.
FetchSettled ==
  /\ fetch.phase = "answered"
  /\ data' = fetch.rows /\ age' = "fresh" /\ error' = FALSE /\ fetch' = Idle
  /\ dropped' = dropped \ fetch.rows
  /\ seed' = IF HasForm /\ Reseeds THEN fetch.rows ELSE seed
  /\ UNCHANGED <<views, view, saves, stored, known, pending, undone>>

\* Fault: sent again for as long as a screen wants it.
FetchFailedForEver ==
  /\ fetch.phase # "idle"
  /\ IF view.shown
     THEN fetch' = Asked /\ UNCHANGED <<age, error>>
     ELSE fetch' = Idle /\ age' = "invalid" /\ error' = TRUE
  /\ UNCHANGED <<views, view, data, saves, stored, form, dropped, undone>>

\* A request that fails is sent once more while a screen wants it (retry: 1);
\* then the entry keeps the data it had, in error and stale.
FetchFailed ==
  /\ fetch.phase # "idle"
  /\ IF view.shown /\ ~fetch.retried
     THEN fetch' = [Asked EXCEPT !.retried = TRUE] /\ UNCHANGED <<age, error>>
     ELSE fetch' = Idle /\ age' = "invalid" /\ error' = TRUE
  /\ UNCHANGED <<views, view, data, saves, stored, form, dropped, undone>>

\* staleTime passes.
Age ==
  /\ HasData /\ age = "fresh"
  /\ age' = "old"
  /\ UNCHANGED <<views, view, data, error, fetch, saves, stored, form, dropped, undone>>

\* The window is focused again.
Focus ==
  /\ fetch # LoadedBy(view.shown)
  /\ fetch' = LoadedBy(view.shown)
  /\ UNCHANGED <<views, view, data, age, error, saves, stored, form, dropped, undone>>

\* An entry no screen has had mounted for gcTime is thrown away.
Collect ==
  /\ ~view.shown /\ fetch.phase = "idle" /\ (HasData \/ error)
  /\ data' = NoData /\ age' = "fresh" /\ error' = FALSE /\ dropped' = {}
  /\ UNCHANGED <<views, view, fetch, saves, stored, form, undone>>

\* A button of the screen saves something.
SendSave(o, e) ==
  /\ saves[o].phase = "unused" /\ o = NextSave
  /\ saves' = [saves EXCEPT ![o] = [NewSave EXCEPT !.effect = e]]
  /\ UNCHANGED <<views, view, entry, stored, form, dropped, undone>>

\* The form is submitted: it writes every field it shows, the ones the user did
\* not touch as they were when it was filled in.
Submit(o) ==
  /\ saves[o].phase = "unused" /\ o = NextSave
  /\ HasForm /\ seed # NoData /\ pending = {}
  /\ saves' = [saves EXCEPT ![o] = [NewSave EXCEPT !.effect = view.form.effect,
                                     !.alone = view.form.alone, !.known = known, !.base = seed]]
  /\ seed' = seed \cup {o} /\ pending' = {o}
  /\ UNCHANGED <<views, view, entry, stored, known, dropped, undone>>

\* The server carries the save out.
SaveApplied(o) ==
  /\ saves[o].phase = "sent"
  /\ stored' = stored \cup {o}
  /\ saves' = [saves EXCEPT ![o].phase = "applied",
                            ![o].reply = IF saves[o].effect.sets THEN stored' ELSE {}]
  /\ undone' = undone \cup ({v \in saves[o].known \ saves[o].base : saves[v].effect.rewrites} \X {o})
  /\ UNCHANGED <<views, view, entry, form, dropped>>

\* The answer of an in-flight request that was given before save o.
Swallows(o) == fetch.phase = "answered" /\ o \notin fetch.rows

\* setQueryData: the answer of the save becomes the data of the entry.  A
\* request in flight is not cancelled.
WriteByHand(o) ==
  /\ data' = saves[o].reply /\ age' = "fresh" /\ error' = FALSE
  /\ dropped' = dropped \cup (Answered \ saves[o].reply) \cup (IF Swallows(o) THEN {o} ELSE {})
  /\ UNCHANGED fetch

\* invalidateQueries: what is cached is stale, and a mounted key is asked for
\* again: in place of the request in flight if there is data to show meanwhile;
\* a first load in flight, or one no screen wants any more, is left as it is.
Invalidate(o) ==
  /\ age' = IF HasData THEN "invalid" ELSE age
  /\ IF view.shown /\ (fetch.phase = "idle" \/ HasData)
     THEN fetch' = Asked /\ UNCHANGED dropped
     ELSE /\ UNCHANGED fetch
          /\ dropped' = IF Swallows(o) THEN dropped \cup {o} ELSE dropped
  /\ UNCHANGED <<data, error>>

\* The save succeeds: the hook's onSuccess tells the cache, then the form that
\* waited for it closes, or stays open if it is part of a page.
SaveAnswered(o) ==
  /\ saves[o].phase = "applied"
  /\ saves' = [saves EXCEPT ![o] = Ended(o, "answered")]
  /\ IF saves[o].effect.sets THEN WriteByHand(o)
     ELSE IF saves[o].effect.refreshes THEN Invalidate(o)
     ELSE UNCHANGED <<entry, dropped>>
  /\ pending' = pending \ {o}
  /\ IF o \in pending /\ HasForm /\ view.form.closes
     THEN /\ view' = [shown |-> view.below.shown, offers |-> view.below.offers,
                      form |-> NoForm, below |-> view.below]
          /\ seed' = NoData /\ known' = {}
     ELSE UNCHANGED <<view, seed, known>>
  /\ UNCHANGED <<views, stored, undone>>

\* The save is refused, or its answer is lost: no onSuccess, the form stays.
SaveFailed(o) ==
  /\ saves[o].phase \in {"sent", "applied"}
  /\ saves' = [saves EXCEPT ![o] = Ended(o, "failed")]
  /\ pending' = pending \ {o}
  /\ UNCHANGED <<views, view, entry, stored, seed, known, dropped, undone>>

Next ==
  \/ \E v \in views \cup {Elsewhere} : Visit(v)
  \/ FetchAnswered \/ FetchSettled \/ FetchFailed
  \/ Age \/ Focus \/ Collect
  \/ \E o \in Save : \/ \E e \in view.offers : SendSave(o, e)
                     \/ Submit(o) \/ SaveApplied(o) \/ SaveAnswered(o) \/ SaveFailed(o)

Spec == Init /\ [][Next]_vars

\* The network answers or fails in the end; nobody has to do anything else.
Fairness == WF_vars(FetchAnswered) /\ WF_vars(FetchSettled \/ FetchFailed)
FairSpec == Spec /\ Fairness

-----------------------------------------------------------------------------
\* The state has its type.
TypeOK ==
  /\ views \subseteq Views /\ view \in Views
  /\ data = NoData \/ data \subseteq Save
  /\ age \in {"fresh", "old", "invalid"} /\ error \in BOOLEAN
  /\ fetch \in [phase: {"idle", "sent", "answered"}, rows: SUBSET Save, retried: BOOLEAN]
  /\ saves \in [Save -> Saves] /\ stored \subseteq Save
  /\ seed = NoData \/ seed \subseteq Save
  /\ known \subseteq Save /\ pending \subseteq Save
  /\ dropped \subseteq Save /\ undone \subseteq Save \X Save

\* Every key a save of a portal changes is invalidated or written by its hook, or
\* is listed as one the hook leaves.
Sound(e) == e.writes /\ ~e.gap => e.refreshes \/ e.sets

GapsListed ==
  \A p \in Portal : \A k \in UNION {Watches[s] : s \in ScreensOf[p]} :
    \A s \in ScreensOf[p] : \A m \in Offers[s] : Sound(Effect(k, m))

\* The saves of this tab that rows with these contents must reflect: they
\* succeeded, they change what the key is made of, the hook did not leave the
\* key out, and no older answer swallowed the news.
Owed == {o \in Answered : saves[o].effect.writes /\ ~saves[o].effect.gap} \ dropped

\* Once a screen has settled, it shows every save of this tab that the server
\* confirmed: the hook of each save invalidates every key the save changes.
OwnWritesShown ==
  view.shown /\ fetch.phase = "idle" /\ ~error => HasData /\ Owed \subseteq data

\* A form opened when nothing was in flight, over a page that has the same rows
\* mounted, never writes back a value that a save this tab had seen succeed had
\* replaced, unless the hook of that save leaves the key out.
NoRevert == \A v, b \in Save : <<v, b>> \in undone => saves[b].alone \/ saves[v].effect.gap

\* "There's no earlier moment a stale seed value could be seen": a form opened
\* when nothing was in flight writes back nothing that a save this tab had seen
\* succeed had replaced.
NoStaleSeed == undone = {}

\* A screen does not load for ever: the request it waits for is answered or given
\* up, however often saves, focus and a change of screen renew it.
LoadSettles == (view.shown /\ fetch.phase # "idle") ~> (fetch.phase = "idle" \/ ~view.shown)
=============================================================================

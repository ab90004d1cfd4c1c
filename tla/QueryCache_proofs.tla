-------------------------- MODULE QueryCache_proofs --------------------------
(***************************************************************************)
(* Proofs about QueryCache, for any tables of screens, keys and saves and  *)
(* any number of saves.                                                    *)
(*                                                                         *)
(* The argument for OwnWritesShown: what a screen that has settled shows   *)
(* is not invalidated (ShownIsCurrent); data that is not invalidated, and  *)
(* an answer that is under way, hold every save the tab has seen succeed,  *)
(* but for those the news of which was swallowed (DataCurrent,             *)
(* AnswerCurrent).  A save keeps this because its hook invalidates the     *)
(* entry, or writes it, whenever the save changes it (Sound), and because  *)
(* an answer older than the save is recorded as swallowing it.             *)
(*                                                                         *)
(* The argument for NoRevert: a form is filled from data that hold every   *)
(* such save, or every one that was not under way when it was filled       *)
(* (FormKnows), and a save of the form knows what its form did (SavesKnow).*)
(***************************************************************************)
EXTENDS QueryCache, TLAPS

SoundPage(v) == (\A e \in v.offers : Sound(e)) /\ (v.form # NoForm => Sound(v.form.effect))
SoundView(v) == /\ SoundPage(v) /\ SoundPage(v.below)
                /\ v.below.shown => v.shown

SoundViews == (\A v \in views : SoundView(v)) /\ SoundView(view)
SoundSaves == \A o \in Save : Sound(saves[o].effect)
Carried == \A o \in Save : saves[o].phase \in {"applied", "answered"} => o \in stored
Replies == \A o \in Save : saves[o].phase = "applied" /\ saves[o].effect.sets => o \in saves[o].reply
AnswerCurrent == fetch.phase = "answered" => Owed \subseteq fetch.rows
DataCurrent == HasData /\ age # "invalid" => Owed \subseteq data
ShownIsCurrent == view.shown /\ fetch.phase = "idle" /\ ~error => HasData /\ age # "invalid"

IInv == /\ TypeOK /\ SoundViews /\ SoundSaves /\ Carried /\ Replies
        /\ AnswerCurrent /\ DataCurrent /\ ShownIsCurrent

-----------------------------------------------------------------------------
(* The tables make views of their type, and sound ones if the gaps are     *)
(* listed.                                                                 *)

LEMMA NoDataIsNoRows == NoData \notin SUBSET Save
BY TablesAssumption DEF TablesAssumption

LEMMA EffectTyped ==
  ASSUME NEW k \in Key, NEW m \in Mutation
  PROVE  Effect(k, m) \in Effects
BY DEF Effect, Effects

LEMMA FormTyped ==
  ASSUME NEW k \in Key, NEW s \in Screen
  PROVE  FormView(k, s) \in FormViews \cup {NoForm}
<1>1. CASE FilledFrom(s, k)
  <2>1. Form[s].saves \in Mutation /\ Form[s].seeds[k] \in {"row", "once", "synced"}
    BY <1>1, TablesAssumption DEF TablesAssumption, FilledFrom
  <2>2. Effect(k, Form[s].saves) \in Effects
    BY <2>1, EffectTyped
  <2>3. (Behind[s] # s) \in BOOLEAN /\ (Behind[s] = s \/ k \notin Watches[Behind[s]]) \in BOOLEAN
    OBVIOUS
  <2> QED BY <1>1, <2>1, <2>2, <2>3 DEF FormView, FormViews
<1>2. CASE ~FilledFrom(s, k)
  BY <1>2 DEF FormView
<1> QED BY <1>1, <1>2

LEMMA PageTyped ==
  ASSUME NEW k \in Key, NEW s \in Screen
  PROVE  PageView(k, s) \in PageViews
<1>1. Buttons(k, s) \subseteq Mutation
  BY TablesAssumption DEF TablesAssumption, Buttons
<1>2. {Effect(k, m) : m \in Buttons(k, s)} \ {NoEffect} \subseteq Effects
  BY <1>1, EffectTyped
<1>3. (k \in Watches[s]) \in BOOLEAN
  OBVIOUS
<1> QED BY <1>2, <1>3, FormTyped DEF PageView, PageViews

LEMMA ViewsTyped ==
  ASSUME NEW k \in Key, NEW p \in Portal
  PROVE  ViewsOf(k, p) \subseteq Views
<1> SUFFICES ASSUME NEW s \in ScreensOf[p] PROVE View(k, s) \in Views
  BY DEF ViewsOf
<1>1. s \in Screen /\ Behind[s] \in Screen
  BY TablesAssumption DEF TablesAssumption
<1>2. PageView(k, s) \in PageViews /\ PageView(k, Behind[s]) \in PageViews
  BY <1>1, PageTyped
<1> QED BY <1>2 DEF View, Views, PageViews

LEMMA ElsewhereTyped == Elsewhere \in Views /\ SoundView(Elsewhere)
<1>1. {} \in SUBSET Effects
  OBVIOUS
<1>2. [shown |-> FALSE, offers |-> {}, form |-> NoForm] \in PageViews
  BY <1>1 DEF PageViews
<1> QED BY <1>1, <1>2 DEF Elsewhere, Views, SoundView, SoundPage

LEMMA PagesSound ==
  ASSUME GapsListed, NEW p \in Portal, NEW t \in ScreensOf[p], NEW k \in Watches[t], NEW s \in ScreensOf[p]
  PROVE  SoundPage(PageView(k, s))
<1>1. \A m \in Offers[s] : Sound(Effect(k, m))
  BY DEF GapsListed
<1>2. s \in Screen
  BY TablesAssumption DEF TablesAssumption
<1>3. \A e \in PageView(k, s).offers : Sound(e)
  BY <1>1 DEF PageView, Buttons
<1>4. ASSUME FilledFrom(s, k) PROVE Sound(FormView(k, s).effect)
  <2>1. Form[s].saves \in Offers[s]
    BY <1>2, <1>4, TablesAssumption DEF TablesAssumption, FilledFrom
  <2> QED BY <1>1, <1>4, <2>1 DEF FormView
<1>5. ~FilledFrom(s, k) => FormView(k, s) = NoForm
  BY DEF FormView
<1> QED BY <1>3, <1>4, <1>5 DEF SoundPage, PageView

LEMMA ViewsSound ==
  ASSUME GapsListed, NEW p \in Portal, NEW t \in ScreensOf[p], NEW k \in Watches[t]
  PROVE  \A v \in ViewsOf(k, p) : SoundView(v)
<1> SUFFICES ASSUME NEW s \in ScreensOf[p] PROVE SoundView(View(k, s))
  BY DEF ViewsOf
<1>1. s \in Screen /\ Behind[s] \in ScreensOf[p]
  BY TablesAssumption DEF TablesAssumption
<1>2. SoundPage(PageView(k, s)) /\ SoundPage(PageView(k, Behind[s]))
  BY <1>1, PagesSound
<1>3. k \in Watches[Behind[s]] => k \in Watches[s]
  BY <1>1, TablesAssumption DEF TablesAssumption
<1>4. View(k, s).below = PageView(k, Behind[s])
  BY DEF View
<1>5. SoundPage(View(k, s))
  BY <1>2 DEF View, SoundPage
<1>6. View(k, s).below.shown => View(k, s).shown
  BY <1>3 DEF View, PageView
<1> QED BY <1>2, <1>4, <1>5, <1>6 DEF SoundView

-----------------------------------------------------------------------------
(* Type correctness.                                                       *)

FetchType == [phase: {"idle", "sent", "answered"}, rows: SUBSET Save, retried: BOOLEAN]

LEMMA RequestsTyped == Idle \in FetchType /\ Asked \in FetchType /\ [Asked EXCEPT !.retried = TRUE] \in FetchType
BY DEF Idle, Asked, FetchType

LEMMA SavesTyped ==
  /\ NoEffect \in Effects
  /\ NewSave \in Saves
  /\ \A e \in Effects : [NewSave EXCEPT !.effect = e] \in Saves
BY DEF NoEffect, Effects, NewSave, Saves

LEMMA InitTyped == ASSUME Init PROVE TypeOK
<1>0. PICK p \in Portal : \E k \in UNION {Watches[s] : s \in ScreensOf[p]} : views = ViewsOf(k, p)
  BY DEF Init
<1>1. PICK k \in UNION {Watches[s] : s \in ScreensOf[p]} : views = ViewsOf(k, p)
  BY <1>0
<1>2. k \in Key
  BY TablesAssumption DEF TablesAssumption
<1>3. views \subseteq Views /\ view \in Views
  BY <1>1, <1>2, ViewsTyped, ElsewhereTyped DEF Init
<1>4. [NewSave EXCEPT !.phase = "unused"] \in Saves
  BY SavesTyped DEF NewSave, Saves
<1>5. saves \in [Save -> Saves]
  BY <1>4 DEF Init
<1>6. fetch \in FetchType
  BY RequestsTyped DEF Init
<1> QED BY <1>3, <1>5, <1>6 DEF Init, TypeOK, FetchType

LEMMA VisitTyped ==
  ASSUME TypeOK, NEW v \in views \cup {Elsewhere}, Visit(v)
  PROVE  TypeOK'
<1>1. v \in Views
  BY ElsewhereTyped DEF TypeOK
<1>2. fetch' \in FetchType
  BY RequestsTyped DEF Visit, LoadedBy, TypeOK, FetchType
<1>3. seed' = NoData \/ seed' \subseteq Save
  BY DEF Visit, HasData, TypeOK
<1>4. known' \subseteq Save
  BY DEF Visit, Answered
<1> QED BY <1>1, <1>2, <1>3, <1>4 DEF Visit, TypeOK, FetchType

LEMMA FetchTyped ==
  ASSUME TypeOK, FetchAnswered \/ FetchSettled \/ FetchFailed
  PROVE  TypeOK'
<1>1. CASE FetchAnswered
  BY <1>1 DEF FetchAnswered, TypeOK, form
<1>2. CASE FetchSettled
  <2>1. fetch' \in FetchType
    BY <1>2, RequestsTyped DEF FetchSettled
  <2>2. data' \subseteq Save /\ dropped' \subseteq Save /\ (seed' = NoData \/ seed' \subseteq Save)
    BY <1>2 DEF FetchSettled, TypeOK
  <2> QED BY <1>2, <2>1, <2>2 DEF FetchSettled, TypeOK, FetchType
<1>3. CASE FetchFailed
  <2>1. fetch' \in FetchType
    BY <1>3, RequestsTyped DEF FetchFailed
  <2> QED BY <1>3, <2>1 DEF FetchFailed, TypeOK, FetchType, form
<1> QED BY <1>1, <1>2, <1>3

LEMMA EntryTyped ==
  ASSUME TypeOK, Age \/ Focus \/ Collect
  PROVE  TypeOK'
<1>1. CASE Age
  BY <1>1 DEF Age, TypeOK, form
<1>2. CASE Focus
  <2>1. fetch' \in FetchType
    BY <1>2, RequestsTyped DEF Focus, LoadedBy, TypeOK, FetchType
  <2> QED BY <1>2, <2>1 DEF Focus, TypeOK, FetchType, form
<1>3. CASE Collect
  BY <1>3 DEF Collect, TypeOK, form
<1> QED BY <1>1, <1>2, <1>3

LEMMA SendTyped ==
  ASSUME TypeOK, NEW o \in Save, (\E e \in view.offers : SendSave(o, e)) \/ Submit(o)
  PROVE  TypeOK'
<1>1. CASE \E e \in view.offers : SendSave(o, e)
  <2>1. PICK e \in view.offers : SendSave(o, e)
    BY <1>1
  <2>2. e \in Effects
    BY DEF TypeOK, Views
  <2>3. [NewSave EXCEPT !.effect = e] \in Saves
    BY <2>2, SavesTyped
  <2>4. saves' \in [Save -> Saves]
    BY <2>1, <2>3 DEF SendSave, TypeOK
  <2> QED BY <2>1, <2>4 DEF SendSave, TypeOK, entry, form
<1>2. CASE Submit(o)
  <2>1. view.form \in FormViews
    BY <1>2 DEF Submit, HasForm, TypeOK, Views
  <2>2. view.form.effect \in Effects /\ view.form.alone \in BOOLEAN
    BY <2>1 DEF FormViews
  <2>3. seed \subseteq Save /\ known \subseteq Save
    BY <1>2 DEF Submit, TypeOK
  <2>4. [NewSave EXCEPT !.effect = view.form.effect, !.alone = view.form.alone, !.known = known, !.base = seed]
          \in Saves
    BY <2>2, <2>3, SavesTyped DEF NewSave, Saves
  <2>5. saves' \in [Save -> Saves]
    BY <1>2, <2>4 DEF Submit, TypeOK
  <2> QED BY <1>2, <2>3, <2>5 DEF Submit, TypeOK, entry
<1> QED BY <1>1, <1>2

LEMMA EndedTyped ==
  ASSUME TypeOK, NEW o \in Save, NEW phase \in {"answered", "failed"}
  PROVE  Ended(o, phase) \in Saves
<1>1. saves[o].effect \in Effects /\ saves[o].alone \in BOOLEAN
  BY DEF TypeOK, Saves
<1> QED BY <1>1, SavesTyped DEF Ended, NewSave, Saves

LEMMA AppliedTyped ==
  ASSUME TypeOK, NEW o \in Save, SaveApplied(o)
  PROVE  TypeOK'
<1>1. stored' \subseteq Save
  BY DEF SaveApplied, TypeOK
<1>2. saves[o] \in Saves
  BY DEF TypeOK
<1>3. [saves[o] EXCEPT !.phase = "applied", !.reply = IF saves[o].effect.sets THEN stored' ELSE {}] \in Saves
  BY <1>1, <1>2 DEF Saves
<1>4. saves' = [saves EXCEPT ![o] = [saves[o] EXCEPT !.phase = "applied",
                                                     !.reply = IF saves[o].effect.sets THEN stored' ELSE {}]]
  BY DEF SaveApplied, TypeOK, Saves
<1>5. saves' \in [Save -> Saves]
  BY <1>3, <1>4 DEF TypeOK
<1>6. saves[o].known \subseteq Save
  BY <1>2 DEF Saves
<1>7. undone' \subseteq Save \X Save
  BY <1>6 DEF SaveApplied, TypeOK
<1> QED BY <1>1, <1>5, <1>7 DEF SaveApplied, TypeOK, entry, form

LEMMA EntryAfterSaveTyped ==
  ASSUME TypeOK, NEW o \in Save,
         WriteByHand(o) \/ Invalidate(o) \/ UNCHANGED <<entry, dropped>>
  PROVE  /\ data' = NoData \/ data' \subseteq Save
         /\ age' \in {"fresh", "old", "invalid"} /\ error' \in BOOLEAN
         /\ fetch' \in FetchType /\ dropped' \subseteq Save
<1>1. saves[o].reply \subseteq Save
  BY DEF TypeOK, Saves
<1>2. CASE WriteByHand(o)
  BY <1>1, <1>2 DEF WriteByHand, TypeOK, FetchType, Answered
<1>3. CASE Invalidate(o)
  <2>1. fetch' \in FetchType
    BY <1>3, RequestsTyped DEF Invalidate, TypeOK, FetchType
  <2>2. dropped' \subseteq Save
    BY <1>3 DEF Invalidate, TypeOK
  <2> QED BY <1>3, <2>1, <2>2 DEF Invalidate, TypeOK
<1>4. CASE UNCHANGED <<entry, dropped>>
  BY <1>4 DEF entry, TypeOK, FetchType
<1> QED BY <1>2, <1>3, <1>4

LEMMA AnsweredTyped ==
  ASSUME TypeOK, NEW o \in Save, SaveAnswered(o)
  PROVE  TypeOK'
<1>1. saves' \in [Save -> Saves]
  BY EndedTyped DEF SaveAnswered, TypeOK
<1>2. WriteByHand(o) \/ Invalidate(o) \/ UNCHANGED <<entry, dropped>>
  BY DEF SaveAnswered
<1>3. view.below \in PageViews
  BY DEF TypeOK, Views
<1>4. [shown |-> view.below.shown, offers |-> view.below.offers, form |-> NoForm, below |-> view.below] \in Views
  BY <1>3 DEF PageViews, Views
<1>5. view' \in Views /\ (seed' = NoData \/ seed' \subseteq Save) /\ known' \subseteq Save
  BY <1>4 DEF SaveAnswered, TypeOK
<1>6. pending' \subseteq Save
  BY DEF SaveAnswered, TypeOK
<1>7. views' = views /\ stored' = stored /\ undone' = undone
  BY DEF SaveAnswered
<1> QED BY <1>1, <1>2, <1>5, <1>6, <1>7, EntryAfterSaveTyped DEF TypeOK, FetchType

LEMMA FailedTyped ==
  ASSUME TypeOK, NEW o \in Save, SaveFailed(o)
  PROVE  TypeOK'
<1>1. saves' \in [Save -> Saves]
  BY EndedTyped DEF SaveFailed, TypeOK
<1> QED BY <1>1 DEF SaveFailed, TypeOK, entry

LEMMA TypeStep == ASSUME TypeOK, [Next]_vars PROVE TypeOK'
<1>1. CASE UNCHANGED vars
  BY <1>1 DEF vars, TypeOK
<1>2. CASE Next
  BY <1>2, VisitTyped, FetchTyped, EntryTyped, SendTyped, AppliedTyped, AnsweredTyped, FailedTyped DEF Next
<1> QED BY <1>1, <1>2

\* The state of a tab has its type, whatever the tables and the saves.
THEOREM TypeCorrect == Spec => []TypeOK
<1>1. Init => TypeOK
  BY InitTyped
<1>2. TypeOK /\ [Next]_vars => TypeOK'
  BY TypeStep
<1> QED BY <1>1, <1>2, PTL DEF Spec

-----------------------------------------------------------------------------
(* The own writes are shown.                                               *)

Current == AnswerCurrent /\ DataCurrent /\ ShownIsCurrent
SoundAll == SoundViews /\ SoundSaves
Server == Carried /\ Replies

LEMMA SameSaves ==
  ASSUME UNCHANGED <<saves, stored>>
  PROVE  /\ SoundSaves' = SoundSaves /\ Carried' = Carried /\ Replies' = Replies
         /\ Answered' = Answered
         /\ UNCHANGED dropped => Owed' = Owed
BY DEF SoundSaves, Carried, Replies, Answered, Owed

LEMMA InitInv == ASSUME GapsListed, Init PROVE IInv
<1>1. PICK p \in Portal : \E k \in UNION {Watches[s] : s \in ScreensOf[p]} : views = ViewsOf(k, p)
  BY DEF Init
<1>2. PICK k \in UNION {Watches[s] : s \in ScreensOf[p]} : views = ViewsOf(k, p)
  BY <1>1
<1>3. PICK t \in ScreensOf[p] : k \in Watches[t]
  BY <1>2
<1>4. SoundViews
  BY <1>2, <1>3, ViewsSound, ElsewhereTyped DEF SoundViews, Init
<1>5. \A o \in Save : saves[o].phase = "unused" /\ saves[o].effect = NoEffect
  BY DEF Init, NewSave
<1>6. SoundSaves /\ Carried /\ Replies
  BY <1>5 DEF SoundSaves, Sound, NoEffect, Carried, Replies
<1>7. AnswerCurrent /\ DataCurrent /\ ShownIsCurrent
  BY DEF Init, AnswerCurrent, DataCurrent, ShownIsCurrent, HasData, Idle, Elsewhere
<1> QED BY <1>4, <1>6, <1>7, InitTyped DEF IInv

LEMMA VisitStep ==
  ASSUME IInv, NEW v \in views \cup {Elsewhere}, Visit(v)
  PROVE  IInv'
<1>1. TypeOK'
  BY VisitTyped DEF IInv
<1>2. SoundViews'
  BY ElsewhereTyped DEF Visit, IInv, SoundViews
<1>3. UNCHANGED <<data, age, error, saves, stored, dropped>> /\ view' = v /\ fetch' = LoadedBy(v.shown)
  BY DEF Visit
<1>4. AnswerCurrent'
  BY <1>3, SameSaves DEF LoadedBy, Asked, IInv, AnswerCurrent
<1>5. DataCurrent'
  BY <1>3, SameSaves DEF IInv, DataCurrent, HasData
<1>6. ShownIsCurrent'
  BY <1>3 DEF LoadedBy, Asked, ShownIsCurrent, HasData
<1> QED BY <1>1, <1>2, <1>3, <1>4, <1>5, <1>6, SameSaves DEF IInv

LEMMA FetchStep ==
  ASSUME IInv, FetchAnswered \/ FetchSettled \/ FetchFailed
  PROVE  IInv'
<1>1. TypeOK'
  BY FetchTyped DEF IInv
<1>2. UNCHANGED <<views, view, saves, stored>>
  BY DEF FetchAnswered, FetchSettled, FetchFailed
<1>3. SoundViews' /\ SoundSaves' /\ Carried' /\ Replies'
  BY <1>2, SameSaves DEF IInv, SoundViews
<1>4. CASE FetchAnswered
  <2>1. Owed \subseteq stored
    BY DEF Owed, Answered, IInv, Carried
  <2>2. fetch'.rows = stored /\ fetch'.phase = "answered" /\ UNCHANGED <<data, age, error, dropped>>
    BY <1>4 DEF FetchAnswered, IInv, TypeOK
  <2>3. AnswerCurrent' /\ DataCurrent' /\ ShownIsCurrent'
    BY <1>2, <2>1, <2>2, SameSaves DEF IInv, AnswerCurrent, DataCurrent, ShownIsCurrent, HasData
  <2> QED BY <1>1, <1>3, <2>3 DEF IInv
<1>5. CASE FetchSettled
  <2>1. /\ data' = fetch.rows /\ age' = "fresh" /\ fetch'.phase = "idle"
        /\ dropped' = dropped \ fetch.rows /\ Owed \subseteq fetch.rows
    BY <1>5 DEF FetchSettled, Idle, IInv, AnswerCurrent
  <2>2. Owed' \subseteq fetch.rows
    BY <1>2, <2>1 DEF Owed, Answered
  <2>3. HasData'
    BY <2>1, NoDataIsNoRows DEF HasData, IInv, TypeOK
  <2>4. AnswerCurrent' /\ DataCurrent' /\ ShownIsCurrent'
    BY <2>1, <2>2, <2>3 DEF AnswerCurrent, DataCurrent, ShownIsCurrent
  <2> QED BY <1>1, <1>3, <2>4 DEF IInv
<1>6. CASE FetchFailed
  <2>1. UNCHANGED <<data, dropped>>
    BY <1>6 DEF FetchFailed
  <2>2. \/ fetch'.phase = "sent" /\ UNCHANGED <<age, error>>
        \/ fetch'.phase = "idle" /\ age' = "invalid" /\ error' = TRUE
    BY <1>6 DEF FetchFailed, Asked, Idle
  <2>3. AnswerCurrent' /\ DataCurrent' /\ ShownIsCurrent'
    BY <1>2, <2>1, <2>2, SameSaves DEF IInv, AnswerCurrent, DataCurrent, ShownIsCurrent, HasData
  <2> QED BY <1>1, <1>3, <2>3 DEF IInv
<1> QED BY <1>4, <1>5, <1>6

LEMMA EntryStep ==
  ASSUME IInv, Age \/ Focus \/ Collect
  PROVE  IInv'
<1>1. TypeOK'
  BY EntryTyped DEF IInv
<1>2. UNCHANGED <<views, view, saves, stored>>
  BY DEF Age, Focus, Collect
<1>3. SoundViews' /\ SoundSaves' /\ Carried' /\ Replies'
  BY <1>2, SameSaves DEF IInv, SoundViews
<1>4. CASE Age
  BY <1>1, <1>2, <1>3, <1>4, SameSaves DEF Age, IInv, AnswerCurrent, DataCurrent, ShownIsCurrent, HasData
<1>5. CASE Focus
  <2>1. UNCHANGED <<data, age, error, dropped>> /\ (fetch' = fetch \/ fetch'.phase = "sent")
    BY <1>5 DEF Focus, LoadedBy, Asked
  <2> QED BY <1>1, <1>2, <1>3, <2>1, SameSaves DEF IInv, AnswerCurrent, DataCurrent, ShownIsCurrent, HasData
<1>6. CASE Collect
  BY <1>1, <1>2, <1>3, <1>6 DEF Collect, IInv, AnswerCurrent, DataCurrent, ShownIsCurrent, HasData
<1> QED BY <1>4, <1>5, <1>6

\* A save that has not yet been answered owes nothing.
LEMMA UnansweredStep ==
  ASSUME IInv, TypeOK', NEW o \in Save, saves[o].phase # "answered",
         UNCHANGED <<views, view, entry, dropped>>,
         NEW r \in Saves, saves' = [saves EXCEPT ![o] = r], r.phase # "answered", Sound(r.effect),
         stored \subseteq stored', r.phase = "applied" => o \in stored' /\ (r.effect.sets => o \in r.reply)
  PROVE  IInv'
<1>1. \A u \in Save : saves'[u] = IF u = o THEN r ELSE saves[u]
  BY DEF IInv, TypeOK
<1>2. SoundViews'
  BY DEF IInv, SoundViews
<1>3. SoundSaves' /\ Carried' /\ Replies'
  BY <1>1 DEF IInv, SoundSaves, Carried, Replies
<1>4. Owed' = Owed
  BY <1>1 DEF Owed, Answered
<1>5. AnswerCurrent' /\ DataCurrent' /\ ShownIsCurrent'
  BY <1>4 DEF entry, IInv, AnswerCurrent, DataCurrent, ShownIsCurrent, HasData
<1> QED BY <1>2, <1>3, <1>5 DEF IInv

LEMMA SendStep ==
  ASSUME IInv, NEW o \in Save, (\E e \in view.offers : SendSave(o, e)) \/ Submit(o)
  PROVE  IInv'
<1>1. TypeOK'
  BY SendTyped DEF IInv
<1>2. CASE \E e \in view.offers : SendSave(o, e)
  <2>1. PICK e \in view.offers : SendSave(o, e)
    BY <1>2
  <2> DEFINE r == [NewSave EXCEPT !.effect = e]
  <2>2. e \in Effects /\ Sound(e)
    BY DEF IInv, TypeOK, Views, SoundViews, SoundView, SoundPage
  <2>3. r \in Saves
    BY <2>2, SavesTyped
  <2>4. r.phase = "sent" /\ r.effect = e
    BY DEF NewSave
  <2>5. saves' = [saves EXCEPT ![o] = r] /\ saves[o].phase # "answered" /\ UNCHANGED <<views, view, entry, dropped, stored>>
    BY <2>1 DEF SendSave
  <2> HIDE DEF r
  <2> QED BY <1>1, <2>2, <2>3, <2>4, <2>5, UnansweredStep
<1>3. CASE Submit(o)
  <2> DEFINE r == [NewSave EXCEPT !.effect = view.form.effect, !.alone = view.form.alone, !.known = known, !.base = seed]
  <2>1. saves' = [saves EXCEPT ![o] = r] /\ saves[o].phase # "answered" /\ UNCHANGED <<views, view, entry, dropped, stored>>
    BY <1>3 DEF Submit
  <2>2. r = saves'[o]
    BY <2>1 DEF IInv, TypeOK
  <2>3. r \in Saves
    BY <1>1, <2>2 DEF TypeOK
  <2>4. r.phase = "sent" /\ r.effect = view.form.effect
    BY DEF NewSave
  <2>5. Sound(view.form.effect)
    BY <1>3 DEF Submit, HasForm, IInv, SoundViews, SoundView, SoundPage
  <2> HIDE DEF r
  <2> QED BY <1>1, <2>1, <2>3, <2>4, <2>5, UnansweredStep
<1> QED BY <1>2, <1>3

LEMMA AppliedStep ==
  ASSUME IInv, NEW o \in Save, SaveApplied(o)
  PROVE  IInv'
<1>1. TypeOK'
  BY AppliedTyped DEF IInv
<1> DEFINE r == saves'[o]
<1>2. r \in Saves
  BY <1>1 DEF TypeOK
<1>3. saves[o] \in Saves
  BY DEF IInv, TypeOK
<1>4. r.phase = "applied" /\ r.effect = saves[o].effect /\ (r.effect.sets => r.reply = stored')
  BY <1>3 DEF SaveApplied, IInv, TypeOK, Saves
<1>5. saves' = [saves EXCEPT ![o] = r]
  BY DEF SaveApplied, IInv, TypeOK
<1>6. stored' = stored \cup {o} /\ UNCHANGED <<views, view, entry, dropped>> /\ saves[o].phase = "sent"
  BY DEF SaveApplied
<1>7. Sound(r.effect)
  BY <1>4 DEF IInv, SoundSaves
<1> HIDE DEF r
<1> QED BY <1>1, <1>2, <1>4, <1>5, <1>6, <1>7, UnansweredStep

LEMMA FailedStep ==
  ASSUME IInv, NEW o \in Save, SaveFailed(o)
  PROVE  IInv'
<1>1. TypeOK'
  BY FailedTyped DEF IInv
<1> DEFINE r == Ended(o, "failed")
<1>2. r \in Saves
  BY EndedTyped DEF IInv
<1>3. r.phase = "failed" /\ r.effect = saves[o].effect
  BY DEF Ended, NewSave
<1>4. saves' = [saves EXCEPT ![o] = r] /\ UNCHANGED <<views, view, entry, dropped, stored>> /\ saves[o].phase # "answered"
  BY DEF SaveFailed
<1>5. Sound(r.effect)
  BY <1>3 DEF IInv, SoundSaves
<1> HIDE DEF r
<1> QED BY <1>1, <1>2, <1>3, <1>4, <1>5, UnansweredStep

\* What an answered save leaves of the saves that are owed.
LEMMA OwedAfterSave ==
  ASSUME IInv, NEW o \in Save, SaveAnswered(o)
  PROVE  /\ Answered' = Answered \cup {o}
         /\ Owed' \subseteq (Owed \cup {o}) \ dropped'
         /\ o \in Owed' => saves[o].effect.sets \/ saves[o].effect.refreshes
<1>1. \A u \in Save : saves'[u] = IF u = o THEN Ended(o, "answered") ELSE saves[u]
  BY DEF SaveAnswered, IInv, TypeOK
<1>2. Ended(o, "answered").phase = "answered" /\ Ended(o, "answered").effect = saves[o].effect
  BY DEF Ended, NewSave
<1>3. Answered' = Answered \cup {o}
  BY <1>1, <1>2 DEF Answered
<1>4. dropped \subseteq dropped'
  BY DEF SaveAnswered, WriteByHand, Invalidate
<1>5. Owed' \subseteq (Owed \cup {o}) \ dropped'
  BY <1>1, <1>2, <1>3, <1>4 DEF Owed, Answered
<1>6. o \in Owed' => saves[o].effect.writes /\ ~saves[o].effect.gap
  BY <1>1, <1>2 DEF Owed
<1>7. Sound(saves[o].effect)
  BY DEF IInv, SoundSaves
<1> QED BY <1>3, <1>5, <1>6, <1>7 DEF Sound

LEMMA AnsweredStep ==
  ASSUME IInv, NEW o \in Save, SaveAnswered(o)
  PROVE  IInv'
<1>1. TypeOK'
  BY AnsweredTyped DEF IInv
<1>2. UNCHANGED <<views, stored>> /\ saves[o].phase = "applied"
  BY DEF SaveAnswered
<1>3. \A u \in Save : saves'[u] = IF u = o THEN Ended(o, "answered") ELSE saves[u]
  BY DEF SaveAnswered, IInv, TypeOK
<1>4. Ended(o, "answered").phase = "answered" /\ Ended(o, "answered").effect = saves[o].effect
  BY DEF Ended, NewSave
<1>5. SoundSaves' /\ Carried' /\ Replies'
  BY <1>2, <1>3, <1>4 DEF IInv, SoundSaves, Carried, Replies
<1>6. SoundView(view)
  BY DEF IInv, SoundViews
<1>7. SoundView(view') /\ (view'.shown => view.shown)
  <2>1. CASE view' = view
    BY <1>6, <2>1
  <2>2. CASE view' = [shown |-> view.below.shown, offers |-> view.below.offers, form |-> NoForm, below |-> view.below]
    BY <1>6, <2>2 DEF SoundView, SoundPage
  <2> QED BY <2>1, <2>2 DEF SaveAnswered
<1>8. SoundViews'
  BY <1>2, <1>7 DEF IInv, SoundViews
<1>9. CASE saves[o].effect.sets
  <2>1. WriteByHand(o)
    BY <1>9 DEF SaveAnswered
  <2>2. o \in saves[o].reply /\ saves[o].reply \subseteq Save
    BY <1>2, <1>9 DEF IInv, Replies, TypeOK, Saves
  <2>3. data' = saves[o].reply /\ age' = "fresh" /\ fetch' = fetch
    BY <2>1 DEF WriteByHand
  <2>4. Owed' \subseteq data'
    BY <2>1, <2>2, OwedAfterSave DEF WriteByHand, Owed
  <2>5. fetch.phase = "answered" => Owed' \subseteq fetch.rows
    BY <2>1, OwedAfterSave DEF WriteByHand, Swallows, IInv, AnswerCurrent
  <2>6. HasData'
    BY <2>2, <2>3, NoDataIsNoRows DEF HasData
  <2>7. AnswerCurrent' /\ DataCurrent' /\ ShownIsCurrent'
    BY <2>3, <2>4, <2>5, <2>6 DEF AnswerCurrent, DataCurrent, ShownIsCurrent
  <2> QED BY <1>1, <1>5, <1>8, <2>7 DEF IInv
<1>10. CASE ~saves[o].effect.sets /\ saves[o].effect.refreshes
  <2>1. Invalidate(o)
    BY <1>10 DEF SaveAnswered
  <2>2. UNCHANGED <<data, error>> /\ (HasData => age' = "invalid") /\ (HasData' <=> HasData)
    BY <2>1 DEF Invalidate, HasData
  <2>3. CASE fetch'.phase = "sent" /\ view.shown /\ (fetch.phase = "idle" \/ HasData)
    BY <1>1, <1>5, <1>8, <2>2, <2>3 DEF IInv, AnswerCurrent, DataCurrent, ShownIsCurrent
  <2>4. CASE fetch' = fetch /\ (Swallows(o) => o \in dropped') /\ ~(view.shown /\ (fetch.phase = "idle" \/ HasData))
    <3>1. fetch.phase = "answered" => Owed' \subseteq fetch.rows
      BY <2>4, OwedAfterSave DEF Swallows, IInv, AnswerCurrent
    <3>2. AnswerCurrent' /\ DataCurrent'
      BY <2>2, <2>4, <3>1 DEF AnswerCurrent, DataCurrent
    <3>3. ShownIsCurrent'
      BY <1>7, <2>4 DEF ShownIsCurrent
    <3> QED BY <1>1, <1>5, <1>8, <3>2, <3>3 DEF IInv
  <2> QED BY <2>1, <2>3, <2>4 DEF Invalidate, Asked
<1>11. CASE ~saves[o].effect.sets /\ ~saves[o].effect.refreshes
  <2>1. UNCHANGED <<entry, dropped>>
    BY <1>11 DEF SaveAnswered
  <2>2. Owed' \subseteq Owed
    BY <1>11, <2>1, OwedAfterSave
  <2>3. AnswerCurrent' /\ DataCurrent' /\ ShownIsCurrent'
    BY <1>7, <2>1, <2>2 DEF entry, IInv, AnswerCurrent, DataCurrent, ShownIsCurrent, HasData
  <2> QED BY <1>1, <1>5, <1>8, <2>3 DEF IInv
<1> QED BY <1>9, <1>10, <1>11

LEMMA InvStep == ASSUME IInv, [Next]_vars PROVE IInv'
<1>1. CASE UNCHANGED vars
  <2>1. UNCHANGED <<views, view, data, age, error, fetch, saves, stored, dropped>>
    BY <1>1 DEF vars
  <2>2. TypeOK'
    BY TypeStep DEF IInv
  <2> QED BY <2>1, <2>2, SameSaves DEF IInv, SoundViews, AnswerCurrent, DataCurrent, ShownIsCurrent, HasData
<1>2. CASE Next
  BY <1>2, VisitStep, FetchStep, EntryStep, SendStep, AppliedStep, AnsweredStep, FailedStep DEF Next
<1> QED BY <1>1, <1>2

LEMMA InvShows == ASSUME IInv PROVE OwnWritesShown
BY DEF IInv, OwnWritesShown, ShownIsCurrent, DataCurrent

\* A settled screen shows every save of this tab that was confirmed, but for the
\* keys listed as gaps and the answers that overtook one another, if the gaps
\* list every key a hook leaves.
THEOREM OwnWrites == GapsListed => (Spec => []OwnWritesShown)
<1> SUFFICES ASSUME GapsListed PROVE Spec => []OwnWritesShown
  OBVIOUS
<1>1. Init => IInv
  BY InitInv
<1>2. IInv /\ [Next]_vars => IInv'
  BY InvStep
<1>3. IInv => OwnWritesShown
  BY InvShows
<1> QED BY <1>1, <1>2, <1>3, PTL DEF Spec

-----------------------------------------------------------------------------
(* No form writes back what it never showed.                               *)
(*                                                                         *)
(* The argument: a form in a dialog opens over a page that shows the       *)
(* entry, so what that page shows when nothing is in flight is what the    *)
(* form is filled in from, and OwnWritesShown says that it reflects every  *)
(* save the tab has seen succeed.  The form keeps them (FormKnows), for an *)
(* answer it is filled in from again is younger than they are              *)
(* (AnswerKnows); so does the save it makes (SavesKnow).                   *)

FitsEffect(e) == e.rewrites => e.writes
FitsPage(v) == (\A e \in v.offers : FitsEffect(e)) /\ (v.form # NoForm => FitsEffect(v.form.effect))
FitsView(v) == FitsPage(v) /\ FitsPage(v.below)

\* A dialog with a form that is not the only one to have the entry mounted lies
\* over a page that has, and is not that page.
LiesOver(v) == v.form # NoForm /\ ~v.form.alone => v.below.shown /\ v.below # Top(v)

ViewsFit == (\A v \in views : FitsView(v) /\ LiesOver(v)) /\ FitsView(view)
SavesFit == \A o \in Save : FitsEffect(saves[o].effect)

\* Save v has replaced values that forms filled in from the entry write.
Replaced(v) == saves[v].effect.rewrites /\ ~saves[v].effect.gap

KnownAnswered == known \subseteq Answered /\ \A o \in Save : saves[o].known \subseteq Answered
AnswerKnows == fetch.phase = "answered" => known \subseteq fetch.rows
FormKnows == HasForm /\ ~view.form.alone => \A v \in known : Replaced(v) => seed # NoData /\ v \in seed
SavesKnow == \A o \in Save : \A v \in saves[o].known \ saves[o].base : Replaced(v) => saves[o].alone
UndoneUsed == \A v, b \in Save : <<v, b>> \in undone => saves[v].phase # "unused" /\ saves[b].phase # "unused"

IInvForms == ViewsFit /\ SavesFit /\ KnownAnswered /\ AnswerKnows /\ FormKnows /\ SavesKnow /\ UndoneUsed /\ NoRevert

LEMMA EffectsFit ==
  ASSUME NEW k \in Key, NEW m \in Mutation
  PROVE  FitsEffect(Effect(k, m))
BY DEF FitsEffect, Effect

LEMMA PagesFit ==
  ASSUME NEW k \in Key, NEW s \in Screen
  PROVE  FitsPage(PageView(k, s))
<1>1. Buttons(k, s) \subseteq Mutation
  BY TablesAssumption DEF TablesAssumption, Buttons
<1>2. \A e \in PageView(k, s).offers : FitsEffect(e)
  BY <1>1, EffectsFit DEF PageView
<1>3. ASSUME FilledFrom(s, k) PROVE FitsEffect(FormView(k, s).effect)
  <2>1. Form[s].saves \in Mutation
    BY <1>3, TablesAssumption DEF TablesAssumption, FilledFrom
  <2> QED BY <1>3, <2>1, EffectsFit DEF FormView
<1>4. PageView(k, s).form = FormView(k, s) /\ (~FilledFrom(s, k) => FormView(k, s) = NoForm)
  BY DEF PageView, FormView
<1> QED BY <1>2, <1>3, <1>4 DEF FitsPage

LEMMA ViewsOfFit ==
  ASSUME NEW k \in Key, NEW p \in Portal
  PROVE  \A v \in ViewsOf(k, p) : FitsView(v) /\ LiesOver(v)
<1> SUFFICES ASSUME NEW s \in ScreensOf[p] PROVE FitsView(View(k, s)) /\ LiesOver(View(k, s))
  BY DEF ViewsOf
<1>1. s \in Screen /\ Behind[s] \in Screen
  BY TablesAssumption DEF TablesAssumption
<1>2. FitsPage(PageView(k, s)) /\ FitsPage(PageView(k, Behind[s]))
  BY <1>1, PagesFit
<1>3. /\ View(k, s).below = PageView(k, Behind[s]) /\ View(k, s).form = FormView(k, s)
      /\ View(k, s).offers = PageView(k, s).offers /\ PageView(k, s).form = FormView(k, s)
  BY DEF View, PageView
<1>4. FitsView(View(k, s))
  BY <1>2, <1>3 DEF FitsView, FitsPage
<1>5. ASSUME FormView(k, s) # NoForm, ~FormView(k, s).alone
      PROVE  PageView(k, Behind[s]).shown /\ FormView(k, Behind[s]) = NoForm
  <2>1. FilledFrom(s, k) /\ Behind[s] # s /\ k \in Watches[Behind[s]]
    BY <1>5 DEF FormView
  <2>2. ~FilledFrom(Behind[s], k)
    BY <1>1, <2>1, TablesAssumption DEF TablesAssumption, FilledFrom
  <2> QED BY <2>1, <2>2 DEF PageView, FormView
<1>6. PageView(k, Behind[s]).form = FormView(k, Behind[s]) /\ Top(View(k, s)).form = FormView(k, s)
  BY DEF PageView, Top, View
<1> QED BY <1>3, <1>4, <1>5, <1>6 DEF LiesOver

LEMMA ElsewhereFits == FitsView(Elsewhere) /\ LiesOver(Elsewhere)
BY DEF Elsewhere, FitsView, FitsPage, LiesOver

LEMMA InitForms == ASSUME Init PROVE IInvForms
<1>1. PICK p \in Portal : \E k \in UNION {Watches[s] : s \in ScreensOf[p]} : views = ViewsOf(k, p)
  BY DEF Init
<1>2. PICK k \in UNION {Watches[s] : s \in ScreensOf[p]} : views = ViewsOf(k, p)
  BY <1>1
<1>3. k \in Key
  BY TablesAssumption DEF TablesAssumption
<1>4. ViewsFit
  BY <1>2, <1>3, ViewsOfFit, ElsewhereFits DEF ViewsFit, Init
<1>5. \A o \in Save : saves[o].effect = NoEffect /\ saves[o].known = {}
  BY DEF Init, NewSave
<1>6. known = {} /\ undone = {} /\ fetch.phase = "idle" /\ view.form = NoForm
  BY DEF Init, Idle, Elsewhere
<1>7. SavesFit
  BY <1>5 DEF SavesFit, FitsEffect, NoEffect
<1> QED BY <1>4, <1>5, <1>6, <1>7
        DEF IInvForms, KnownAnswered, AnswerKnows, FormKnows, SavesKnow, UndoneUsed, NoRevert, HasForm

-----------------------------------------------------------------------------
(* What a step leaves of the saves.                                        *)

\* A save that has been sent keeps what it is; one that was answered stays so.
Forward(o) ==
  saves[o].phase # "unused" =>
    /\ saves'[o].phase # "unused" /\ saves'[o].effect = saves[o].effect /\ saves'[o].alone = saves[o].alone
    /\ saves[o].phase = "answered" => saves'[o].phase = "answered"

\* What a save remembers of the form that made it.
Remembers(o) ==
  \/ saves'[o].known = {}
  \/ saves'[o].known = saves[o].known /\ saves'[o].base = saves[o].base /\ saves'[o].alone = saves[o].alone
  \/ HasForm /\ seed # NoData /\ saves'[o].known = known /\ saves'[o].base = seed /\ saves'[o].alone = view.form.alone

SavesMove ==
  \A o \in Save : Forward(o) /\ Remembers(o) /\ FitsEffect(saves'[o].effect)

LEMMA OneSaveMoves ==
  ASSUME TypeOK, SavesFit, NEW o \in Save, NEW r, saves' = [saves EXCEPT ![o] = r], FitsEffect(r.effect),
         saves[o].phase = "unused" \/ (r.phase # "unused" /\ r.effect = saves[o].effect /\ r.alone = saves[o].alone),
         saves[o].phase # "answered",
         \/ r.known = {}
         \/ r.known = saves[o].known /\ r.base = saves[o].base /\ r.alone = saves[o].alone
         \/ HasForm /\ seed # NoData /\ r.known = known /\ r.base = seed /\ r.alone = view.form.alone
  PROVE  SavesMove
<1>1. saves'[o] = r /\ \A u \in Save \ {o} : saves'[u] = saves[u]
  BY DEF TypeOK
<1>2. Forward(o) /\ Remembers(o) /\ FitsEffect(saves'[o].effect)
  BY <1>1 DEF Forward, Remembers
<1>3. \A u \in Save \ {o} : Forward(u) /\ Remembers(u) /\ FitsEffect(saves'[u].effect)
  BY <1>1 DEF Forward, Remembers, SavesFit
<1> QED BY <1>2, <1>3 DEF SavesMove

LEMMA SavesForward == ASSUME TypeOK, ViewsFit, SavesFit, [Next]_vars PROVE SavesMove
<1>1. CASE UNCHANGED saves
  BY <1>1 DEF SavesMove, Forward, Remembers, SavesFit
<1>2. ASSUME NEW o \in Save, NEW e \in view.offers, SendSave(o, e) PROVE SavesMove
  <2> DEFINE r == [NewSave EXCEPT !.effect = e]
  <2>1. r.effect = e /\ r.known = {} /\ saves' = [saves EXCEPT ![o] = r] /\ saves[o].phase = "unused"
    BY <1>2 DEF NewSave, SendSave
  <2>2. FitsEffect(e)
    BY DEF ViewsFit, FitsView, FitsPage
  <2> HIDE DEF r
  <2> QED BY <2>1, <2>2, OneSaveMoves
<1>3. ASSUME NEW o \in Save, Submit(o) PROVE SavesMove
  <2> DEFINE r == [NewSave EXCEPT !.effect = view.form.effect, !.alone = view.form.alone, !.known = known, !.base = seed]
  <2>1. r.effect = view.form.effect /\ r.alone = view.form.alone /\ r.known = known /\ r.base = seed
    BY DEF NewSave
  <2>2. saves' = [saves EXCEPT ![o] = r] /\ saves[o].phase = "unused" /\ HasForm /\ seed # NoData
    BY <1>3 DEF Submit
  <2>3. FitsEffect(view.form.effect)
    BY <2>2 DEF HasForm, ViewsFit, FitsView, FitsPage
  <2> HIDE DEF r
  <2> QED BY <2>1, <2>2, <2>3, OneSaveMoves
<1>4. ASSUME NEW o \in Save, SaveApplied(o) PROVE SavesMove
  <2> DEFINE r == saves'[o]
  <2>1. saves[o] \in Saves
    BY DEF TypeOK
  <2>2. /\ r.phase = "applied" /\ r.effect = saves[o].effect /\ r.alone = saves[o].alone
        /\ r.known = saves[o].known /\ r.base = saves[o].base
    BY <1>4, <2>1 DEF SaveApplied, TypeOK, Saves
  <2>3. saves' = [saves EXCEPT ![o] = r] /\ saves[o].phase = "sent"
    BY <1>4 DEF SaveApplied, TypeOK
  <2>4. FitsEffect(saves[o].effect)
    BY DEF SavesFit
  <2> HIDE DEF r
  <2> QED BY <2>2, <2>3, <2>4, OneSaveMoves
<1>5. ASSUME NEW o \in Save, NEW phase \in {"answered", "failed"}, saves' = [saves EXCEPT ![o] = Ended(o, phase)],
             saves[o].phase \in {"sent", "applied"}
      PROVE  SavesMove
  <2> DEFINE r == Ended(o, phase)
  <2>1. r.phase = phase /\ r.effect = saves[o].effect /\ r.alone = saves[o].alone /\ r.known = {}
    BY DEF Ended, NewSave
  <2>2. FitsEffect(saves[o].effect) /\ saves' = [saves EXCEPT ![o] = r]
    BY <1>5 DEF SavesFit
  <2> HIDE DEF r
  <2> QED BY <1>5, <2>1, <2>2, OneSaveMoves
<1>6. ASSUME NEW o \in Save, SaveAnswered(o) \/ SaveFailed(o) PROVE SavesMove
  BY <1>5, <1>6 DEF SaveAnswered, SaveFailed
<1> QED BY <1>1, <1>2, <1>3, <1>4, <1>6
        DEF Next, Visit, FetchAnswered, FetchSettled, FetchFailed, Age, Focus, Collect, vars

-----------------------------------------------------------------------------
(* The steps, one conjunct at a time.                                      *)

LEMMA AnsweredStays ==
  ASSUME SavesMove
  PROVE  /\ Answered \subseteq Answered'
         /\ \A v \in Answered : Replaced(v)' <=> Replaced(v)
BY DEF SavesMove, Forward, Answered, Replaced

LEMMA UndoneStays ==
  ASSUME IInvForms, SavesMove, UNCHANGED undone
  PROVE  UndoneUsed' /\ NoRevert'
BY DEF IInvForms, UndoneUsed, NoRevert, SavesMove, Forward

\* What follows from what the step does to the saves alone.
LEMMA FormsStep ==
  ASSUME IInvForms, SavesMove, UNCHANGED views, FitsView(view'), known' \subseteq Answered',
         AnswerKnows', FormKnows', UndoneUsed', NoRevert'
  PROVE  IInvForms'
<1>1. ViewsFit'
  BY DEF IInvForms, ViewsFit
<1>2. SavesFit'
  BY DEF SavesMove, SavesFit
<1>3. \A o \in Save : saves[o].known \subseteq Answered /\ known \subseteq Answered
  BY DEF IInvForms, KnownAnswered
<1>4. \A o \in Save : saves'[o].known \subseteq Answered'
  BY <1>3, AnsweredStays DEF SavesMove, Remembers
<1>5. ASSUME NEW o \in Save, NEW v \in saves'[o].known \ saves'[o].base, Replaced(v)' PROVE saves'[o].alone
  <2>1. CASE saves'[o].known = saves[o].known /\ saves'[o].base = saves[o].base /\ saves'[o].alone = saves[o].alone
    BY <1>3, <1>5, <2>1, AnsweredStays DEF IInvForms, SavesKnow
  <2>2. CASE HasForm /\ seed # NoData /\ saves'[o].known = known /\ saves'[o].base = seed /\ saves'[o].alone = view.form.alone
    BY <1>3, <1>5, <2>2, AnsweredStays DEF IInvForms, FormKnows
  <2> QED BY <1>5, <2>1, <2>2 DEF SavesMove, Remembers
<1>6. SavesKnow'
  BY <1>5 DEF SavesKnow
<1>7. KnownAnswered'
  BY <1>4 DEF KnownAnswered
<1> QED BY <1>1, <1>2, <1>6, <1>7 DEF IInvForms

\* The open form stays as it is, or shows more saves.
LEMMA FormStays ==
  ASSUME IInvForms, SavesMove, UNCHANGED <<view, known>>, seed' = seed \/ (seed # NoData /\ seed' # NoData /\ seed \subseteq seed')
  PROVE  known' \subseteq Answered' /\ FormKnows'
<1>1. known \subseteq Answered
  BY DEF IInvForms, KnownAnswered
<1> QED BY <1>1, AnsweredStays DEF IInvForms, FormKnows, HasForm

\* A step of the entry alone.
LEMMA EntryForms ==
  ASSUME IInv, IInvForms, SavesMove, UNCHANGED <<views, view, undone>>, UNCHANGED form, AnswerKnows'
  PROVE  IInvForms'
<1>1. UNCHANGED <<seed, known>>
  BY DEF form
<1>2. FitsView(view')
  BY DEF IInvForms, ViewsFit
<1> QED BY <1>1, <1>2, FormStays, UndoneStays, FormsStep

LEMMA VisitForms ==
  ASSUME IInv, IInvForms, SavesMove, NEW v \in views \cup {Elsewhere}, Visit(v)
  PROVE  IInvForms'
<1>1. UNCHANGED <<views, data, saves, stored, undone>> /\ view' = v /\ fetch' = LoadedBy(v.shown)
  BY DEF Visit
<1>2. FitsView(v) /\ LiesOver(v)
  BY ElsewhereFits DEF IInvForms, ViewsFit
<1>3. known' = IF v.form # NoForm /\ AtRest THEN Answered \ dropped ELSE {}
  BY DEF Visit
<1>4. known' \subseteq Answered'
  BY <1>1, <1>3 DEF Answered
<1>5. AnswerKnows'
  BY <1>1, <1>3 DEF AnswerKnows, LoadedBy, AtRest, Asked
<1>6. FormKnows'
  <2>1. SUFFICES ASSUME v.form # NoForm, ~v.form.alone, NEW u \in known', Replaced(u)'
                 PROVE  seed' # NoData /\ u \in seed'
    BY <1>1 DEF FormKnows, HasForm
  <2>2. AtRest /\ u \in Answered \ dropped
    BY <1>3, <2>1
  <2>3. saves[u].effect.writes /\ ~saves[u].effect.gap
    BY <1>1, <2>1, <2>2 DEF Replaced, Answered, IInvForms, SavesFit, FitsEffect
  <2>4. u \in Owed
    BY <2>2, <2>3 DEF Owed
  <2>5. view.shown
    BY <1>2, <2>1 DEF LiesOver, Visit, Top
  <2>6. HasData /\ u \in data
    BY <2>2, <2>4, <2>5, InvShows DEF OwnWritesShown, AtRest
  <2>7. seed' = data
    BY <2>1, <2>6 DEF Visit
  <2> QED BY <2>6, <2>7 DEF HasData
<1> QED BY <1>1, <1>2, <1>4, <1>5, <1>6, UndoneStays, FormsStep

LEMMA FetchForms ==
  ASSUME IInv, IInvForms, SavesMove, FetchAnswered \/ FetchSettled \/ FetchFailed
  PROVE  IInvForms'
<1>1. known \subseteq stored
  BY DEF IInv, Carried, IInvForms, KnownAnswered, Answered
<1>2. CASE FetchAnswered
  <2>1. fetch'.rows = stored
    BY <1>2 DEF FetchAnswered, IInv, TypeOK
  <2>2. AnswerKnows'
    BY <1>1, <1>2, <2>1 DEF AnswerKnows, FetchAnswered, form
  <2> QED BY <1>2, <2>2, EntryForms DEF FetchAnswered
<1>3. CASE FetchFailed
  <2>1. AnswerKnows'
    BY <1>3 DEF AnswerKnows, FetchFailed, Asked, Idle
  <2> QED BY <1>3, <2>1, EntryForms DEF FetchFailed
<1>4. CASE FetchSettled
  <2>1. UNCHANGED <<views, view, known, undone>> /\ AnswerKnows'
    BY <1>4 DEF FetchSettled, AnswerKnows, Idle
  <2>2. FitsView(view')
    BY <2>1 DEF IInvForms, ViewsFit
  <2>3. known \subseteq fetch.rows /\ fetch.rows # NoData
    BY <1>4, NoDataIsNoRows DEF FetchSettled, IInvForms, AnswerKnows, IInv, TypeOK
  <2>4. CASE seed' = seed
    BY <2>1, <2>2, <2>4, FormStays, UndoneStays, FormsStep
  <2>5. CASE seed' = fetch.rows
    <3>1. FormKnows'
      BY <2>1, <2>3, <2>5 DEF FormKnows
    <3>2. known' \subseteq Answered'
      BY <2>1, AnsweredStays DEF IInvForms, KnownAnswered
    <3> QED BY <2>1, <2>2, <3>1, <3>2, UndoneStays, FormsStep
  <2> QED BY <1>4, <2>4, <2>5 DEF FetchSettled
<1> QED BY <1>2, <1>3, <1>4

LEMMA QuietForms ==
  ASSUME IInv, IInvForms, SavesMove, Age \/ Focus \/ Collect
  PROVE  IInvForms'
<1>1. UNCHANGED <<views, view, undone, form>> /\ (fetch' = fetch \/ fetch'.phase = "sent")
  BY DEF Age, Focus, Collect, LoadedBy, Asked
<1>2. AnswerKnows'
  BY <1>1 DEF AnswerKnows, IInvForms, form
<1> QED BY <1>1, <1>2, EntryForms

LEMMA SaveForms ==
  ASSUME IInv, IInvForms, SavesMove, NEW o \in Save,
         (\E e \in view.offers : SendSave(o, e)) \/ Submit(o) \/ SaveFailed(o)
  PROVE  IInvForms'
<1>1. UNCHANGED <<views, view, known, undone, fetch>>
  BY DEF SendSave, Submit, SaveFailed, entry, form
<1>2. seed' = seed \/ (seed # NoData /\ seed' = seed \cup {o})
  BY DEF SendSave, Submit, SaveFailed, form
<1>3. seed \cup {o} # NoData \/ seed' = seed
  BY <1>2, NoDataIsNoRows DEF IInv, TypeOK
<1>4. FitsView(view') /\ AnswerKnows'
  BY <1>1 DEF IInvForms, ViewsFit, AnswerKnows
<1>5. known' \subseteq Answered' /\ FormKnows'
  BY <1>1, <1>2, <1>3, FormStays
<1> QED BY <1>1, <1>4, <1>5, UndoneStays, FormsStep

LEMMA AppliedForms ==
  ASSUME IInv, IInvForms, SavesMove, NEW o \in Save, SaveApplied(o)
  PROVE  IInvForms'
<1>1. UNCHANGED <<views, view, known, seed, fetch>> /\ saves[o].phase = "sent"
  BY DEF SaveApplied, entry, form
<1>2. FitsView(view') /\ AnswerKnows'
  BY <1>1 DEF IInvForms, ViewsFit, AnswerKnows
<1>3. known' \subseteq Answered' /\ FormKnows'
  BY <1>1, FormStays
<1>4. ASSUME NEW v \in Save, NEW b \in Save, <<v, b>> \in undone'
      PROVE  /\ saves[v].phase # "unused" /\ saves[b].phase # "unused"
             /\ saves[b].alone \/ saves[v].effect.gap
  <2>1. CASE <<v, b>> \in undone
    BY <2>1 DEF IInvForms, UndoneUsed, NoRevert
  <2>2. CASE b = o /\ v \in saves[o].known \ saves[o].base /\ saves[v].effect.rewrites
    <3>1. saves[v].phase = "answered"
      BY <2>2 DEF IInvForms, KnownAnswered, Answered
    <3>2. saves[o].alone \/ ~Replaced(v)
      BY <2>2 DEF IInvForms, SavesKnow
    <3> QED BY <1>1, <2>2, <3>1, <3>2 DEF Replaced
  <2> QED BY <1>4, <2>1, <2>2 DEF SaveApplied
<1>5. UndoneUsed' /\ NoRevert'
  BY <1>4 DEF SavesMove, Forward, UndoneUsed, NoRevert
<1> QED BY <1>1, <1>2, <1>3, <1>5, FormsStep

LEMMA AnsweredForms ==
  ASSUME IInv, IInvForms, SavesMove, NEW o \in Save, SaveAnswered(o)
  PROVE  IInvForms'
<1>1. UNCHANGED <<views, undone>> /\ (fetch' = fetch \/ fetch'.phase = "sent")
  BY DEF SaveAnswered, WriteByHand, Invalidate, Asked, entry
<1>2. known \subseteq Answered'
  BY AnsweredStays DEF IInvForms, KnownAnswered
<1>3. CASE UNCHANGED <<view, seed, known>>
  <2>1. FitsView(view') /\ AnswerKnows'
    BY <1>1, <1>3 DEF IInvForms, ViewsFit, AnswerKnows
  <2> QED BY <1>1, <1>3, <2>1, FormStays, UndoneStays, FormsStep
<1>4. CASE /\ view' = [shown |-> view.below.shown, offers |-> view.below.offers, form |-> NoForm, below |-> view.below]
           /\ known' = {}
  <2>1. FitsView(view')
    BY <1>4 DEF IInvForms, ViewsFit, FitsView, FitsPage
  <2>2. AnswerKnows' /\ FormKnows'
    BY <1>4 DEF AnswerKnows, FormKnows
  <2> QED BY <1>1, <1>4, <2>1, <2>2, UndoneStays, FormsStep
<1> QED BY <1>3, <1>4 DEF SaveAnswered

LEMMA FormsInvStep == ASSUME IInv, IInvForms, [Next]_vars PROVE IInvForms'
<1>1. SavesMove
  BY SavesForward DEF IInv, IInvForms
<1>2. CASE UNCHANGED vars
  <2>1. UNCHANGED <<views, view, fetch, known, undone, form>>
    BY <1>2 DEF vars, form
  <2>2. AnswerKnows'
    BY <2>1 DEF IInvForms, AnswerKnows
  <2> QED BY <1>1, <2>1, <2>2, EntryForms
<1>3. CASE Next
  BY <1>1, <1>3, VisitForms, FetchForms, QuietForms, SaveForms, AppliedForms, AnsweredForms DEF Next
<1> QED BY <1>2, <1>3

\* A form opened over a page that shows the same rows, when nothing was in flight,
\* never writes back what a save this tab had seen succeed had replaced, but for
\* the keys listed as gaps, whatever the tables, if the gaps list every key a hook
\* leaves and no form lies over another that is filled in from the same key.
THEOREM FormsRevertNothing == GapsListed => (Spec => []NoRevert)
<1> SUFFICES ASSUME GapsListed PROVE Spec => []NoRevert
  OBVIOUS
<1>1. Init => IInv /\ IInvForms
  BY InitInv, InitForms
<1>2. IInv /\ IInvForms /\ [Next]_vars => IInv' /\ IInvForms'
  BY InvStep, FormsInvStep
<1>3. IInvForms => NoRevert
  BY DEF IInvForms
<1> QED BY <1>1, <1>2, <1>3, PTL DEF Spec
=============================================================================

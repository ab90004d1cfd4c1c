------------------------------- MODULE Screens ------------------------------
(***************************************************************************)
(* How a screen of the frontend is written down in AdminScreens,           *)
(* TeacherScreens, StudentScreens and SuperAdminScreens: the query keys    *)
(* its component has mounted, the saves its buttons send, the page it lies *)
(* over, and for an edit form the save it makes and the keys that fill it  *)
(* in, each                                                                *)
(*   "row"    from the row that was clicked, when the form opens,          *)
(*   "once"   from the form's own query, as soon as it has data,           *)
(*   "synced" like "row", and again whenever the row changes.              *)
(* Filters, sorting, wording and layout are left out, and so are the       *)
(* conditions on single rows (a paid invoice has no pay button): the tables *)
(* say what a screen can show and change.                                  *)
(***************************************************************************)
EXTENDS Queries

NoEdit == [saves |-> "", seeds |-> <<>>]

Page(watches, offers) == [behind |-> "", watches |-> watches, offers |-> offers, form |-> NoEdit]

\* A page that is itself a form; it stays open after a save.
FormPage(watches, offers, save, seeds) ==
  [behind |-> "", watches |-> watches, offers |-> offers \cup {save}, form |-> [saves |-> save, seeds |-> seeds]]

\* A dialog or a detail panel over a page.
Over(page, watches, offers) == [behind |-> page, watches |-> watches, offers |-> offers, form |-> NoEdit]

\* An edit dialog; it closes when its save has succeeded.
EditOver(page, watches, save, seeds) ==
  [behind |-> page, watches |-> watches, offers |-> {save}, form |-> [saves |-> save, seeds |-> seeds]]

=============================================================================

------------------------------ MODULE MCBrowser ------------------------------
(* Browser on small instances. *)
EXTENDS Browser, TLC

\* One teacher.
OneTeacher == [a \in Account |-> "teacher"]
=============================================================================

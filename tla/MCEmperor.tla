----------------------------- MODULE MCEmperor -----------------------------
(***************************************************************************)
(* Two configurations: one that waits for a connection or for a command and  *)
(* a plain one, and a pid more than they need.                               *)
(***************************************************************************)
EXTENDS Emperor

MCKinds == {<<"ondemand", "plain">>, <<"waiting", "plain">>}
=============================================================================

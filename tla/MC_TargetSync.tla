---------------------------- MODULE MC_TargetSync ----------------------------
(* One connected probe and one target; two admin requests and a reconnect.   *)
EXTENDS TargetSync, TLC

CONSTANTS t1, a1, j1, j2, j3

Requests ==
    (j1 :> {"create", "delete", "edit"}) @@ (j2 :> {"update"}) @@ (j3 :> {"connect"})

\* The values that change something: a target is created enabled and without overrides.
UpdatesMade == {<<"enabled", FALSE>>, <<"noRoute", TRUE>>}
EditsMade == {<<"paused", {t1}>>, <<"noRoute", {t1}>>}
=============================================================================

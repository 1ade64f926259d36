----------------------------- MODULE MCHookGate -----------------------------
(* HookGate for TLC: the checks are the attempts of the hooks. *)
EXTENDS HookGate, TLC

CONSTANT h1

MCHook == {h1}
TwoAttempts == MCHook \X (1 .. 2)
ThreeAttempts == MCHook \X (1 .. 3)
=============================================================================

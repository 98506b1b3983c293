----------------------------- MODULE SafeMalloc -----------------------------
(* Malloc with the clients and the host it works for.                      *)
EXTENDS Malloc

ASSUME SafeAssumption == SafeUse
=============================================================================

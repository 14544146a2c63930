------------------------------- MODULE MCGate -------------------------------
(***************************************************************************)
(* Two merchants, one schema and a refresh interval of two ticks.          *)
(***************************************************************************)
EXTENDS Gate, TLC

CONSTANTS m1, m2, s1, s0, null

MCMerchantSets == {{}, {m1}, {m1, m2}}
=============================================================================

---------------------------- MODULE MCLspTransport ----------------------------
(***************************************************************************)
(* One request, one acknowledged ask, two notifications of one method and  *)
(* a second method that stays quiet; pipes so small that both can be full. *)
(***************************************************************************)
EXTENDS LspTransport, TLC

CONSTANTS r1, a1, n1, n2, m1, m2

MCMethod == (n1 :> m1) @@ (n2 :> m1)
==============================================================================

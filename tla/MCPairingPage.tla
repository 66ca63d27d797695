---------------------------- MODULE MCPairingPage ----------------------------
(* Two scanners of a page, or one and a request of the API.  A scanner     *)
(* needs two codes to find that its encoder has given up.                  *)
EXTENDS PairingPage, TLC

CONSTANTS s1, s2, r1

CodesOf == (s1 :> 2) @@ (s2 :> 1)

CrewsOf == {{s1, s2}, {s1, r1}}
=============================================================================

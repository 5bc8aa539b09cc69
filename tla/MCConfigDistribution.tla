------------------------- MODULE MCConfigDistribution -------------------------
(* Two oracles with one-character peer IDs, two secrets, and delays at    *)
(* both ends of the uint8 range.                                          *)
EXTENDS ConfigDistribution

CONSTANTS o1, o2, s1, s2, aggregator

MCPeerOf == (o1 :> <<"a">>) @@ (o2 :> <<"b">>)
=============================================================================

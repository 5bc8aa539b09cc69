--------------------------- MODULE MCConfigTracker ---------------------------
(* TrackConfig against a chain that publishes two configs, the second with *)
(* an EncodedConfigVersion the tracker must drop.                          *)
EXTENDS ConfigTracker

CONSTANTS c1, c2

MCConfigs   == {c1, c2}
MCChainPlan == <<c1, c2>>
MCVersion   == (c1 :> 1) @@ (c2 :> 2)
=============================================================================

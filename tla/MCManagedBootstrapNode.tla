------------------------ MODULE MCManagedBootstrapNode ------------------------
(* The bootstrap node against a chain that publishes three configs: two    *)
(* that decode, then one that PublicConfigFromContractConfig rejects.      *)
EXTENDS ManagedBootstrapNode

CONSTANTS c1, c2, c3

MCConfigs   == {c1, c2, c3}
MCChainPlan == <<c1, c2, c3>>
MCVersion   == [c \in MCConfigs |-> 1]
MCDecodes   == (c1 :> TRUE) @@ (c2 :> TRUE) @@ (c3 :> FALSE)
=============================================================================

--------------------------- MODULE MCManagedOracle ---------------------------
(* The managed oracle against a chain that publishes three configs, each   *)
(* built by the dealer with XXXContractSetConfigArgsFromSharedConfig: c1    *)
(* and c2 list this node correctly, c3 misstates its transmit address.     *)
(* What SharedConfigFromContractConfig makes of each is computed and       *)
(* checked against the Resolution the supervisor model is given.          *)
EXTENDS ManagedOracle

CONSTANTS c1, c2, c3

SC == INSTANCE SharedConfig

\* This node and one other oracle; a key names the oracle it belongs to.
MeKeys    == [signer |-> "me", offKey |-> "me", peer |-> <<"m">>, transmit |-> "me", dh |-> "me"]
MeId      == [signer |-> "me", offKey |-> "me", peer |-> <<"m">>, transmit |-> "me"]
OtherId   == [signer |-> "ot", offKey |-> "ot", peer |-> <<"o">>, transmit |-> "ot"]

\* The shared config and the recipient keys behind each digest.
Dealt(c) ==
    CASE c = c1 -> [ids |-> <<MeId, OtherId>>, S |-> <<1, 1>>, F |-> 1, secret |-> <<"k", 1>>]
      [] c = c2 -> [ids |-> <<OtherId, MeId>>, S |-> <<2>>, F |-> 1, secret |-> <<"k", 2>>]
      [] c = c3 -> [ids |-> <<[MeId EXCEPT !.transmit = "ot"], OtherId>>, S |-> <<1>>,
                    F |-> 1, secret |-> <<"k", 3>>]

RecipientKeys(c) == [i \in DOMAIN Dealt(c).ids |-> Dealt(c).ids[i].offKey]

MCConfigs    == {c1, c2, c3}
MCChainPlan  == <<c1, c2, c3>>
MCVersion    == [c \in MCConfigs |-> 1]
MCResolution == (c1 :> "ok") @@ (c2 :> "ok") @@ (c3 :> "identityMismatch")

\* The outcomes above are what SharedConfigFromContractConfig makes of
\* each dealt config for this node.
ASSUME MCResolution =
    [c \in MCConfigs |->
        SC!SharedConfigFromContractConfig(SC!ContractSetConfigArgs(Dealt(c), RecipientKeys(c)),
                                          MeKeys).status]
=============================================================================

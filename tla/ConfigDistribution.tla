-------------------------- MODULE ConfigDistribution --------------------------
(***************************************************************************)
(* A config travels from the dealer to the oracles: the dealer builds the  *)
(* setConfig arguments (XXXContractSetConfigArgsFromSharedConfig), the     *)
(* contract publishes them, and each oracle resolves them for itself       *)
(* (SharedConfigFromContractConfig).  The dealer may misstate identities   *)
(* or recipient keys, or be malicious and encrypt a different secret for   *)
(* each recipient.  Signing addresses are distinct, as the contract's      *)
(* setConfig enforces.                                                     *)
(***************************************************************************)
EXTENDS Naturals, Sequences, SequencesExt, SharedConfig

CONSTANTS
    Oracles,   \* the oracles, and the names of their keys
    PeerOf,    \* PeerOf[o]: o's peer ID, a string
    Secrets,   \* shared secrets the dealer may pick
    Delays,    \* transmission-delay entries S may hold
    MaxN,      \* bound: identities in a config
    Fs,        \* values of F the dealer may pick
    ContractAddress, \* the OffchainAggregator's address
    MaxSetConfigs    \* bound: setConfig calls in a behaviour

VARIABLES
    dealer,    \* who built the published config: "none", "honest", "malicious"
    contract,  \* the published ContractConfig
    dealt,     \* the SharedConfig the dealer encoded
    results,   \* results[o]: o's SharedConfigFromContractConfig outcome
    configCount  \* the contract's configCount

vars == <<dealer, contract, dealt, results, configCount>>

\* This node's own identity and keys.
Me(o) == [signer |-> o, offKey |-> o, peer |-> PeerOf[o], transmit |-> o, dh |-> o]

\* The identity the node o would state for itself.
StatedIdentity(o) == [signer |-> o, offKey |-> o, peer |-> PeerOf[o], transmit |-> o]

\* Identities as an operator may state them: each field names some oracle's key.
Identity == [signer : Oracles, offKey : Oracles, peer : {PeerOf[o] : o \in Oracles},
             transmit : Oracles]

DistinctSigners(ids) == \A i, j \in DOMAIN ids : i # j => ids[i].signer # ids[j].signer

IdentityLists == {ids \in BoundedSeq(Identity, MaxN) : DistinctSigners(ids)}

SharedConfigs == [ids : IdentityLists, S : BoundedSeq(Delays, 1), F : Fs, secret : Secrets]

\* The state before any setConfig: an empty config, nobody resolved.
\* LatestConfigDetails of an unconfigured contract has the zero digest.
ZeroDigest == "zero"
NoSharedConfig == [ids |-> <<>>, S |-> <<>>, F |-> 0, secret |-> "none"]
Unresolved == Err("unresolved")

\* types.ContractConfig: what LatestConfig reports of a setConfig.
ContractConfig(digest, args) ==
    [configDigest |-> digest, signers |-> args.signers, transmitters |-> args.transmitters,
     threshold |-> args.threshold, encodedConfigVersion |-> args.encodedConfigVersion,
     encoded |-> args.encoded]

Unconfigured == ContractConfig(ZeroDigest, ContractSetConfigArgs(NoSharedConfig, <<>>))

\* The contract's setConfig with the arguments args: configCount is
\* incremented and the config digest computed over the new count, the
\* contract's address and the arguments.
SetConfig(args) ==
    /\ configCount < MaxSetConfigs
    /\ configCount' = configCount + 1
    /\ contract' = ContractConfig(ConfigDigest(ContractAddress, configCount + 1, args.signers,
                                               args.transmitters, args.threshold,
                                               args.encodedConfigVersion, args.encoded),
                                  args)

\* Bound: the first setConfig may carry any config; a later one
\* re-configures the same oracles (same identities and S, any F, secret
\* and keys), the case in which a setConfig may repeat an earlier one.
DealableConfigs ==
    IF configCount = 0 THEN SharedConfigs
    ELSE {c \in SharedConfigs : c.ids = dealt.ids /\ c.S = dealt.S}

-----------------------------------------------------------------------------

\* setConfig with arguments an honest dealer built, with the recipient
\* keys the operator supplied (one per identity, possibly misaligned).
DealHonest ==
    /\ dealer = "none"
    /\ dealer' = "honest"
    /\ \E c \in DealableConfigs :
       \E keys \in [1..Len(c.ids) -> Oracles] :
          /\ SetConfig(ContractSetConfigArgs(c, keys))
          /\ dealt' = c
    /\ UNCHANGED results

\* setConfig from a dealer who states the oracles' identities correctly but
\* encrypts a secret of its choice for each recipient and commits to one
\* secret in SharedSecretHash.
DealMalicious ==
    /\ dealer = "none"
    /\ dealer' = "malicious"
    /\ \E c \in DealableConfigs :
       \E blocks \in [1..Len(c.ids) -> [to : Oracles, plain : Secrets]] :
          /\ \A i \in DOMAIN c.ids : c.ids[i] = StatedIdentity(c.ids[i].signer)
          /\ SetConfig([ContractSetConfigArgs(c, <<>>) EXCEPT
                              !.encoded.SharedSecretEncryptions.Encryptions = blocks])
          /\ dealt' = c
    /\ UNCHANGED results

\* Oracle o resolves the published config.
Resolve(o) ==
    /\ dealer # "none"
    /\ results[o] = Unresolved
    /\ results' = [results EXCEPT ![o] = SharedConfigFromContractConfig(contract, Me(o))]
    /\ UNCHANGED <<dealer, contract, dealt, configCount>>

Init ==
    /\ dealer = "none"
    /\ dealt = NoSharedConfig
    /\ contract = Unconfigured
    /\ results = [o \in Oracles |-> Unresolved]
    /\ configCount = 0

\* Once every oracle has resolved it, the config may be replaced by the
\* next setConfig.
Replace ==
    /\ \A o \in Oracles : results[o] # Unresolved
    /\ configCount < MaxSetConfigs
    /\ dealer' = "none"
    /\ results' = [o \in Oracles |-> Unresolved]
    /\ UNCHANGED <<contract, dealt, configCount>>

Next == DealHonest \/ DealMalicious \/ (\E o \in Oracles : Resolve(o)) \/ Replace

Spec == Init /\ [][Next]_vars

-----------------------------------------------------------------------------
(* Properties.                                                             *)

\* Reference: Decrypt as section 4.2 of the spec states it, for 0-based
\* index i: bounds check, decrypt block i, compare with the commitment.
SpecDecrypt(e, i, k) ==
    IF ~(i < Len(e.Encryptions)) THEN DecryptError
    ELSE IF Keccak(AesDecryptBlock(k, e.Encryptions[i + 1])) = e.SharedSecretHash
         THEN AesDecryptBlock(k, e.Encryptions[i + 1])
         ELSE DecryptError

\* Reference: the ConfigResolver as section 4.3 of the spec states it:
\* the entry whose signing address is mine, else NotInConfig; all three
\* other identity fields at that index, else IdentityMismatch; Decrypt.
SpecResolve(cc, me) ==
    LET pc == PublicConfigFromContractConfig(cc) IN
    IF pc = DecodeFailed THEN Err("decodeFailed")
    ELSE
    LET i == SelectInSeq(pc.ids, LAMBDA id : id.signer = me.signer) IN
    IF i = 0 THEN Err("notInConfig")
    ELSE IF pc.ids[i] # [signer |-> me.signer, offKey |-> me.offKey, peer |-> me.peer,
                         transmit |-> me.transmit]
         THEN Err("identityMismatch")
    ELSE IF SpecDecrypt(pc.sse, i - 1, me.dh) = DecryptError THEN Err("decryptFailed")
    ELSE Ok(i - 1, SpecDecrypt(pc.sse, i - 1, me.dh))

\* Every oracle's SharedConfigFromContractConfig outcome (error kind,
\* oracle ID, secret) is what the spec's ConfigResolver prescribes for it:
\* the loop without a break and its last-match oracle ID agree with the
\* spec's single scan when signing addresses are distinct.
ResolveMatchesSpec ==
    \A o \in Oracles :
        results[o] # Unresolved => results[o] = SpecResolve(contract, Me(o))

\* Any two oracles that resolve the same published config hold the same
\* shared secret, the one the dealer committed to in SharedSecretHash,
\* even when the dealer encrypted a different secret for each recipient:
\* the hash comparison in Decrypt rules equivocation out.
AgreeOnSecret ==
    \A o, p \in Oracles :
        results[o].status = "ok" /\ results[p].status = "ok" =>
            /\ results[o].secret = results[p].secret
            /\ Keccak(results[o].secret)
                   = contract.encoded.SharedSecretEncryptions.SharedSecretHash

\* The payload round-trips: what the oracles decode from the published
\* config is the identity list and the transmission delays the dealer
\* encoded, through the uint8 narrowing of S and the comma join and split
\* of the peer IDs, for every list length including the empty one.
RoundTrip ==
    dealer # "none" =>
        LET pc == PublicConfigFromContractConfig(contract) IN
        /\ pc # DecodeFailed
        /\ pc.ids = dealt.ids
        /\ pc.S = dealt.S
=============================================================================

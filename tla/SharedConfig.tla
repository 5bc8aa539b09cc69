----------------------------- MODULE SharedConfig -----------------------------
(***************************************************************************)
(* Shared config resolution (internal/config/shared_config.go) and the     *)
(* shared-secret scheme (shared_secret.go, shared_secret_encrypt_xxx.go).  *)
(*                                                                         *)
(* An oracle is named by a model value, and so are its keys: an identity's *)
(* offKey or transmit field, and a recipient key of the dealer, name the   *)
(* oracle whose key it is.  An AES block encrypted for recipient k is the  *)
(* record [to |-> k, plain |-> ss]; decrypting it with another oracle's    *)
(* key yields a block unrelated to every secret.  keccak256 is injective.  *)
(***************************************************************************)
EXTENDS Naturals, Sequences, SequencesExt, ConfigCodec

\* keccak256 of a block.
Keccak(x) == <<"keccak", x>>

\* aesEncryptBlock under the key the dealer derives for recipient k.
AesEncryptBlock(k, ss) == [to |-> k, plain |-> ss]

\* aesDecryptBlock under the key oracle k derives from DiffieHellmanPoint.
AesDecryptBlock(k, ct) == IF ct.to = k THEN ct.plain ELSE <<"unrelated", k, ct>>

\* XXXEncryptSharedSecretInternal: one block per public key, in order, and
\* the hash of the plaintext.
EncryptSharedSecret(publicKeys, sharedSecret) ==
    [SharedSecretHash |-> Keccak(sharedSecret),
     Encryptions      |-> [i \in DOMAIN publicKeys |-> AesEncryptBlock(publicKeys[i], sharedSecret)]]

DecryptError == <<"decryptError">>

\* Fault variant: the decrypted secret is not checked against the hash.
DecryptUnchecked(e, oid, k) ==
    IF Len(e.Encryptions) <= oid THEN DecryptError
    ELSE AesDecryptBlock(k, e.Encryptions[oid + 1])

\* SharedSecretEncryptions.Decrypt for oracle index oid (0-based) with
\* oracle k's private key: the bounds check, the block decryption, and the
\* comparison with SharedSecretHash.
Decrypt(e, oid, k) ==
    IF Len(e.Encryptions) <= oid THEN DecryptError
    ELSE LET sharedSecret == AesDecryptBlock(k, e.Encryptions[oid + 1]) IN
         IF Keccak(sharedSecret) # e.SharedSecretHash THEN DecryptError
         ELSE sharedSecret

\* XXXContractSetConfigArgsFromSharedConfig: the identities become the
\* signers and transmitters of the contract call, the threshold is
\* uint8(c.F), the version is 1; the offchain keys, the peer IDs, S and the
\* encrypted secret go into the encoded config.
ContractSetConfigArgs(c, sharedSecretEncryptionPublicKeys) ==
    [signers      |-> [i \in DOMAIN c.ids |-> c.ids[i].signer],
     transmitters |-> [i \in DOMAIN c.ids |-> c.ids[i].transmit],
     threshold    |-> Narrow(c.F),
     encodedConfigVersion |-> EncodedConfigVersion,
     encoded      |-> Encode([S |-> c.S,
                              OffchainPublicKeys |-> [i \in DOMAIN c.ids |-> c.ids[i].offKey],
                              PeerIDs |-> [i \in DOMAIN c.ids |-> c.ids[i].peer],
                              SharedSecretEncryptions |->
                                  EncryptSharedSecret(sharedSecretEncryptionPublicKeys, c.secret)])]

\* ConfigDigest: keccak256 of the ABI packing of all seven arguments.  The
\* packing of these fixed argument types is injective, so the digest is
\* the hash of the tuple.
ConfigDigest(contractAddress, configCount, oracles, transmitters, threshold, encodedConfigVersion, config) ==
    Keccak(<<contractAddress, configCount, oracles, transmitters, threshold,
             encodedConfigVersion, config>>)

DecodeFailed == [decodeFailed |-> TRUE]

\* publicConfigFromContractConfig: decode the payload and zip the signers
\* and transmitters of the contract with the decoded offchain keys and peer
\* IDs; lists of different lengths are rejected.
PublicConfigFromContractConfig(cc) ==
    LET o == Decode(cc.encoded)
        n == Len(cc.signers)
    IN IF {Len(cc.transmitters), Len(o.OffchainPublicKeys), Len(o.PeerIDs)} # {n}
       THEN DecodeFailed
       ELSE [S   |-> o.S,
             ids |-> [i \in 1..n |-> [signer |-> cc.signers[i], transmit |-> cc.transmitters[i],
                                      offKey |-> o.OffchainPublicKeys[i], peer |-> o.PeerIDs[i]]],
             sse |-> o.SharedSecretEncryptions]

\* The outcome of SharedConfigFromContractConfig: the error, or the oracle
\* ID and the shared secret.
Err(e) == [status |-> e, oid |-> 255, secret |-> "none"]
Ok(oid, ss) == [status |-> "ok", oid |-> oid, secret |-> ss]

\* Fault variant: the transmit address is not cross-checked.
IdentityMatchesNoTransmit(id, me) == id.offKey = me.offKey /\ id.peer = me.peer

\* The cross-check of an identity whose OnChainSigningAddress is mine.
IdentityMatches(id, me) ==
    /\ id.offKey = me.offKey
    /\ id.peer = me.peer
    /\ id.transmit = me.transmit

\* SharedConfigFromContractConfig for the node me: the loop has no break,
\* so any identity with my signing address whose other fields differ is an
\* error, and the oracle ID is the last such identity's index; then the
\* shared secret is decrypted with my key.
SharedConfigFromContractConfig(cc, me) ==
    LET pc == PublicConfigFromContractConfig(cc) IN
    IF pc = DecodeFailed THEN Err("decodeFailed")
    ELSE
    LET mine == {i \in DOMAIN pc.ids : pc.ids[i].signer = me.signer}
        oid  == SelectLastInSeq(pc.ids, LAMBDA id : id.signer = me.signer) - 1
    IN IF \E i \in mine : ~IdentityMatches(pc.ids[i], me) THEN Err("identityMismatch")
       ELSE IF mine = {} THEN Err("notInConfig")
       ELSE IF Decrypt(pc.sse, oid, me.dh) = DecryptError THEN Err("decryptFailed")
       ELSE Ok(oid, Decrypt(pc.sse, oid, me.dh))

=============================================================================

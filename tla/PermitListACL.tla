---------------------------- MODULE PermitListACL ----------------------------
(***************************************************************************)
(* The DHT router's permit-list ACL (networking/dht-router/acl.go): a map  *)
(* from protocol ID to the peers permitted on it.  Only membership matters *)
(* to IsAllowed, so each list is a set of peers; Activate copies the       *)
(* caller's slice, so no list is shared with the caller.                   *)
(***************************************************************************)
EXTENDS FiniteSets

CONSTANTS
    Protocols,  \* protocol IDs (model values)
    Peers       \* peer IDs (model values)

VARIABLES
    active,     \* DOMAIN acl.allowed: the protocols with a permit list
    allowed,    \* allowed[p]: the peers on p's permit list (meaningful for p \in active)
    panicked    \* Reject was called: panic("implement me")

vars == <<active, allowed, panicked>>

-----------------------------------------------------------------------------

\* IsAllowed: a protocol without a permit list is not enforced; otherwise
\* the peer must be on the list.
IsAllowed(id, p) == p \notin active \/ id \in allowed[p]

\* IsACLEnforced: the protocol has a permit list.
IsACLEnforced(p) == p \in active

\* Fault variant: Activate replaces an existing permit list.
ActivateReplacing(p, permitted) ==
    /\ ~panicked
    /\ active' = active \cup {p}
    /\ allowed' = [allowed EXCEPT ![p] = permitted]
    /\ UNCHANGED panicked

\* Activate: a no-op for a protocol that already has a list; otherwise the
\* list is a copy of permitted.
Activate(p, permitted) ==
    /\ ~panicked
    /\ p \notin active
    /\ active' = active \cup {p}
    /\ allowed' = [allowed EXCEPT ![p] = permitted]
    /\ UNCHANGED panicked

\* Deactivate: delete(acl.allowed, protocol).
Deactivate(p) ==
    /\ ~panicked
    /\ active' = active \ {p}
    /\ allowed' = [allowed EXCEPT ![p] = {}]
    /\ UNCHANGED panicked

\* Permit: "protocol not activated" for a protocol without a list (nothing
\* changes); otherwise the ids are appended to its list.
Permit(p, ids) ==
    /\ ~panicked
    /\ \/ /\ p \notin active
          /\ UNCHANGED vars
       \/ /\ p \in active
          /\ allowed' = [allowed EXCEPT ![p] = @ \cup ids]
          /\ UNCHANGED <<active, panicked>>

\* Reject: panic("implement me").
Reject(p, id) ==
    /\ ~panicked
    /\ panicked' = TRUE
    /\ UNCHANGED <<active, allowed>>

Init ==
    /\ active = {}
    /\ allowed = [p \in Protocols |-> {}]
    /\ panicked = FALSE

Next ==
    \E p \in Protocols :
        \/ \E s \in SUBSET Peers : Activate(p, s) \/ Permit(p, s)
        \/ Deactivate(p)
        \/ \E id \in Peers : Reject(p, id)

Spec == Init /\ [][Next]_vars

-----------------------------------------------------------------------------
(* Properties.                                                             *)

\* No step revokes a peer's access to a protocol that stays enforced: a
\* second Activate with a shorter list leaves the first list in force, and
\* only Deactivate (which lifts enforcement altogether) or the missing
\* Reject could take a peer off.
NoSilentRevocation ==
    [][\A p \in Protocols, id \in Peers :
          (IsACLEnforced(p) /\ IsAllowed(id, p) /\ IsACLEnforced(p)') => IsAllowed(id, p)'
      ]_vars
=============================================================================

----------------------------- MODULE VorLicense -----------------------------
(***************************************************************************)
(* The license core (core/vor-license/src): the operator's keystore, the    *)
(* trusted-key bundle shipped with a client, issuing and verifying.  Pure   *)
(* operators; Vault and LicenseSystem keep the state.                       *)
(*                                                                         *)
(* A key pair and its id, which is a hash of the public key, are one        *)
(* number.  Signatures are ideal: an envelope records who signed it and     *)
(* whether it is still what was signed.  Abstracted: canonical JSON and     *)
(* base64, tier, entitlements and notes, max_devices (verified nowhere),    *)
(* HWID formats (normalised on both sides before they are compared).        *)
(***************************************************************************)
EXTENDS Integers, FiniteSets

CONSTANTS Ids,    \* license ids
          Hwids,  \* devices
          Skew    \* DEFAULT_CLOCK_SKEW_SECS, in the unit of time

ASSUME LicenseAssumption == Skew \in Nat

Keys == Nat
Payloads == [id : Ids, key : Keys, not_before : Nat, expires_at : Int, bound : SUBSET Hwids]
\* What an envelope carries beside its payload: its signer, and whether it is intact.
Envelopes == [payload : Payloads, signer : Keys, intact : BOOLEAN]
-----------------------------------------------------------------------------
(* keys.rs: a keystore's keys are the keys it remembers, each Active or Retired. *)

Statuses == {"Active", "Retired"}
IsKeystore(ks) ==
    /\ DOMAIN ks = {"active", "keys"}
    /\ ks.active \in Keys
    /\ DOMAIN ks.keys \subseteq Keys /\ \A k \in DOMAIN ks.keys : ks.keys[k] \in Statuses

generate(k) == [active |-> k, keys |-> [n \in {k} |-> "Active"]]

rotate_Mutant(ks, k, retire_old) ==    \* soft rotation retires too
    [active |-> k, keys |-> [n \in DOMAIN ks.keys \cup {k} |-> IF n = k THEN "Active" ELSE "Retired"]]

rotate_Mutant2(ks, k, retire_old) ==   \* hard rotation retires the last key only
    [active |-> k,
     keys |-> [n \in DOMAIN ks.keys \cup {k} |->
                  IF n = k THEN "Active"
                  ELSE IF retire_old THEN IF n = ks.active THEN "Retired" ELSE "Active"
                  ELSE ks.keys[n]]]

rotate_Mutant3(ks, k, retire_old) ==   \* hard rotation starts a new keystore
    IF retire_old THEN generate(k)
    ELSE [active |-> k,
          keys |-> [n \in DOMAIN ks.keys \cup {k} |-> IF n = k THEN "Active" ELSE ks.keys[n]]]

rotate(ks, k, retire_old) ==
    [active |-> k,
     keys |-> [n \in DOMAIN ks.keys \cup {k} |->
                  IF n = k THEN "Active" ELSE IF retire_old THEN "Retired" ELSE ks.keys[n]]]

from_keystore(ks) == ks.keys
is_trusted(trusted, k) == k \in DOMAIN trusted /\ trusted[k] = "Active"
-----------------------------------------------------------------------------
(* format.rs, issue.rs, verify.rs *)

validate_schema(p) == p.expires_at > p.not_before

\* The CLI fills in the active key, so issue_license's comparison of the two holds.
issue_license(ks, p) == [payload |-> p, signer |-> ks.active, intact |-> TRUE]

\* The first check that fails decides the code.
verify_license_Mutant(env, trusted, now, hwid, revoked) ==   \* any known key will do
    IF env.signer \in DOMAIN trusted /\ env.intact THEN "ok" ELSE "E_UNTRUSTED_KEY"

verify_license(env, trusted, now, hwid, revoked) ==
    LET p == env.payload
    IN  IF ~validate_schema(p) THEN "E_INVALID_FIELD"
        ELSE IF env.signer # p.key THEN "E_MALFORMED"
        ELSE IF ~is_trusted(trusted, p.key) THEN "E_UNTRUSTED_KEY"
        ELSE IF ~env.intact THEN "E_SIGNATURE"
        ELSE IF now < p.not_before - Skew THEN "E_NOT_YET_VALID"
        ELSE IF now > p.expires_at + Skew THEN "E_EXPIRED"
        ELSE IF p.bound # {} /\ hwid \notin p.bound THEN "E_DEVICE"
        ELSE IF p.id \in revoked THEN "E_REVOKED"
        ELSE "ok"
=============================================================================

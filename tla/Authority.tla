------------------------------ MODULE Authority ------------------------------
(***************************************************************************)
(* What the operator's vault promises the rest of the system: commands that  *)
(* are done whole or not at all, on a keystore that forgets no key and       *)
(* revives none.  A file may be lost to a command killed while it replaced   *)
(* the file; nothing else of the vault is.  Vault implements it.             *)
(***************************************************************************)
EXTENDS VorLicense

CONSTANTS
    Days,        \* what --days may say, in the unit of time
    MaxKeys,     \* bound: keys ever generated
    MaxLicenses, \* bound: license files
    Horizon      \* bound: how far time goes

ASSUME AuthorityAssumption == /\ Days \subseteq Int /\ MaxKeys \in Nat
                              /\ MaxLicenses \in Nat /\ Horizon \in Nat

VARIABLES
    keystore, \* keystore.json: Holds(a keystore), or Absent, or Torn
    revoked,  \* revoked.json: Holds(a set of license ids), or Absent, or Torn
    exported, \* the trusted-key bundle written last, or Absent, or Torn; with what history
              \* says of that moment: the keys cut off, and those in use
    licenses, \* the license files ever written
    now,      \* the operator's clock
    cutOff    \* history: the keys that hard rotations have replaced

authorityVars == <<keystore, revoked, exported, licenses, now, cutOff>>
-----------------------------------------------------------------------------
Absent == [file |-> "absent"]
Torn   == [file |-> "torn"]
Holds(x) == [file |-> "whole", is |-> x]

Readable(f) == f.file = "whole"
Content(f)  == f.is

\* A list that cannot be read counts as an empty one.
Listed(f) == IF Readable(f) THEN Content(f) ELSE {}

AuthorityInit ==
    /\ keystore = Absent /\ revoked = Absent /\ exported = Absent
    /\ licenses = {} /\ now = 0 /\ cutOff = {}

InitKeystore ==
    /\ keystore = Absent
    /\ \E k \in 1..MaxKeys : keystore' = Holds(generate(k))
    /\ UNCHANGED <<revoked, exported, licenses, now, cutOff>>

Rotate(retire_old) ==
    /\ Readable(keystore)
    /\ LET ks == Content(keystore)
       IN  /\ \E k \in (ks.active + 1)..MaxKeys : keystore' = Holds(rotate(ks, k, retire_old))
           /\ cutOff' = IF retire_old THEN cutOff \cup DOMAIN ks.keys ELSE cutOff
    /\ UNCHANGED <<revoked, exported, licenses, now>>

\* The command had read the clock by `since`.
Issue(since) ==
    /\ Readable(keystore)
    /\ \E id \in Ids, days \in Days, bound \in SUBSET Hwids :
          LET p == [id |-> id, key |-> Content(keystore).active, not_before |-> since,
                    expires_at |-> since + days, bound |-> bound]
          IN  /\ validate_schema(p)
              /\ licenses' = licenses \cup {issue_license(Content(keystore), p)}
    /\ Cardinality(licenses') <= MaxLicenses
    /\ UNCHANGED <<keystore, revoked, exported, now, cutOff>>

Revoke ==
    /\ \E id \in Ids : revoked' = Holds(Listed(revoked) \cup {id})
    /\ UNCHANGED <<keystore, exported, licenses, now, cutOff>>

Bundle == [keys |-> from_keystore(Content(keystore)), cutOff |-> cutOff,
           served |-> {l.payload.key : l \in licenses} \cup {Content(keystore).active}]

Export ==
    /\ Readable(keystore) /\ exported' = Holds(Bundle)
    /\ UNCHANGED <<keystore, revoked, licenses, now, cutOff>>

\* A command was killed in fs::write.
Lose ==
    /\ \/ keystore' = Torn /\ UNCHANGED <<revoked, exported>>
       \/ revoked' = Torn /\ UNCHANGED <<keystore, exported>>
       \/ exported' = Torn /\ UNCHANGED <<keystore, revoked>>
    /\ UNCHANGED <<licenses, now, cutOff>>

TimePasses ==
    /\ now < Horizon /\ now' = now + 1
    /\ UNCHANGED <<keystore, revoked, exported, licenses, cutOff>>

\* The steps when an issue has read the clock at one of these times.
Steps(times) ==
    \/ InitKeystore \/ (\E r \in BOOLEAN : Rotate(r)) \/ (\E since \in times : Issue(since))
    \/ Revoke \/ Export \/ Lose \/ TimePasses

AuthorityNext == Steps(0..now)

AuthoritySpec == AuthorityInit /\ [][AuthorityNext]_authorityVars
-----------------------------------------------------------------------------
(* Properties *)

\* Every file has its type.
AuthorityTypeOK ==
    /\ Readable(keystore) => IsKeystore(Content(keystore))
    /\ Readable(revoked) => Content(revoked) \subseteq Ids
    /\ Readable(exported) => \A k \in DOMAIN Content(exported).keys :
                                k \in Keys /\ Content(exported).keys[k] \in Statuses
    /\ licenses \subseteq Envelopes /\ now \in Nat /\ cutOff \subseteq Keys

\* A keystore that can be read has every key a license was signed with, whatever
\* commands were killed on the way: no rotation forgets one.
KeyHistoryKept ==
    Readable(keystore) => \A l \in licenses : l.payload.key \in DOMAIN Content(keystore).keys

\* A key cut off by a hard rotation never becomes active again, and the signing key is.
CutOffStaysRetired ==
    Readable(keystore) =>
        /\ is_trusted(Content(keystore).keys, Content(keystore).active)
        /\ \A k \in cutOff : ~is_trusted(Content(keystore).keys, k)
=============================================================================

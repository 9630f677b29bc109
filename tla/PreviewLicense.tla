---------------------------- MODULE PreviewLicense ----------------------------
(***************************************************************************)
(* The preview's own implementation of the license format, in TypeScript     *)
(* (apps/preview/src/lib/vor: license.ts, keystore.ts, audit.ts, hwid.ts):   *)
(* a "mirror" of the Rust core that VorLicense models.  Pure operators;      *)
(* PreviewConsole keeps the state.                                           *)
(*                                                                         *)
(* A document is a function from the fields it has, for a field may be       *)
(* missing or of another type, which to parsePayloadJson is the same.  JSON  *)
(* text is a document and how it is spelled (the order of its keys, white    *)
(* space).  An envelope carries JSON text, a signature (whose, over what)    *)
(* and a public key; the signature is ideal, and so is the ledger's hash.  A *)
(* key pair and its id, a hash of the public key, are one number.            *)
(***************************************************************************)
EXTENDS Integers, Sequences

CONSTANTS Ids, Hwids, \* license ids; devices, in the form normalizeHwid gives them
          Typed,      \* the form normalizeHwid gives to what is typed as a device
          BadHwid,    \* a device id that is not 64 hex digits
          NaN,        \* what a missing number is read as
          Missing,    \* what a missing string is read as: ''
          Garbage,    \* text that is not an envelope
          Skew        \* DEFAULT_CLOCK_SKEW_SECS, in the unit of time

ASSUME PreviewAssumption ==
    /\ Skew \in Nat /\ NaN \notin Int /\ BadHwid \notin Hwids
    /\ Missing \notin Ids /\ Missing \notin Nat
    /\ \A s \in DOMAIN Typed : Typed[s] \in Hwids \cup {BadHwid}

Tiers        == {"standard", "pro", "enterprise"}
Entitlements == {"core_tunnel", "stealth_engine", "relay_chains", "unlimited_devices",
                 "priority_fleet"}
-----------------------------------------------------------------------------
(* keystore.ts: a keystore's keys are those it remembers, active or retired. *)

generateKeystore(k) == [active |-> k, keys |-> [n \in {k} |-> "active"]]

rotateKeystore_Mutant(ks, k, retireOld) ==    \* retires the key it replaces only
    [active |-> k,
     keys |-> [n \in DOMAIN ks.keys \cup {k} |->
                  IF n = k THEN "active"
                  ELSE IF retireOld /\ n = ks.active THEN "retired" ELSE ks.keys[n]]]

rotateKeystore_Mutant2(ks, k, retireOld) ==   \* retires the new key with the old ones
    [active |-> k,
     keys |-> [n \in DOMAIN ks.keys \cup {k} |->
                  IF retireOld THEN "retired" ELSE IF n = k THEN "active" ELSE ks.keys[n]]]

rotateKeystore(ks, k, retireOld) ==
    [active |-> k,
     keys |-> [n \in DOMAIN ks.keys \cup {k} |->
                  IF n = k THEN "active" ELSE IF retireOld THEN "retired" ELSE ks.keys[n]]]

trustedFromKeystore(ks) == ks.keys
isTrusted(trusted, k)   == k \in DOMAIN trusted /\ trusted[k] = "active"
-----------------------------------------------------------------------------
(* canonical.ts, hwid.ts, license.ts: canonical JSON, the envelope, the schema *)

\* The canonical spelling sorts the keys and drops the white space.
Spellings == {"canonical", "other"}
canonicalJson(doc)   == [doc |-> doc, spelled |-> "canonical"]
payloadToCanonical(p) == canonicalJson(p)

\* Case, blanks and a missing prefix make no other device.
normalizeHwid(s) == Typed[s]

envelopeEncode(json, sig, pk) == [doc |-> json.doc, spelled |-> json.spelled, sig |-> sig, pk |-> pk]

\* Of text that is no envelope nothing is read.
envelopeDecode(text) ==
    IF text = Garbage THEN [ok |-> FALSE]
    ELSE [ok |-> TRUE, payloadJson |-> [doc |-> text.doc, spelled |-> text.spelled],
          sig |-> text.sig, pk |-> text.pk]

\* JavaScript compares with NaN to false.
Leq(a, b)  == a # NaN /\ b # NaN /\ a <= b
Less(a, b) == a # NaN /\ b # NaN /\ a < b

\* What the parser puts in the place of a field that is not there.
ReadAs == [version |-> NaN, id |-> Missing, product |-> Missing, key |-> Missing,
           issued_at |-> NaN, not_before |-> NaN, expires_at |-> NaN,
           tier |-> Missing, entitlements |-> {}, bound |-> {}]

parsePayloadJson(json) ==
    [f \in DOMAIN ReadAs |-> IF f \in DOMAIN json.doc THEN json.doc[f] ELSE ReadAs[f]]

\* A check throws its code if its condition holds.
Throw(code, condition) == IF condition THEN code ELSE "ok"

\* The code of the first check of a sequence that throws.
FirstError(codes) ==
    LET failed == {i \in DOMAIN codes : codes[i] # "ok"}
    IN  IF failed = {} THEN "ok" ELSE codes[CHOOSE i \in failed : \A j \in failed : i <= j]

validateSchema(p) == FirstError(<<
    Throw("E_SCHEMA",        p.version # 2),
    Throw("E_MISSING_FIELD", p.id = Missing \/ p.key = Missing),
    Throw("E_PRODUCT",       p.product # "VOR"),
    Throw("E_INVALID_FIELD", Leq(p.expires_at, p.not_before)),
    Throw("E_INVALID_FIELD", Less(p.expires_at, p.issued_at)),
    Throw("E_MISSING_FIELD", p.entitlements = {}),
    Throw("E_ENTITLEMENT",   ~(p.entitlements \subseteq Entitlements)),
    Throw("E_INVALID_FIELD", p.tier \notin Tiers),
    Throw("E_INVALID_FIELD", BadHwid \in p.bound) >>)
-----------------------------------------------------------------------------
(* keystore.ts: issuing and verifying *)

buildPayload(now, days, ks, id, typed) ==
    [version |-> 2, id |-> id, product |-> "VOR", key |-> ks.active,
     issued_at |-> now, not_before |-> now, expires_at |-> now + days,
     tier |-> "pro", entitlements |-> {"core_tunnel"}, bound |-> {normalizeHwid(s) : s \in typed}]

signCanonical(ks, json) == [by |-> ks.active, over |-> json]

\* issueLicense throws unless this holds; the payload's key is the active one by
\* buildPayload.
Issuable(p) == validateSchema(p) = "ok"

issueLicense(ks, p) ==
    envelopeEncode(payloadToCanonical(p), signCanonical(ks, payloadToCanonical(p)), ks.active)

\* x - Skew and x + Skew of NaN are NaN: a document without a date fails no comparison.
TooEarly(p, now) == p.not_before # NaN /\ now < p.not_before - Skew

Expired_Mutant(p, now) == p.expires_at # NaN /\ now > p.expires_at    \* forgets the skew

Expired(p, now)  == p.expires_at # NaN /\ now > p.expires_at + Skew

\* However the envelope spells its document, the signature is to be over the canonical text.
Signed(parts) == parts.sig = [by |-> parts.pk, over |-> canonicalJson(parts.payloadJson.doc)]

verifyLicense(env, trusted, now, hwid, revoked) ==
    LET parts == envelopeDecode(env)
    IN  IF ~parts.ok THEN "E_MALFORMED"
        ELSE LET p == parsePayloadJson(parts.payloadJson)
             IN  IF validateSchema(p) # "ok" THEN validateSchema(p)
                 ELSE FirstError(<<
                     Throw("E_MALFORMED",     parts.pk # p.key),
                     Throw("E_UNTRUSTED_KEY", ~isTrusted(trusted, p.key)),
                     Throw("E_SIGNATURE",     ~Signed(parts)),
                     Throw("E_NOT_YET_VALID", TooEarly(p, now)),
                     Throw("E_EXPIRED",       Expired(p, now)),
                     Throw("E_DEVICE",        p.bound # {} /\ hwid \notin p.bound),
                     Throw("E_REVOKED",       p.id \in revoked) >>)
-----------------------------------------------------------------------------
(* audit.ts: an entry's hash covers the entry, and in it the hash before. *)

GENESIS == [genesis |-> TRUE]
hashEntry(e) == e

\* The hash that ends a ledger, shown as its root.
auditRoot(entries) == IF entries = <<>> THEN GENESIS ELSE hashEntry(entries[Len(entries)])

appendAudit_Mutant(entries, action, about) ==    \* chained to the entry before the last
    [seq |-> Len(entries), action |-> action, about |-> about,
     prev_hash |-> IF Len(entries) < 2 THEN GENESIS ELSE hashEntry(entries[Len(entries) - 1])]

appendAudit(entries, action, about) ==
    [seq |-> Len(entries), action |-> action, about |-> about,
     prev_hash |-> auditRoot(entries)]

verifyAuditChain(entries) ==
    \A i \in DOMAIN entries :
        entries[i].prev_hash = auditRoot(SubSeq(entries, 1, i - 1))
-----------------------------------------------------------------------------
(* The Rust core, to compare with *)

Core == INSTANCE VorLicense

CoreTrusted(trusted) ==
    [k \in DOMAIN trusted |-> IF trusted[k] = "active" THEN "Active" ELSE "Retired"]

\* An envelope the core's model has: no field is missing, and those it abstracts are right.
InCore(env) ==
    /\ env # Garbage /\ DOMAIN env.doc = DOMAIN ReadAs
    /\ env.doc.version = 2 /\ env.doc.product = "VOR" /\ env.doc.id \in Ids
    /\ env.doc.key \in Nat /\ env.doc.issued_at = env.doc.not_before
    /\ env.doc.not_before \in Int /\ env.doc.expires_at \in Int
    /\ env.doc.tier \in Tiers /\ env.doc.bound \subseteq Hwids
    /\ env.doc.entitlements \subseteq Entitlements /\ env.doc.entitlements # {}

\* The core verifies the signature over the bytes of the text as it is spelled.
CoreEnvelope(env) ==
    [payload |-> [id |-> env.doc.id, key |-> env.doc.key, not_before |-> env.doc.not_before,
                  expires_at |-> env.doc.expires_at, bound |-> env.doc.bound],
     signer |-> env.pk,
     intact |-> env.sig = [by |-> env.pk, over |-> [doc |-> env.doc, spelled |-> env.spelled]]]

CoreVerdict(env, trusted, now, hwid, revoked) ==
    Core!verify_license(CoreEnvelope(env), CoreTrusted(trusted), now, hwid, revoked)
=============================================================================

---------------------------- MODULE ConsoleProofs ----------------------------
(***************************************************************************)
(* Theorems about PreviewConsole and PreviewLicense, for any number of       *)
(* licenses, keys, devices and entries, any clock and any forms.             *)
(***************************************************************************)
EXTENDS PreviewConsole, SequenceTheorems, WellFoundedInduction, TLAPS

\* null and text that is no envelope are unlike what the program makes.
Sentinels ==
    /\ \A d, s, g, k : [doc |-> d, spelled |-> s, sig |-> g, pk |-> k] \notin {Garbage, None}
    /\ \A a, k : [active |-> a, keys |-> k] # None
    /\ \A doc : DOMAIN doc = DOMAIN ReadAs => doc # None

\* The three records have their fields.
Shape ==
    /\ disk = [keystore |-> disk.keystore, trusted |-> disk.trusted, licenses |-> disk.licenses,
               audit |-> disk.audit, revoked |-> disk.revoked, activated |-> disk.activated]
    /\ con = [loaded |-> con.loaded, ks |-> con.ks, licenses |-> con.licenses,
              audit |-> con.audit, revoked |-> con.revoked]
    /\ client = [view |-> client.view, unlocked |-> client.unlocked,
                 activated |-> client.activated, pending |-> client.pending,
                 booting |-> client.booting]
    /\ now \in Clock

\* A console off the screen has no state; on it, what it shows is on the disk.
Memory ==
    /\ ~Mounted => con = Unloaded
    /\ con.ks = None => con.licenses = NoMap
    /\ con.ks # None =>
          con.ks = disk.keystore /\ con.licenses = disk.licenses /\ con.revoked = disk.revoked

\* The keys there ever were are trusted or cut off.
KInv ==
    /\ made \in Nat /\ cutOff \subseteq 1..made
    /\ disk.keystore = None => disk.trusted = NoMap /\ disk.licenses = NoMap
    /\ disk.keystore # None =>
          /\ disk.keystore = [active |-> disk.keystore.active, keys |-> disk.keystore.keys]
          /\ disk.trusted = disk.keystore.keys
          /\ isTrusted(disk.trusted, disk.keystore.active)
    /\ DOMAIN disk.trusted \subseteq 1..made
    /\ \A k \in 1..made : k \notin cutOff <=> isTrusted(disk.trusted, k)

\* An envelope the console has signed.
Envelope(e) == e = [doc |-> e.doc, spelled |-> e.spelled, sig |-> e.sig, pk |-> e.pk]
Genuine(e) ==
    /\ Envelope(e)
    /\ e.doc = [f \in DOMAIN ReadAs |-> e.doc[f]] /\ validateSchema(e.doc) = "ok"
    /\ e.doc.key = e.pk /\ e.sig = [by |-> e.pk, over |-> canonicalJson(e.doc)]
    /\ e.pk \in 1..made /\ e.doc.id \in Ids
    /\ e.doc.not_before \in Int /\ e.doc.expires_at \in Int

\* A record of the list, for the license id.
Record(l, id) ==
    /\ l = [env |-> l.env, expires_at |-> l.expires_at, bound |-> l.bound, revoked |-> l.revoked]
    /\ l.env \in issued /\ l.env.doc.id = id /\ l.env.doc.bound = l.bound
    /\ l.expires_at \in Int /\ l.env.doc.expires_at \in {l.expires_at, l.expires_at - 1}
    /\ l.revoked \in BOOLEAN /\ (l.revoked <=> id \in revokedEver)

\* The licenses handed out that a key still vouches for are listed.
LInv ==
    /\ \A e \in issued : Genuine(e)
    /\ disk.licenses = [id \in DOMAIN disk.licenses |-> disk.licenses[id]]
    /\ \A id \in DOMAIN disk.licenses : Record(disk.licenses[id], id)
    /\ disk.revoked = {id \in DOMAIN disk.licenses : disk.licenses[id].revoked}
    /\ \A e \in issued : isTrusted(disk.trusted, e.pk) => e.doc.id \in DOMAIN disk.licenses
    /\ \A id \in revokedEver : \E e \in issued : e.doc.id = id

\* A ledger that can be read and is true.
True(e) ==
    /\ e.action \in {"SIG_ISSUED", "HWID_BIND", "REVOKE_EVENT"} => e.about \in DOMAIN disk.licenses
    /\ e.action = "REVOKE_EVENT" => e.about \in disk.revoked
    /\ e.action \in {"KEYGEN", "ROTATE"} => e.about \in 1..made
Ledger(entries) ==
    /\ \E S : entries \in Seq(S)
    /\ verifyAuditChain(entries)
    /\ \A i \in DOMAIN entries : True(entries[i])

\* What the gate may have been given.
Forged(e)  ==
    /\ Envelope(e) /\ e.sig # [by |-> e.pk, over |-> canonicalJson(e.doc)]
    /\ e.sig.over.spelled = "canonical"
Given(e)   == e \in issued \/ e = Garbage \/ Forged(e)
GInv ==
    /\ \A e \in client.pending : Given(e)
    /\ disk.activated # None => disk.activated \in issued
    /\ client.activated # None => disk.activated # None

IInv == Shape /\ Memory /\ KInv /\ LInv /\ Ledger(disk.audit) /\ Ledger(con.audit) /\ GInv
-----------------------------------------------------------------------------
(* The verifier: which code, and when none. *)

\* There are nine checks at most.
LEMMA Least == ASSUME NEW T \in SUBSET (1..9), T # {} PROVE \E i \in T : \A j \in T : i <= j
  <1>1. CASE 1 \in T \/ 2 \in T \/ 3 \in T
    BY <1>1
  <1>2. CASE T \subseteq 4..9 /\ (4 \in T \/ 5 \in T \/ 6 \in T)
    BY <1>2
  <1>3. CASE T \subseteq 7..9
    <2>1. PICK i \in T : TRUE
      OBVIOUS
    <2>2. 7 \in T \/ 8 \in T \/ 9 \in T
      BY <1>3, <2>1
    <2>3. QED
      BY <1>3, <2>2
  <1>4. QED
    BY <1>1, <1>2, <1>3

LEMMA FirstErrorIs ==
    ASSUME NEW codes, NEW n \in Nat, DOMAIN codes = 1..n,
           NEW i \in 1..n, codes[i] # "ok", \A j \in 1..n : codes[j] # "ok" => i <= j
    PROVE  FirstError(codes) = codes[i]
  <1> DEFINE failed == {j \in DOMAIN codes : codes[j] # "ok"}
  <1>1. i \in failed /\ \A j \in failed : i <= j
    OBVIOUS
  <1>2. (CHOOSE k \in failed : \A j \in failed : k <= j) = i
    BY <1>1
  <1>3. QED
    BY <1>1, <1>2 DEF FirstError

LEMMA NoError ==
    ASSUME NEW codes, NEW n \in 1..9, DOMAIN codes = 1..n
    PROVE  FirstError(codes) = "ok" <=> \A i \in 1..n : codes[i] = "ok"
  <1>1. CASE \A i \in 1..n : codes[i] = "ok"
    BY <1>1 DEF FirstError
  <1>2. CASE \E i \in 1..n : codes[i] # "ok"
    <2> DEFINE failed == {j \in 1..n : codes[j] # "ok"}
    <2>1. PICK i \in failed : \A j \in failed : i <= j
      BY <1>2, Least
    <2>2. FirstError(codes) = codes[i]
      BY <2>1, FirstErrorIs
    <2>3. QED
      BY <2>1, <2>2
  <1>3. QED
    BY <1>1, <1>2

\* The seven checks that follow the schema.
ChecksOf(parts, p, trusted, t, hwid, list) == <<
    Throw("E_MALFORMED",     parts.pk # p.key),
    Throw("E_UNTRUSTED_KEY", ~isTrusted(trusted, p.key)),
    Throw("E_SIGNATURE",     ~Signed(parts)),
    Throw("E_NOT_YET_VALID", TooEarly(p, t)),
    Throw("E_EXPIRED",       Expired(p, t)),
    Throw("E_DEVICE",        p.bound # {} /\ hwid \notin p.bound),
    Throw("E_REVOKED",       p.id \in list) >>

LEMMA VerifyIs ==
    ASSUME NEW env, env # Garbage, NEW trusted, NEW t, NEW hwid, NEW list,
           NEW p, p = parsePayloadJson([doc |-> env.doc, spelled |-> env.spelled])
    PROVE  LET parts == [ok |-> TRUE, payloadJson |-> [doc |-> env.doc, spelled |-> env.spelled],
                         sig |-> env.sig, pk |-> env.pk]
           IN  verifyLicense(env, trusted, t, hwid, list) =
                   IF validateSchema(p) # "ok" THEN validateSchema(p)
                   ELSE FirstError(ChecksOf(parts, p, trusted, t, hwid, list))
  BY DEF verifyLicense, envelopeDecode, ChecksOf

\* A license is accepted if and only if it passes every check.
LEMMA VerdictOk ==
    ASSUME NEW env, env # Garbage, NEW trusted, NEW t, NEW hwid, NEW list,
           NEW p, p = parsePayloadJson([doc |-> env.doc, spelled |-> env.spelled])
    PROVE  verifyLicense(env, trusted, t, hwid, list) = "ok" <=>
               /\ validateSchema(p) = "ok"
               /\ env.pk = p.key /\ isTrusted(trusted, p.key)
               /\ env.sig = [by |-> env.pk, over |-> canonicalJson(env.doc)]
               /\ ~TooEarly(p, t) /\ ~Expired(p, t)
               /\ p.bound = {} \/ hwid \in p.bound
               /\ p.id \notin list
  <1> DEFINE parts == [ok |-> TRUE, payloadJson |-> [doc |-> env.doc, spelled |-> env.spelled],
                       sig |-> env.sig, pk |-> env.pk]
             checks == ChecksOf(parts, p, trusted, t, hwid, list)
  <1>1. verifyLicense(env, trusted, t, hwid, list) =
            IF validateSchema(p) # "ok" THEN validateSchema(p) ELSE FirstError(checks)
    BY VerifyIs
  <1>2. /\ DOMAIN checks = 1..7
        /\ checks[1] = "ok" <=> env.pk = p.key
        /\ checks[2] = "ok" <=> isTrusted(trusted, p.key)
        /\ checks[3] = "ok" <=> env.sig = [by |-> env.pk, over |-> canonicalJson(env.doc)]
        /\ checks[4] = "ok" <=> ~TooEarly(p, t)
        /\ checks[5] = "ok" <=> ~Expired(p, t)
        /\ checks[6] = "ok" <=> p.bound = {} \/ hwid \in p.bound
        /\ checks[7] = "ok" <=> p.id \notin list
    BY DEF ChecksOf, Throw, Signed
  <1> HIDE DEF checks
  <1>3. FirstError(checks) = "ok" <=> \A i \in 1..7 : checks[i] = "ok"
    BY <1>2, NoError
  <1>4. (\A i \in 1..7 : checks[i] = "ok") <=>
            checks[1] = "ok" /\ checks[2] = "ok" /\ checks[3] = "ok" /\ checks[4] = "ok"
            /\ checks[5] = "ok" /\ checks[6] = "ok" /\ checks[7] = "ok"
    OBVIOUS
  <1>5. QED
    BY <1>1, <1>2, <1>3, <1>4

LEMMA ParsedIs ==
    ASSUME NEW json, DOMAIN json.doc = DOMAIN ReadAs
    PROVE  LET p == parsePayloadJson(json)
               doc == json.doc
           IN  /\ p.version = doc.version /\ p.id = doc.id /\ p.product = doc.product
               /\ p.key = doc.key /\ p.issued_at = doc.issued_at
               /\ p.not_before = doc.not_before /\ p.expires_at = doc.expires_at
               /\ p.tier = doc.tier /\ p.entitlements = doc.entitlements /\ p.bound = doc.bound
  BY DEF parsePayloadJson, ReadAs

\* Of a document whose fields are right but for its dates, the schema judges the dates.
LEMMA SchemaIs ==
    ASSUME NEW p, p.version = 2, p.id # Missing, p.key # Missing, p.product = "VOR",
           p.entitlements # {}, p.entitlements \subseteq Entitlements, p.tier \in Tiers,
           BadHwid \notin p.bound, p.issued_at = p.not_before,
           p.not_before \in Int, p.expires_at \in Int
    PROVE  validateSchema(p) = IF p.expires_at > p.not_before THEN "ok" ELSE "E_INVALID_FIELD"
  <1> DEFINE codes == <<
        Throw("E_SCHEMA",        p.version # 2),
        Throw("E_MISSING_FIELD", p.id = Missing \/ p.key = Missing),
        Throw("E_PRODUCT",       p.product # "VOR"),
        Throw("E_INVALID_FIELD", Leq(p.expires_at, p.not_before)),
        Throw("E_INVALID_FIELD", Less(p.expires_at, p.issued_at)),
        Throw("E_MISSING_FIELD", p.entitlements = {}),
        Throw("E_ENTITLEMENT",   ~(p.entitlements \subseteq Entitlements)),
        Throw("E_INVALID_FIELD", p.tier \notin Tiers),
        Throw("E_INVALID_FIELD", BadHwid \in p.bound) >>
  <1>1. /\ DOMAIN codes = 1..9
        /\ codes[1] = "ok" /\ codes[2] = "ok" /\ codes[3] = "ok"
        /\ codes[6] = "ok" /\ codes[7] = "ok" /\ codes[8] = "ok" /\ codes[9] = "ok"
    BY DEF Throw
  <1>2. /\ codes[4] = IF p.expires_at <= p.not_before THEN "E_INVALID_FIELD" ELSE "ok"
        /\ codes[5] = IF p.expires_at < p.not_before THEN "E_INVALID_FIELD" ELSE "ok"
    BY PreviewAssumption DEF Throw, Leq, Less
  <1>3. validateSchema(p) = FirstError(codes)
    BY DEF validateSchema
  <1> HIDE DEF codes
  <1>4. CASE p.expires_at > p.not_before
    <2>1. \A i \in 1..9 : codes[i] = "ok"
      BY <1>1, <1>2, <1>4
    <2>2. QED
      BY <1>1, <1>3, <1>4, <2>1, NoError
  <1>5. CASE p.expires_at <= p.not_before
    <2>1. /\ 9 \in Nat /\ 4 \in 1..9 /\ codes[4] = "E_INVALID_FIELD" /\ codes[4] # "ok"
          /\ \A j \in 1..9 : codes[j] # "ok" => 4 <= j
      BY <1>1, <1>2, <1>5
    <2>2. FirstError(codes) = codes[4]
      BY <1>1, <2>1, FirstErrorIs
    <2>3. QED
      BY <1>3, <1>5, <2>1, <2>2
  <1>6. QED
    BY <1>4, <1>5

\* The two verifiers side by side: whether the signature is over the canonical text, and
\* whether it is over the text as spelled, is all that tells them apart.
LEMMA SideBySide ==
    ASSUME NEW env, InCore(env), NEW trusted, NEW t \in Int, NEW hwid, NEW list
    PROVE  LET preview == verifyLicense(env, trusted, t, hwid, list)
               core    == CoreVerdict(env, trusted, t, hwid, list)
               signed  == env.sig = [by |-> env.pk, over |-> canonicalJson(env.doc)]
               intact  == env.sig = [by |-> env.pk, over |-> [doc |-> env.doc, spelled |-> env.spelled]]
           IN  /\ (signed <=> intact) => core = preview
               /\ ~intact => core \in {preview, "E_SIGNATURE"} \ {"ok"}
  <1> DEFINE json  == [doc |-> env.doc, spelled |-> env.spelled]
             parts == [ok |-> TRUE, payloadJson |-> json, sig |-> env.sig, pk |-> env.pk]
             p     == parsePayloadJson(json)
             codes == ChecksOf(parts, p, trusted, t, hwid, list)
             e     == CoreEnvelope(env)
             core  == CoreVerdict(env, trusted, t, hwid, list)
             third == IF ~e.intact THEN "E_SIGNATURE" ELSE "ok"
  <1>1. /\ p.version = 2 /\ p.product = "VOR" /\ p.id \in Ids /\ p.key \in Nat
        /\ p.issued_at = p.not_before /\ p.not_before \in Int /\ p.expires_at \in Int
        /\ p.tier \in Tiers /\ p.bound \subseteq Hwids
        /\ p.entitlements \subseteq Entitlements /\ p.entitlements # {}
        /\ env # Garbage
    BY ParsedIs DEF InCore
  <1>2. validateSchema(p) = IF p.expires_at > p.not_before THEN "ok" ELSE "E_INVALID_FIELD"
    BY <1>1, SchemaIs, PreviewAssumption
  <1>3. /\ e.payload.id = p.id /\ e.payload.key = p.key /\ e.payload.bound = p.bound
        /\ e.payload.not_before = p.not_before /\ e.payload.expires_at = p.expires_at
        /\ e.signer = env.pk
        /\ e.intact <=> env.sig = [by |-> env.pk, over |-> [doc |-> env.doc, spelled |-> env.spelled]]
    BY ParsedIs DEF InCore, CoreEnvelope
  <1>4. isTrusted(trusted, p.key) <=> Core!is_trusted(CoreTrusted(trusted), p.key)
    BY DEF isTrusted, Core!is_trusted, CoreTrusted
  <1>5. verifyLicense(env, trusted, t, hwid, list) =
            IF p.expires_at > p.not_before THEN FirstError(codes) ELSE "E_INVALID_FIELD"
    BY <1>1, <1>2, VerifyIs
  <1>6. /\ DOMAIN codes = 1..7
        /\ codes[1] = IF env.pk # p.key THEN "E_MALFORMED" ELSE "ok"
        /\ codes[2] = IF ~isTrusted(trusted, p.key) THEN "E_UNTRUSTED_KEY" ELSE "ok"
        /\ codes[3] = IF env.sig # [by |-> env.pk, over |-> canonicalJson(env.doc)]
                      THEN "E_SIGNATURE" ELSE "ok"
        /\ codes[4] = IF t < p.not_before - Skew THEN "E_NOT_YET_VALID" ELSE "ok"
        /\ codes[5] = IF t > p.expires_at + Skew THEN "E_EXPIRED" ELSE "ok"
        /\ codes[6] = IF p.bound # {} /\ hwid \notin p.bound THEN "E_DEVICE" ELSE "ok"
        /\ codes[7] = IF p.id \in list THEN "E_REVOKED" ELSE "ok"
    BY <1>1, PreviewAssumption DEF ChecksOf, Throw, Signed, TooEarly, Expired
  <1>7. core = IF ~(p.expires_at > p.not_before) THEN "E_INVALID_FIELD"
               ELSE IF codes[1] # "ok" THEN codes[1]
               ELSE IF codes[2] # "ok" THEN codes[2]
               ELSE IF third # "ok" THEN third
               ELSE IF codes[4] # "ok" THEN codes[4]
               ELSE IF codes[5] # "ok" THEN codes[5]
               ELSE IF codes[6] # "ok" THEN codes[6]
               ELSE IF codes[7] # "ok" THEN codes[7] ELSE "ok"
    BY <1>3, <1>4, <1>6 DEF CoreVerdict, Core!verify_license, Core!validate_schema
  <1> HIDE DEF codes, p
  <1>8. FirstError(codes) = IF codes[1] # "ok" THEN codes[1]
                            ELSE IF codes[2] # "ok" THEN codes[2]
                            ELSE IF codes[3] # "ok" THEN codes[3]
                            ELSE IF codes[4] # "ok" THEN codes[4]
                            ELSE IF codes[5] # "ok" THEN codes[5]
                            ELSE IF codes[6] # "ok" THEN codes[6]
                            ELSE IF codes[7] # "ok" THEN codes[7] ELSE "ok"
    <2>1. CASE \A i \in 1..7 : codes[i] = "ok"
      BY <1>6, <2>1, NoError
    <2>2. CASE \E i \in 1..7 : codes[i] # "ok"
      <3> DEFINE T == {i \in 1..7 : codes[i] # "ok"}
      <3>1. T \in SUBSET (1..9) /\ T # {}
        BY <2>2
      <3>2. PICK i \in 1..7 : codes[i] # "ok" /\ \A j \in 1..7 : codes[j] # "ok" => i <= j
        BY <3>1, Least
      <3>3. FirstError(codes) = codes[i]
        BY <1>6, <3>2, FirstErrorIs
      <3>4. QED
        BY <3>2, <3>3
    <2>3. QED
      BY <2>1, <2>2
  <1>9. third = IF env.sig # [by |-> env.pk, over |-> [doc |-> env.doc, spelled |-> env.spelled]]
                THEN "E_SIGNATURE" ELSE "ok"
    BY <1>3
  <1> HIDE DEF third, core
  <1>10. QED
    BY <1>5, <1>6, <1>7, <1>8, <1>9 DEF core

\* Of an envelope in its canonical spelling, verifyLicense of keystore.ts and verify_license
\* of the Rust core say the same, with the same code, whoever has signed what of it, whoever
\* trusts whom, at any time, on any device and with any revocation list.
THEOREM VerifiersAgree ==
    ASSUME NEW env, InCore(env), env.spelled = "canonical",
           NEW trusted, NEW t \in Int, NEW hwid, NEW list
    PROVE  verifyLicense(env, trusted, t, hwid, list) = CoreVerdict(env, trusted, t, hwid, list)
  <1>1. canonicalJson(env.doc) = [doc |-> env.doc, spelled |-> env.spelled]
    BY DEF canonicalJson
  <1>2. QED
    BY <1>1, SideBySide

\* Of an envelope in another spelling whose signature is over a canonical text, as all are
\* that issue_license and issueLicense make, the core says what the preview says or
\* E_SIGNATURE, and accepts none, though the preview may.
THEOREM RespelledIsRefused ==
    ASSUME NEW env, InCore(env), env.spelled # "canonical", env.sig.over.spelled = "canonical",
           NEW trusted, NEW t \in Int, NEW hwid, NEW list
    PROVE  CoreVerdict(env, trusted, t, hwid, list)
               \in {verifyLicense(env, trusted, t, hwid, list), "E_SIGNATURE"} \ {"ok"}
  <1>1. env.sig # [by |-> env.pk, over |-> [doc |-> env.doc, spelled |-> env.spelled]]
    OBVIOUS
  <1>2. QED
    BY <1>1, SideBySide
-----------------------------------------------------------------------------
(* The ledger *)

LEMMA ChainGrows ==
    ASSUME NEW S, NEW entries \in Seq(S), verifyAuditChain(entries), NEW action, NEW about
    PROVE  verifyAuditChain(Append(entries, appendAudit(entries, action, about)))
  <1> DEFINE e    == appendAudit(entries, action, about)
             more == Append(entries, e)
  <1>1. e.prev_hash = auditRoot(entries)
    BY DEF appendAudit
  <1> HIDE DEF e
  <1>2. more \in Seq(S \cup {e}) /\ Len(more) = Len(entries) + 1 /\ more[Len(more)] = e
    OBVIOUS
  <1>3. \A i \in 1..Len(entries) : more[i] = entries[i]
    OBVIOUS
  <1>4. \A i \in 1..Len(more) : SubSeq(more, 1, i - 1) = SubSeq(entries, 1, i - 1)
    <2> TAKE i \in 1..Len(more)
    <2>1. i - 1 \in 0..Len(entries)
      BY <1>2
    <2>2. \A k \in 1..(i - 1) : more[k] = entries[k]
      BY <1>3, <2>1
    <2>3. /\ SubSeq(more, 1, i - 1) = [k \in 1..(i - 1) |-> more[k]]
          /\ SubSeq(entries, 1, i - 1) = [k \in 1..(i - 1) |-> entries[k]]
      BY <1>2, <2>1
    <2>4. QED
      BY <2>2, <2>3
  <1>5. SubSeq(entries, 1, Len(entries)) = entries
    OBVIOUS
  <1> HIDE DEF more
  <1>6. ASSUME NEW i \in 1..Len(entries)
        PROVE  more[i].prev_hash = auditRoot(SubSeq(more, 1, i - 1))
    <2>1. entries[i].prev_hash = auditRoot(SubSeq(entries, 1, i - 1))
      BY DEF verifyAuditChain
    <2>2. SubSeq(more, 1, i - 1) = SubSeq(entries, 1, i - 1)
      BY <1>2, <1>4
    <2>3. more[i] = entries[i]
      BY <1>3
    <2>4. QED
      BY <2>1, <2>2, <2>3
  <1>7. more[Len(more)].prev_hash = auditRoot(SubSeq(more, 1, Len(more) - 1))
    <2>1. Len(more) \in 1..Len(more) /\ Len(more) - 1 = Len(entries)
      BY <1>2
    <2>2. SubSeq(more, 1, Len(more) - 1) = entries
      BY <1>4, <1>5, <2>1
    <2>3. QED
      BY <1>1, <1>2, <2>2
  <1>8. QED
    BY <1>2, <1>6, <1>7 DEF verifyAuditChain, more, e

\* An entry has its four fields; the genesis mark is no entry.
IsEntry(e) == e = [seq |-> e.seq, action |-> e.action, about |-> e.about, prev_hash |-> e.prev_hash]

LEMMA EntryIsNotGenesis == ASSUME NEW e, IsEntry(e) PROVE e # GENESIS
  <1>1. PICK s, a, b, h : e = [seq |-> s, action |-> a, about |-> b, prev_hash |-> h]
    BY DEF IsEntry
  <1>2. "seq" \in DOMAIN e /\ "seq" \notin DOMAIN GENESIS
    BY <1>1 DEF GENESIS
  <1>3. QED
    BY <1>2

\* The least number that fails: induction, for data.
LEMMA LeastOf == ASSUME NEW S \in SUBSET Nat, S # {} PROVE \E n \in S : \A m \in S : n <= m
  <1>1. PICK R : R = OpToRel(<, Nat)
    OBVIOUS
  <1>2. IsWellFoundedOn(R, Nat)
    BY <1>1, NatLessThanWellFounded
  <1>3. PICK n \in S : \A m \in S : <<m, n>> \notin R
    BY <1>2, WFMin
  <1>4. \A m \in S : m < n => <<m, n>> \in R
    BY <1>1 DEF OpToRel
  <1>5. \A m \in S : ~(m < n)
    BY <1>3, <1>4
  <1>6. S \subseteq Nat /\ n \in Nat
    OBVIOUS
  <1>7. QED
    BY <1>5, <1>6

\* In a ledger that verifies, each entry carries the one before it.
LEMMA PrevIs ==
    ASSUME NEW S, NEW s \in Seq(S), verifyAuditChain(s), NEW i \in 1..Len(s)
    PROVE  s[i].prev_hash = IF i = 1 THEN GENESIS ELSE s[i - 1]
  <1>1. s[i].prev_hash = auditRoot(SubSeq(s, 1, i - 1))
    BY DEF verifyAuditChain
  <1>2. PICK t : t = SubSeq(s, 1, i - 1)
    OBVIOUS
  <1>3. /\ t \in Seq(S) /\ Len(t) = i - 1
        /\ \A k \in 1..(i - 1) : t[k] = s[k]
    BY <1>2
  <1>4. CASE i = 1
    <2>1. t = <<>>
      BY <1>3, <1>4
    <2>2. QED
      BY <1>1, <1>2, <1>4, <2>1 DEF auditRoot
  <1>5. CASE i # 1
    <2>1. i - 1 \in 1..(i - 1)
      BY <1>5
    <2>2. t # <<>> /\ t[Len(t)] = s[i - 1]
      BY <1>3, <1>5, <2>1
    <2>3. QED
      BY <1>1, <1>2, <1>5, <2>2 DEF auditRoot, hashEntry
  <1>6. QED
    BY <1>4, <1>5

LEMMA RootIs ==
    ASSUME NEW S, NEW s \in Seq(S)
    PROVE  auditRoot(s) = IF Len(s) = 0 THEN GENESIS ELSE s[Len(s)]
  BY DEF auditRoot, hashEntry

\* From the root on down, the shorter of two ledgers is the end of the longer one.
LEMMA SameEnd ==
    ASSUME NEW S, NEW a \in Seq(S), NEW b \in Seq(S), Len(a) <= Len(b),
           verifyAuditChain(a), verifyAuditChain(b), auditRoot(a) = auditRoot(b),
           \A e \in S : IsEntry(e)
    PROVE  \A k \in 0..(Len(a) - 1) : a[Len(a) - k] = b[Len(b) - k]
  <1>1. PICK m, n : m = Len(a) /\ n = Len(b)
    OBVIOUS
  <1>2. m \in Nat /\ n \in Nat /\ m <= n
    BY <1>1
  <1> DEFINE wrong == {k \in Nat : k < m /\ a[m - k] # b[n - k]}
  <1>3. CASE wrong # {}
    <2>1. PICK k \in wrong : \A j \in wrong : k <= j
      BY <1>3, LeastOf
    <2>2. k \in Nat /\ k < m /\ a[m - k] # b[n - k]
      BY <2>1
    <2>3. CASE k = 0
      <3>1. m # 0 /\ n # 0 /\ m - k = m /\ n - k = n
        BY <1>2, <2>2, <2>3
      <3>2. a[m] = b[n]
        BY <1>1, <3>1, RootIs
      <3>3. QED
        BY <2>2, <3>1, <3>2
    <2>4. CASE k # 0
      <3>1. PICK i, j : i = m - k + 1 /\ j = n - k + 1
        OBVIOUS
      <3>2. i \in 1..Len(a) /\ i # 1 /\ i - 1 = m - k /\ j \in 1..Len(b) /\ j # 1 /\ j - 1 = n - k
        BY <1>1, <1>2, <2>2, <2>4, <3>1
      <3>3. k - 1 \in Nat /\ k - 1 < m /\ ~(k <= k - 1) /\ m - (k - 1) = i /\ n - (k - 1) = j
        BY <1>2, <2>2, <2>4, <3>1
      <3>4. a[i] = b[j]
        BY <2>1, <3>3
      <3>5. a[i].prev_hash = a[i - 1] /\ b[j].prev_hash = b[j - 1]
        BY <3>2, PrevIs
      <3>6. QED
        BY <2>2, <3>2, <3>4, <3>5
    <2>5. QED
      BY <2>3, <2>4
  <1>4. CASE wrong = {}
    <2>1. \A k \in 0..(m - 1) : k \in Nat /\ k < m
      BY <1>2
    <2>2. \A k \in 0..(m - 1) : a[m - k] = b[n - k]
      BY <1>4, <2>1
    <2>3. QED
      BY <1>1, <2>2
  <1>5. QED
    BY <1>3, <1>4

LEMMA ShorterIsSame ==
    ASSUME NEW S, NEW a \in Seq(S), NEW b \in Seq(S), Len(a) <= Len(b),
           verifyAuditChain(a), verifyAuditChain(b), auditRoot(a) = auditRoot(b),
           \A e \in S : IsEntry(e)
    PROVE  a = b
  <1>1. PICK m, n : m = Len(a) /\ n = Len(b)
    OBVIOUS
  <1>2. m \in Nat /\ n \in Nat /\ m <= n
    BY <1>1
  <1>3. \A k \in 0..(m - 1) : a[m - k] = b[n - k]
    BY <1>1, SameEnd
  <1>4. \A i \in 1..n : b[i] # GENESIS
    BY <1>1, EntryIsNotGenesis
  <1>5. m = n
    <2>1. CASE m = 0 /\ n # 0
      <3>1. n \in 1..n
        BY <1>2, <2>1
      <3>2. auditRoot(a) = GENESIS /\ auditRoot(b) = b[n]
        BY <1>1, <2>1, RootIs
      <3>3. QED
        BY <1>4, <3>1, <3>2
    <2>2. CASE m # 0 /\ m # n
      <3>1. PICK j : j = n - m + 1
        OBVIOUS
      <3>2. /\ 1 \in 1..Len(a) /\ j \in 1..Len(b) /\ j # 1 /\ j - 1 \in 1..n
            /\ m - 1 \in 0..(m - 1) /\ m - (m - 1) = 1 /\ n - (m - 1) = j
        BY <1>1, <1>2, <2>2, <3>1
      <3>3. a[1] = b[j]
        BY <1>3, <3>2
      <3>4. a[1].prev_hash = GENESIS /\ b[j].prev_hash = b[j - 1]
        BY <3>2, PrevIs
      <3>5. QED
        BY <1>4, <3>2, <3>3, <3>4
    <2>3. QED
      BY <2>1, <2>2
  <1>6. \A i \in 1..m : a[i] = b[i]
    <2> TAKE i \in 1..m
    <2>1. m - i \in 0..(m - 1) /\ m - (m - i) = i
      BY <1>2
    <2>2. QED
      BY <1>3, <1>5, <2>1
  <1>7. QED
    BY <1>1, <1>5, <1>6, SeqEqual

\* What audit.ts promises of a ledger ("Any retro-edit breaks the chain"): of two ledgers
\* that verifyAuditChain accepts, whatever their entries, the same root (auditRoot, which
\* the ledger panel shows) is of the same ledger.  An edit, a removal, a reordering or a cut
\* breaks the chain or shows in the root.
THEOREM RootPinsTheLedger ==
    ASSUME NEW S, \A e \in S : IsEntry(e), NEW a \in Seq(S), NEW b \in Seq(S),
           verifyAuditChain(a), verifyAuditChain(b), auditRoot(a) = auditRoot(b)
    PROVE  a = b
  <1>1. Len(a) \in Nat /\ Len(b) \in Nat
    OBVIOUS
  <1>2. CASE Len(a) <= Len(b)
    BY <1>2, ShorterIsSame
  <1>3. CASE Len(b) <= Len(a)
    BY <1>3, ShorterIsSame
  <1>4. QED
    BY <1>1, <1>2, <1>3
-----------------------------------------------------------------------------
(* A check's verdict *)

LEMMA ParsedGenuine ==
    ASSUME NEW e, Genuine(e)
    PROVE  e.doc = parsePayloadJson([doc |-> e.doc, spelled |-> e.spelled])
  BY DEF Genuine, parsePayloadJson

\* A check accepts exactly the licenses that are due, of what the gate is given.
LEMMA VerdictIsOfDue ==
    ASSUME Sentinels, Shape, KInv, LInv, NEW env, Given(env)
    PROVE  Verdict(env) = "ok" <=> Due(env)
  <1>1. ASSUME env \in issued PROVE Verdict(env) = "ok" <=> Due(env)
    <2>1. Genuine(env) /\ env # Garbage
      BY <1>1 DEF LInv, Genuine, Envelope, Sentinels
    <2>2. Verdict(env) = "ok" <=>
             /\ isTrusted(disk.trusted, env.pk)
             /\ ~TooEarly(env.doc, now) /\ ~Expired(env.doc, now)
             /\ env.doc.bound = {} \/ Device \in env.doc.bound
             /\ env.doc.id \notin disk.revoked
      <3>1. verifyLicense(env, disk.trusted, now, Device, disk.revoked) = "ok" <=>
               /\ validateSchema(env.doc) = "ok"
               /\ env.pk = env.doc.key /\ isTrusted(disk.trusted, env.doc.key)
               /\ env.sig = [by |-> env.pk, over |-> canonicalJson(env.doc)]
               /\ ~TooEarly(env.doc, now) /\ ~Expired(env.doc, now)
               /\ env.doc.bound = {} \/ Device \in env.doc.bound
               /\ env.doc.id \notin disk.revoked
        <4>1. PICK p : p = env.doc
          OBVIOUS
        <4>2. p = parsePayloadJson([doc |-> env.doc, spelled |-> env.spelled])
          BY <2>1, <4>1, ParsedGenuine
        <4>3. verifyLicense(env, disk.trusted, now, Device, disk.revoked) = "ok" <=>
               /\ validateSchema(p) = "ok"
               /\ env.pk = p.key /\ isTrusted(disk.trusted, p.key)
               /\ env.sig = [by |-> env.pk, over |-> canonicalJson(env.doc)]
               /\ ~TooEarly(p, now) /\ ~Expired(p, now)
               /\ p.bound = {} \/ Device \in p.bound
               /\ p.id \notin disk.revoked
          BY <2>1, <4>2, VerdictOk
        <4>4. QED
          BY <4>1, <4>3
      <3>2. QED
        BY <2>1, <3>1 DEF Verdict, Genuine
    <2>3. isTrusted(disk.trusted, env.pk) <=> env.pk \notin cutOff
      BY <2>1 DEF KInv, Genuine
    <2>4. isTrusted(disk.trusted, env.pk) =>
             (env.doc.id \in disk.revoked <=> env.doc.id \in revokedEver)
      BY <1>1 DEF LInv, Record
    <2>5. /\ TooEarly(env.doc, now) <=> ~(env.doc.not_before - Skew <= now)
          /\ Expired(env.doc, now) <=> ~(now <= env.doc.expires_at + Skew)
      BY <2>1, PreviewAssumption, ConsoleAssumption DEF Genuine, TooEarly, Expired, Shape
    <2>6. QED
      BY <1>1, <2>2, <2>3, <2>4, <2>5 DEF Due
  <1>2. ASSUME env \notin issued PROVE Verdict(env) # "ok" /\ ~Due(env)
    <2>1. CASE env = Garbage
      BY <1>2, <2>1 DEF Verdict, verifyLicense, envelopeDecode, Due
    <2>2. CASE Forged(env)
      <3>1. env # Garbage
        BY <2>2 DEF Forged, Envelope, Sentinels
      <3>2. Verdict(env) # "ok"
        <4>1. PICK p : p = parsePayloadJson([doc |-> env.doc, spelled |-> env.spelled])
          OBVIOUS
        <4>2. verifyLicense(env, disk.trusted, now, Device, disk.revoked) = "ok" =>
                  env.sig = [by |-> env.pk, over |-> canonicalJson(env.doc)]
          BY <3>1, <4>1, VerdictOk
        <4>3. QED
          BY <2>2, <4>2 DEF Verdict, Forged
      <3>3. QED
        BY <1>2, <3>2 DEF Due
    <2>3. QED
      BY <1>2, <2>1, <2>2 DEF Given
  <1>3. QED
    BY <1>1, <1>2
-----------------------------------------------------------------------------
(* What the actions do to the disk, to the console and to what is on screen. *)

\* The operator's actions, each of a console that is mounted.
Work == \/ GenerateKeystore \/ (\E retireOld \in BOOLEAN : rotate(retireOld)) \/ submit
        \/ \E id \in Ids : revoke(id) \/ \E typed \in DOMAIN Typed : bindHwid(id, typed)
        \/ KeySection

\* The others leave the lists on the disk alone, or empty them all.
Rest == \/ \E v \in {"client", "manager"} : setView(v)
        \/ setManagerUnlocked \/ Load
        \/ (\E env \in issued \cup {Garbage} : runVerify(env)) \/ demoTampered \/ demoExpired
        \/ (\E env \in client.pending : verifyAndActivate(env)) \/ boot \/ deactivate
        \/ ReloadPage \/ resetAll \/ TimePasses

LEMMA NextSplits == Next <=> Work \/ Rest
  BY DEF Next, Work, Rest

LEMMA PushAuditIs ==
    ASSUME NEW d, NEW c, NEW action, NEW about, pushAudit(d, c, action, about),
           d = [keystore |-> d.keystore, trusted |-> d.trusted, licenses |-> d.licenses,
                audit |-> d.audit, revoked |-> d.revoked, activated |-> d.activated],
           c = [loaded |-> c.loaded, ks |-> c.ks, licenses |-> c.licenses,
                audit |-> c.audit, revoked |-> c.revoked]
    PROVE  /\ disk' = [keystore |-> d.keystore, trusted |-> d.trusted, licenses |-> d.licenses,
                       audit |-> Pushed(action, about), revoked |-> d.revoked, activated |-> d.activated]
           /\ con' = [loaded |-> c.loaded, ks |-> c.ks, licenses |-> c.licenses,
                      audit |-> Pushed(action, about), revoked |-> c.revoked]
  BY DEF pushAudit

LEMMA PushAndReloadIs ==
    ASSUME NEW d, NEW action, NEW about, pushAuditAndReload(d, action, about),
           d = [keystore |-> d.keystore, trusted |-> d.trusted, licenses |-> d.licenses,
                audit |-> d.audit, revoked |-> d.revoked, activated |-> d.activated]
    PROVE  /\ disk' = [keystore |-> d.keystore, trusted |-> d.trusted, licenses |-> d.licenses,
                       audit |-> Pushed(action, about), revoked |-> d.revoked, activated |-> d.activated]
           /\ \E ledger \in {Pushed(action, about), d.audit} :
                 con' = [loaded |-> con.loaded, ks |-> d.keystore, licenses |-> d.licenses,
                         audit |-> ledger, revoked |-> d.revoked]
  <1>1. disk' = [keystore |-> d.keystore, trusted |-> d.trusted, licenses |-> d.licenses,
                 audit |-> Pushed(action, about), revoked |-> d.revoked, activated |-> d.activated]
    BY DEF pushAuditAndReload
  <1>2. con' = loadManagerData(disk') \/ con' = loadManagerData(d)
    BY DEF pushAuditAndReload
  <1>3. QED
    BY <1>1, <1>2 DEF loadManagerData

\* Nothing of the lists and the history changes.
Lists == <<disk.keystore, disk.trusted, disk.licenses, disk.audit, disk.revoked, history>>

LEMMA ListsKept ==
    ASSUME KInv, LInv, Ledger(disk.audit), UNCHANGED Lists
    PROVE  KInv' /\ LInv' /\ Ledger(disk.audit)'
  <1> USE DEF Lists, history
  <1>1. KInv'
    BY DEF KInv
  <1>2. LInv'
    BY DEF LInv, Genuine, Record
  <1>3. Ledger(disk.audit)'
    BY DEF Ledger, True
  <1>4. QED
    BY <1>1, <1>2, <1>3

LEMMA EmptyLedger == Ledger(<<>>)
  <1>1. <<>> \in Seq({}) /\ DOMAIN <<>> = {}
    OBVIOUS
  <1>2. QED
    BY <1>1 DEF Ledger, verifyAuditChain

LEMMA LedgersKept ==
    ASSUME Ledger(disk.audit), Ledger(con.audit), UNCHANGED Lists,
           con'.audit \in {<<>>, con.audit, disk.audit}
    PROVE  Ledger(con.audit)'
  <1>1. Ledger(con'.audit)
    BY EmptyLedger
  <1>2. QED
    BY <1>1 DEF Ledger, True, Lists, history

\* An action of the shell, the gate or the store that leaves the lists alone: what it does
\* to the console, to what the gate is given and to the activation decides.
LEMMA QuietKeeps ==
    ASSUME IInv, UNCHANGED Lists, Shape', GInv',
           \/ con' = Unloaded
           \/ con' = con /\ Mounted' = Mounted
           \/ Load
    PROVE  IInv'
  <1>1. KInv' /\ LInv' /\ Ledger(disk.audit)'
    BY ListsKept DEF IInv
  <1>2. con'.audit \in {<<>>, con.audit, disk.audit}
    BY DEF Unloaded, Load, loadManagerData
  <1>3. Ledger(con.audit)'
    BY <1>2, LedgersKept DEF IInv
  <1>4. Memory'
    <2>1. CASE con' = Unloaded
      BY <2>1 DEF Memory, Unloaded
    <2>2. CASE con' = con /\ Mounted' = Mounted
      BY <2>2 DEF IInv, Memory, Lists
    <2>3. CASE Load
      <3>1. con'.ks = disk.keystore /\ con'.licenses = disk.licenses /\ con'.revoked = disk.revoked
        BY <2>3 DEF Load, loadManagerData
      <3>2. Mounted'
        BY <2>3 DEF Load, Mounted
      <3>3. disk'.keystore = disk.keystore /\ disk'.licenses = disk.licenses /\ disk'.revoked = disk.revoked
        BY DEF Lists
      <3>4. QED
        BY <3>1, <3>2, <3>3 DEF IInv, KInv, Memory
    <2>4. QED
      BY <2>1, <2>2, <2>3
  <1>5. QED
    BY <1>1, <1>3, <1>4 DEF IInv

LEMMA ShellKeeps ==
    ASSUME IInv, NEW v \in {"client", "manager"},
           setView(v) \/ setManagerUnlocked \/ Load \/ ReloadPage \/ TimePasses
    PROVE  IInv'
  <1>1. CASE setView(v)
    <2>1. UNCHANGED Lists /\ Shape' /\ GInv' /\ con' = Unloaded
      BY <1>1 DEF setView, Lists, IInv, Shape, GInv, Given, Unloaded, history
    <2>2. QED
      BY <2>1, QuietKeeps
  <1>2. CASE setManagerUnlocked
    <2>1. UNCHANGED Lists /\ Shape' /\ GInv' /\ con' = Unloaded
      BY <1>2 DEF setManagerUnlocked, Lists, IInv, Shape, GInv, Given, Unloaded, history
    <2>2. QED
      BY <2>1, QuietKeeps
  <1>3. CASE Load
    <2>1. UNCHANGED Lists /\ Shape' /\ GInv'
      BY <1>3 DEF Load, Lists, IInv, Shape, GInv, Given, loadManagerData, history
    <2>2. QED
      BY <1>3, <2>1, QuietKeeps
  <1>4. CASE ReloadPage
    <2>1. UNCHANGED Lists /\ Shape' /\ con' = Unloaded
      BY <1>4 DEF ReloadPage, Lists, IInv, Shape, Unloaded, StartOfPage, history
    <2>2. GInv'
      BY <1>4 DEF ReloadPage, IInv, GInv, StartOfPage, history
    <2>3. QED
      BY <2>1, <2>2, QuietKeeps
  <1>5. CASE TimePasses
    <2>1. UNCHANGED Lists /\ Shape' /\ GInv' /\ con' = con /\ Mounted' = Mounted
      BY <1>5 DEF TimePasses, Lists, IInv, Shape, GInv, Given, Mounted, history
    <2>2. QED
      BY <2>1, QuietKeeps
  <1>6. QED
    BY <1>1, <1>2, <1>3, <1>4, <1>5

LEMMA IssuedIsThere ==
    ASSUME Sentinels, IInv, NEW e \in issued
    PROVE  e # None /\ e.doc # None
  <1>1. Genuine(e)
    BY DEF IInv, LInv
  <1>2. [doc |-> e.doc, spelled |-> e.spelled, sig |-> e.sig, pk |-> e.pk] # None
    BY DEF Sentinels
  <1>3. e # None
    BY <1>1, <1>2 DEF Genuine, Envelope
  <1>4. DOMAIN e.doc = DOMAIN ReadAs
    BY <1>1 DEF Genuine
  <1>5. PICK doc : doc = e.doc
    OBVIOUS
  <1>6. doc # None
    BY <1>4, <1>5 DEF Sentinels
  <1>7. QED
    BY <1>3, <1>5, <1>6

LEMMA GateKeeps ==
    ASSUME Sentinels, IInv, NEW env,
           \/ env \in issued \cup {Garbage} /\ runVerify(env)
           \/ env \in client.pending /\ verifyAndActivate(env)
           \/ boot \/ deactivate
    PROVE  IInv'
  <1>1. CASE env \in issued \cup {Garbage} /\ runVerify(env)
    <2>1. UNCHANGED Lists /\ Shape' /\ con' = con /\ Mounted' = Mounted
      BY <1>1 DEF runVerify, Lists, IInv, Shape, Mounted, history
    <2>2. GInv'
      BY <1>1 DEF runVerify, IInv, GInv, Shape, Given, history
    <2>3. QED
      BY <2>1, <2>2, QuietKeeps
  <1>2. ASSUME NEW e \in issued PROVE e # None
    BY IssuedIsThere, <1>2
  <1>3. CASE env \in client.pending /\ verifyAndActivate(env)
    <2>1. CASE Verdict(env) = "ok"
      <3>1. env \in issued
        BY <1>3, <2>1, VerdictIsOfDue DEF IInv, GInv, Due
      <3>2. /\ disk' = [disk EXCEPT !.activated = env] /\ con' = Unloaded
            /\ client' = [[client EXCEPT !.pending = @ \ {env}]
                             EXCEPT !.activated = env.doc, !.view = "client"]
            /\ UNCHANGED <<now, history>>
        BY <1>3, <2>1 DEF verifyAndActivate, Activated
      <3>3. UNCHANGED Lists /\ Shape'
        BY <3>2 DEF Lists, IInv, Shape, Unloaded, history
      <3>4. GInv'
        BY <1>2, <3>1, <3>2 DEF IInv, GInv, Shape, Given, history
      <3>5. QED
        BY <3>2, <3>3, <3>4, QuietKeeps
    <2>2. CASE Verdict(env) # "ok"
      <3>1. /\ disk' = disk /\ con' = con
            /\ client' = [[client EXCEPT !.pending = @ \ {env}] EXCEPT !.activated = None]
            /\ UNCHANGED <<now, history>>
        BY <1>3, <2>2 DEF verifyAndActivate, Activated
      <3>2. UNCHANGED Lists /\ Shape' /\ Mounted' = Mounted
        BY <3>1 DEF Lists, IInv, Shape, Mounted, history
      <3>3. GInv'
        BY <3>1 DEF IInv, GInv, Shape, Given, history
      <3>4. QED
        BY <3>1, <3>2, <3>3, QuietKeeps
    <2>3. QED
      BY <2>1, <2>2
  <1>4. CASE boot
    <2> DEFINE quiet == [client EXCEPT !.booting = FALSE]
    <2>1. CASE disk.activated = None
      <3>1. /\ disk' = [disk EXCEPT !.activated = None] /\ con' = con /\ client' = quiet
            /\ UNCHANGED <<now, history>>
        BY <1>4, <2>1 DEF boot
      <3>2. UNCHANGED Lists /\ Shape' /\ Mounted' = Mounted
        BY <3>1 DEF Lists, IInv, Shape, Mounted, history
      <3>3. GInv'
        BY <2>1, <3>1 DEF IInv, GInv, Shape, Given, history
      <3>4. QED
        BY <3>1, <3>2, <3>3, QuietKeeps
    <2>2. CASE disk.activated # None /\ Verdict(disk.activated) = "ok"
      <3>1. /\ disk' = disk /\ con' = Unloaded
            /\ client' = [quiet EXCEPT !.activated = disk.activated.doc, !.view = "client"]
            /\ UNCHANGED <<now, history>>
        BY <1>4, <2>2 DEF boot, Activated
      <3>2. UNCHANGED Lists /\ Shape'
        BY <3>1 DEF Lists, IInv, Shape, Unloaded, history
      <3>3. GInv'
        BY <2>2, <3>1 DEF IInv, GInv, Shape, Given, history
      <3>4. QED
        BY <3>1, <3>2, <3>3, QuietKeeps
    <2>3. CASE disk.activated # None /\ Verdict(disk.activated) # "ok"
      <3>1. /\ disk' = [disk EXCEPT !.activated = None] /\ con' = con
            /\ client' = [quiet EXCEPT !.activated = None]
            /\ UNCHANGED <<now, history>>
        BY <1>4, <2>3 DEF boot, Activated
      <3>2. UNCHANGED Lists /\ Shape' /\ Mounted' = Mounted
        BY <3>1 DEF Lists, IInv, Shape, Mounted, history
      <3>3. GInv'
        BY <3>1 DEF IInv, GInv, Shape, Given, history
      <3>4. QED
        BY <3>1, <3>2, <3>3, QuietKeeps
    <2>4. QED
      BY <2>1, <2>2, <2>3
  <1>5. CASE deactivate
    <2>1. /\ disk' = [disk EXCEPT !.activated = None] /\ con' = con
          /\ client' = [client EXCEPT !.activated = None, !.view = "gate"]
          /\ client.view = "client" /\ UNCHANGED <<now, history>>
      BY <1>5 DEF deactivate, ClientShown
    <2>2. UNCHANGED Lists /\ Shape' /\ Mounted' = Mounted
      BY <2>1 DEF Lists, IInv, Shape, Mounted, history
    <2>3. GInv'
      BY <2>1 DEF IInv, GInv, Shape, Given, history
    <2>4. QED
      BY <2>1, <2>2, <2>3, QuietKeeps
  <1>6. QED
    BY <1>1, <1>3, <1>4, <1>5

\* Everything is lost, and every key with it.
LEMMA ResetKeeps == ASSUME IInv, resetAll PROVE IInv'
  <1>1. /\ disk' = EmptyDisk /\ con' = Unloaded /\ client' = StartOfPage
        /\ cutOff' = cutOff \cup DOMAIN disk.trusted
        /\ UNCHANGED <<now, made, issued, revokedEver>>
    BY DEF resetAll
  <1>2. Shape' /\ Memory' /\ GInv'
    BY <1>1 DEF IInv, Shape, Memory, GInv, EmptyDisk, Unloaded, StartOfPage
  <1>3. KInv'
    <2>1. \A k \in 1..made : k \in cutOff'
      BY <1>1 DEF IInv, KInv, isTrusted
    <2>2. cutOff' \subseteq 1..made
      BY <1>1 DEF IInv, KInv
    <2>3. disk'.keystore = None /\ disk'.trusted = NoMap /\ disk'.licenses = NoMap /\ DOMAIN NoMap = {}
      BY <1>1 DEF EmptyDisk, NoMap
    <2>4. QED
      BY <1>1, <2>1, <2>2, <2>3 DEF IInv, KInv, isTrusted
  <1>4. LInv'
    <2>1. disk'.trusted = NoMap /\ disk'.licenses = NoMap /\ disk'.revoked = {} /\ DOMAIN NoMap = {}
      BY <1>1 DEF EmptyDisk, NoMap
    <2>2. \A e \in issued' : Genuine(e)'
      BY <1>1 DEF IInv, LInv, Genuine
    <2>3. NoMap = [id \in DOMAIN NoMap |-> NoMap[id]]
      BY DEF NoMap
    <2>4. \A id \in revokedEver' : \E e \in issued' : e.doc.id = id
      BY <1>1 DEF IInv, LInv
    <2>5. QED
      BY <2>1, <2>2, <2>3, <2>4 DEF LInv, isTrusted
  <1>5. Ledger(disk.audit)' /\ Ledger(con.audit)'
    <2>1. /\ disk'.audit = <<>> /\ con'.audit = <<>>
          /\ <<>> \in Seq({}) /\ DOMAIN <<>> = {}
      BY <1>1 DEF EmptyDisk, Unloaded
    <2>2. QED
      BY <2>1 DEF Ledger, verifyAuditChain
  <1>6. QED
    BY <1>2, <1>3, <1>4, <1>5 DEF IInv
-----------------------------------------------------------------------------
(* Keys *)

\* What the ledger says was done stays done.
LEMMA TrueGrows ==
    ASSUME DOMAIN disk.licenses \subseteq DOMAIN disk'.licenses, disk.revoked \subseteq disk'.revoked,
           made \in Nat, made' \in Nat, made <= made', NEW e, True(e)
    PROVE  True(e)'
  BY DEF True

LEMMA LedgerStays ==
    ASSUME DOMAIN disk.licenses \subseteq DOMAIN disk'.licenses, disk.revoked \subseteq disk'.revoked,
           made \in Nat, made' \in Nat, made <= made', NEW x, Ledger(x)
    PROVE  Ledger(x)'
  BY TrueGrows DEF Ledger

\* The ledger of the console with one more entry, which is true when it has been written.
LEMMA LedgerGrows ==
    ASSUME DOMAIN disk.licenses \subseteq DOMAIN disk'.licenses, disk.revoked \subseteq disk'.revoked,
           made \in Nat, made' \in Nat, made <= made', Ledger(con.audit), NEW action, NEW about,
           action \in {"SIG_ISSUED", "HWID_BIND", "REVOKE_EVENT"} => about \in DOMAIN disk'.licenses,
           action = "REVOKE_EVENT" => about \in disk'.revoked,
           action \in {"KEYGEN", "ROTATE"} => about \in 1..made',
           NEW x, x = Pushed(action, about)
    PROVE  Ledger(x)'
  <1> DEFINE old == con.audit
  <1>1. PICK S : old \in Seq(S)
    BY DEF Ledger
  <1>2. PICK e : e = appendAudit(old, action, about)
    OBVIOUS
  <1>3. x = Append(old, e)
    BY <1>2 DEF Pushed
  <1>4. verifyAuditChain(x)
    BY <1>1, <1>2, <1>3, ChainGrows DEF Ledger
  <1>5. e.action = action /\ e.about = about
    BY <1>2 DEF appendAudit
  <1>6. True(e)'
    BY <1>5 DEF True
  <1>7. PICK o : o = old
    OBVIOUS
  <1>8. \A i \in DOMAIN o : True(o[i])'
    BY <1>7, TrueGrows DEF Ledger
  <1>9. x \in Seq(S \cup {e}) /\ \A i \in DOMAIN x : x[i] = e \/ (i \in DOMAIN o /\ x[i] = o[i])
    BY <1>1, <1>3, <1>7
  <1>10. \A i \in DOMAIN x : True(x[i])'
    BY <1>6, <1>8, <1>9
  <1>11. QED
    BY <1>4, <1>9, <1>10 DEF Ledger

\* A new key, which is not one there has been, leaves the licenses as they are: those of a
\* key that the new trust store does not trust are not accepted any more.
LEMMA NewKey ==
    ASSUME Sentinels, KInv, LInv, NEW T,
           UNCHANGED <<issued, revokedEver>>, made' = made + 1,
           disk'.licenses = disk.licenses, disk'.revoked = disk.revoked,
           disk'.keystore = [active |-> made + 1, keys |-> T], disk'.trusted = T,
           DOMAIN T \subseteq 1..(made + 1), isTrusted(T, made + 1), cutOff' \subseteq 1..made,
           \A k \in 1..made : /\ k \notin cutOff' <=> isTrusted(T, k)
                              /\ isTrusted(T, k) => isTrusted(disk.trusted, k)
    PROVE  KInv' /\ LInv'
  <1>1. made \in Nat
    BY DEF KInv
  <1>2. 1..(made + 1) = 1..made \cup {made + 1} /\ made + 1 \notin 1..made
    BY <1>1
  <1>3. KInv'
    <2>1. disk'.keystore # None /\ disk'.keystore.active = made + 1 /\ disk'.keystore.keys = T
      BY DEF Sentinels
    <2>2. made' \in Nat /\ cutOff' \subseteq 1..made'
      BY <1>1, <1>2
    <2>3. \A k \in 1..made' : k \notin cutOff' <=> isTrusted(disk.trusted, k)'
      BY <1>2 DEF isTrusted
    <2>4. isTrusted(disk'.trusted, disk'.keystore.active)
      BY <2>1
    <2>5. DOMAIN disk'.trusted \subseteq 1..made'
      OBVIOUS
    <2>6. QED
      BY <2>1, <2>2, <2>3, <2>4, <2>5 DEF KInv, isTrusted
  <1>4. LInv'
    <2>1. \A e \in issued : Genuine(e)' /\ e.pk \in 1..made
      BY <1>2 DEF LInv, Genuine
    <2>2. \A e \in issued : isTrusted(T, e.pk) => e.doc.id \in DOMAIN disk.licenses
      BY <2>1 DEF LInv
    <2>3. \A id \in DOMAIN disk.licenses : Record(disk.licenses[id], id)'
      BY DEF LInv, Record
    <2>4. QED
      BY <2>1, <2>2, <2>3 DEF LInv, Record, isTrusted
  <1>5. QED
    BY <1>3, <1>4

\* demoTampered and demoExpired: the authority they see to, and what the gate is given.
LEMMA AuthorityKeeps ==
    ASSUME Sentinels, IInv, ensureDemoAuthority, client' = [client EXCEPT !.pending = client'.pending],
           \A e \in client'.pending : Given(e)
    PROVE  IInv'
  <1>1. /\ disk' = [disk EXCEPT !.keystore = Authority, !.trusted = trustedFromKeystore(Authority)]
        /\ UNCHANGED <<con, now, issued, cutOff, revokedEver>>
    BY DEF ensureDemoAuthority
  <1>2. Shape' /\ Mounted' = Mounted
    BY <1>1 DEF IInv, Shape, Mounted
  <1>3. GInv'
    BY <1>1 DEF IInv, Shape, GInv, Given, Forged, Envelope
  <1>4. CASE disk.keystore # None
    <2>1. disk' = disk /\ made' = made
      BY <1>1, <1>4 DEF ensureDemoAuthority, Authority, trustedFromKeystore, IInv, Shape, KInv
    <2>2. UNCHANGED Lists
      BY <1>1, <2>1 DEF Lists, history
    <2>3. QED
      BY <1>1, <1>2, <1>3, <2>2, QuietKeeps
  <1>5. CASE disk.keystore = None
    <2> DEFINE T == [n \in {made + 1} |-> "active"]
    <2>1. /\ made' = made + 1 /\ made \in Nat /\ disk.trusted = NoMap /\ con.ks = None
          /\ disk'.keystore = [active |-> made + 1, keys |-> T] /\ disk'.trusted = T
          /\ disk'.licenses = disk.licenses /\ disk'.revoked = disk.revoked
          /\ disk'.audit = disk.audit
      BY <1>1, <1>5 DEF ensureDemoAuthority, Authority, generateKeystore, trustedFromKeystore,
                        IInv, Shape, KInv, Memory
    <2>2. /\ DOMAIN T \subseteq 1..(made + 1) /\ isTrusted(T, made + 1)
          /\ \A k \in 1..made : ~isTrusted(T, k)
      BY <2>1 DEF isTrusted
    <2>3. \A k \in 1..made : k \in cutOff
      BY <2>1 DEF IInv, KInv, isTrusted, NoMap
    <2> HIDE DEF T
    <2>4. KInv' /\ LInv'
      BY <1>1, <2>1, <2>2, <2>3, NewKey DEF IInv, KInv
    <2>5. Memory'
      BY <1>1, <1>2, <2>1 DEF IInv, Memory
    <2>6. \A x : Ledger(x) => Ledger(x)'
      BY <2>1, LedgerStays
    <2>7. Ledger(disk.audit)' /\ Ledger(con.audit)'
      <3>1. PICK x, y : x = disk.audit /\ y = con.audit
        OBVIOUS
      <3>2. Ledger(x)' /\ Ledger(y)'
        BY <2>6, <3>1 DEF IInv
      <3>3. QED
        BY <1>1, <2>1, <3>1, <3>2 DEF Ledger, True
    <2>8. QED
      BY <1>2, <1>3, <2>4, <2>5, <2>7 DEF IInv
  <1>6. QED
    BY <1>4, <1>5

LEMMA DemoKeeps == ASSUME Sentinels, IInv, demoTampered \/ demoExpired PROVE IInv'
  <1>1. CASE demoExpired
    BY <1>1, AuthorityKeeps DEF demoExpired, IInv, GInv, Shape
  <1>2. CASE demoTampered
    <2>1. PICK id \in Ids, days \in Days :
             LET env == issueLicense(Authority, buildPayload(now, days, Authority, id, {}))
             IN  client' = [client EXCEPT !.pending = {[env EXCEPT !.doc.id = DemoId]}]
      BY <1>2 DEF demoTampered
    <2> DEFINE doc == buildPayload(now, days, Authority, id, {})
               env == issueLicense(Authority, doc)
               bad == [env EXCEPT !.doc.id = DemoId]
    <2>2. /\ env = [doc |-> doc, spelled |-> "canonical", pk |-> Authority.active,
                    sig |-> [by |-> Authority.active, over |-> canonicalJson(doc)]]
      BY DEF issueLicense, envelopeEncode, payloadToCanonical, canonicalJson, signCanonical
    <2>3. doc.id = id
      BY DEF buildPayload
    <2>4. bad.sig.over.doc.id # bad.doc.id
      <3>1. bad.sig.over.doc = doc /\ bad.doc = [doc EXCEPT !.id = DemoId]
        BY <2>2 DEF canonicalJson
      <3>2. [doc EXCEPT !.id = DemoId].id = DemoId
        BY DEF buildPayload
      <3>3. QED
        BY <2>3, <3>1, <3>2, ConsoleAssumption
    <2>5. Forged(bad)
      BY <2>2, <2>4 DEF Forged, Envelope, canonicalJson
    <2> HIDE DEF bad
    <2>6. client' = [client EXCEPT !.pending = {bad}]
      BY <2>1 DEF bad
    <2>7. client'.pending = {bad}
      BY <2>6 DEF IInv, Shape
    <2>8. QED
      BY <1>2, <2>5, <2>6, <2>7, AuthorityKeeps DEF demoTampered, Given
  <1>3. QED
    BY <1>1, <1>2
-----------------------------------------------------------------------------
(* The console *)

\* A handler that logs, and may reload: the disk with what it writes, the console with that
\* in memory, and one more entry of the ledger on the disk.
LEMMA WorkKeeps ==
    ASSUME Sentinels, IInv, Mounted, KInv', LInv', UNCHANGED client, now' \in Clock,
           issued \subseteq issued', NEW d, d.keystore # None, NEW x, Ledger(x)', NEW y, Ledger(y)',
           disk' = [keystore |-> d.keystore, trusted |-> d.trusted, licenses |-> d.licenses,
                    audit |-> x, revoked |-> d.revoked, activated |-> disk.activated],
           con' = [loaded |-> con.loaded, ks |-> d.keystore, licenses |-> d.licenses,
                   audit |-> y, revoked |-> d.revoked]
    PROVE  IInv'
  <1>1. Shape'
    BY DEF IInv, Shape
  <1>2. Memory'
    BY DEF IInv, Memory, Mounted
  <1>3. GInv'
    BY DEF IInv, GInv, Given, Forged, Envelope
  <1>4. Ledger(disk.audit)' /\ Ledger(con.audit)'
    <2>1. disk'.audit = x /\ con'.audit = y
      OBVIOUS
    <2>2. QED
      BY <2>1 DEF Ledger, True
  <1>5. QED
    BY <1>1, <1>2, <1>3, <1>4 DEF IInv

\* GenerateKeystore and rotate: the keys T of the keystore they write.
LEMMA KeyKeeps ==
    ASSUME Sentinels, IInv, Mounted, NEW T, NEW d, NEW action \in {"KEYGEN", "ROTATE"},
           d = [disk EXCEPT !.keystore = [active |-> made + 1, keys |-> T], !.trusted = T],
           pushAuditAndReload(d, action, made + 1), made' = made + 1,
           UNCHANGED <<client, now, issued, revokedEver>>,
           DOMAIN T \subseteq 1..(made + 1), isTrusted(T, made + 1), cutOff' \subseteq 1..made,
           \A k \in 1..made : /\ k \notin cutOff' <=> isTrusted(T, k)
                              /\ isTrusted(T, k) => isTrusted(disk.trusted, k)
    PROVE  IInv'
  <1>1. /\ d = [keystore |-> d.keystore, trusted |-> d.trusted, licenses |-> d.licenses,
                audit |-> d.audit, revoked |-> d.revoked, activated |-> d.activated]
        /\ d.keystore = [active |-> made + 1, keys |-> T] /\ d.trusted = T
        /\ d.licenses = disk.licenses /\ d.revoked = disk.revoked
        /\ d.audit = disk.audit /\ d.activated = disk.activated /\ d.keystore # None
    BY DEF IInv, Shape, Sentinels
  <1>2. PICK x, z : x = Pushed(action, made + 1) /\ z = disk.audit
    OBVIOUS
  <1>3. /\ disk' = [keystore |-> d.keystore, trusted |-> d.trusted, licenses |-> d.licenses,
                    audit |-> x, revoked |-> d.revoked, activated |-> d.activated]
        /\ \E y \in {x, z} : con' = [loaded |-> con.loaded, ks |-> d.keystore, licenses |-> d.licenses,
                                     audit |-> y, revoked |-> d.revoked]
    BY <1>1, <1>2, PushAndReloadIs
  <1>4. PICK y \in {x, z} :
             con' = [loaded |-> con.loaded, ks |-> d.keystore, licenses |-> d.licenses,
                     audit |-> y, revoked |-> d.revoked]
    BY <1>3
  <1>5. /\ made \in Nat /\ made' \in Nat /\ made <= made' /\ made + 1 \in 1..made'
        /\ DOMAIN disk.licenses \subseteq DOMAIN disk'.licenses /\ disk.revoked \subseteq disk'.revoked
    BY <1>1, <1>3 DEF IInv, KInv
  <1>6. Ledger(x)' /\ Ledger(z)'
    <2>1. Ledger(x)'
      BY <1>2, <1>5, LedgerGrows DEF IInv
    <2>2. Ledger(z)
      BY <1>2 DEF IInv
    <2>3. QED
      BY <1>5, <2>1, <2>2, LedgerStays
  <1>7. KInv' /\ LInv'
    BY <1>1, <1>3, NewKey DEF IInv
  <1>8. Ledger(y)'
    BY <1>4, <1>6
  <1>9. now' \in Clock
    BY DEF IInv, Shape
  <1>10. QED
    BY <1>1, <1>3, <1>4, <1>6, <1>7, <1>8, <1>9, WorkKeeps

LEMMA GenerateKeeps == ASSUME Sentinels, IInv, GenerateKeystore PROVE IInv'
  <1> DEFINE T == [n \in {made + 1} |-> "active"]
             store == [active |-> made + 1, keys |-> T]
  <1>1. /\ Mounted /\ made' = made + 1 /\ cutOff' = cutOff \cup DOMAIN disk.trusted
        /\ UNCHANGED <<client, now, issued, revokedEver>>
        /\ pushAuditAndReload([disk EXCEPT !.keystore = store, !.trusted = T], "KEYGEN", made + 1)
    BY DEF GenerateKeystore, generateKeystore, trustedFromKeystore
  <1>2. made \in Nat
    BY DEF IInv, KInv
  <1>3. /\ DOMAIN T \subseteq 1..(made + 1) /\ isTrusted(T, made + 1)
        /\ \A k \in 1..made : ~isTrusted(T, k)
    BY <1>2 DEF isTrusted
  <1>4. cutOff' \subseteq 1..made /\ \A k \in 1..made : k \in cutOff'
    BY <1>1 DEF IInv, KInv, isTrusted
  <1> HIDE DEF T
  <1>5. QED
    BY <1>1, <1>3, <1>4, KeyKeeps

LEMMA RotateKeeps == ASSUME Sentinels, IInv, NEW retireOld \in BOOLEAN, rotate(retireOld) PROVE IInv'
  <1> DEFINE old == con.ks.keys
             T == [n \in DOMAIN old \cup {made + 1} |->
                      IF n = made + 1 THEN "active" ELSE IF retireOld THEN "retired" ELSE old[n]]
             store == [active |-> made + 1, keys |-> T]
  <1>1. /\ Mounted /\ con.ks # None /\ made' = made + 1
        /\ cutOff' = IF retireOld THEN cutOff \cup DOMAIN old ELSE cutOff
        /\ UNCHANGED <<client, now, issued, revokedEver>>
        /\ pushAuditAndReload([disk EXCEPT !.keystore = store, !.trusted = T], "ROTATE", made + 1)
    BY DEF rotate, rotateKeystore, trustedFromKeystore
  <1>2. made \in Nat /\ old = disk.trusted
    BY <1>1 DEF IInv, KInv, Memory
  <1>3. DOMAIN old \subseteq 1..made /\ made + 1 \notin 1..made /\ cutOff \subseteq 1..made
    BY <1>2 DEF IInv, KInv
  <1>4. DOMAIN T \subseteq 1..(made + 1) /\ isTrusted(T, made + 1)
    BY <1>2, <1>3 DEF isTrusted
  <1>5. \A k \in 1..made : isTrusted(T, k) <=> ~retireOld /\ isTrusted(old, k)
    BY <1>3 DEF isTrusted
  <1>6. \A k \in 1..made : k \notin cutOff <=> isTrusted(old, k)
    BY <1>2 DEF IInv, KInv
  <1>7. \A k \in 1..made : k \notin cutOff' <=> isTrusted(T, k)
    BY <1>1, <1>5, <1>6 DEF isTrusted
  <1>8. cutOff' \subseteq 1..made
    BY <1>1, <1>3
  <1> HIDE DEF T
  <1>9. QED
    BY <1>1, <1>2, <1>4, <1>5, <1>7, <1>8, KeyKeeps

\* A handler that writes a list of licenses and a revocation list, and logs it.
LEMMA LoggedKeeps ==
    ASSUME Sentinels, IInv, Mounted, con.ks # None, NEW d, NEW c, NEW action, NEW about,
           d = [disk EXCEPT !.licenses = d.licenses, !.revoked = d.revoked],
           c = [con EXCEPT !.licenses = d.licenses, !.revoked = d.revoked],
           pushAudit(d, c, action, about),
           client' = client, made' = made, cutOff' = cutOff, now' \in Clock,
           issued \subseteq issued', LInv',
           DOMAIN disk.licenses \subseteq DOMAIN d.licenses, disk.revoked \subseteq d.revoked,
           action \notin {"KEYGEN", "ROTATE"},
           action \in {"SIG_ISSUED", "HWID_BIND", "REVOKE_EVENT"} => about \in DOMAIN d.licenses,
           action = "REVOKE_EVENT" => about \in d.revoked
    PROVE  IInv'
  <1>1. PICK x : x = Pushed(action, about)
    OBVIOUS
  <1>2. /\ d.keystore = disk.keystore /\ d.trusted = disk.trusted /\ d.activated = disk.activated
        /\ d = [keystore |-> d.keystore, trusted |-> d.trusted, licenses |-> d.licenses,
                audit |-> d.audit, revoked |-> d.revoked, activated |-> d.activated]
        /\ c = [loaded |-> c.loaded, ks |-> c.ks, licenses |-> c.licenses,
                audit |-> c.audit, revoked |-> c.revoked]
        /\ c.loaded = con.loaded /\ c.licenses = d.licenses /\ c.revoked = d.revoked
        /\ c.ks = con.ks
    BY DEF IInv, Shape
  <1>3. con.ks = disk.keystore
    BY DEF IInv, Memory
  <1>4. /\ disk' = [keystore |-> d.keystore, trusted |-> d.trusted, licenses |-> d.licenses,
                    audit |-> x, revoked |-> d.revoked, activated |-> disk.activated]
        /\ con' = [loaded |-> con.loaded, ks |-> d.keystore, licenses |-> d.licenses,
                   audit |-> x, revoked |-> d.revoked]
    BY <1>1, <1>2, <1>3, PushAuditIs
  <1>5. KInv'
    BY <1>2, <1>3, <1>4 DEF IInv, KInv
  <1>6. /\ made \in Nat /\ made' \in Nat /\ made <= made'
        /\ DOMAIN disk.licenses \subseteq DOMAIN disk'.licenses /\ disk.revoked \subseteq disk'.revoked
        /\ disk'.licenses = d.licenses /\ disk'.revoked = d.revoked
    BY <1>4 DEF IInv, KInv
  <1>7. Ledger(x)'
    BY <1>1, <1>6, LedgerGrows DEF IInv
  <1>8. QED
    BY <1>2, <1>3, <1>4, <1>5, <1>7, WorkKeeps

\* What pushAudit writes of the lists.
LEMMA PushedLists ==
    ASSUME Shape, NEW d, NEW c, NEW action, NEW about, pushAudit(d, c, action, about),
           d = [disk EXCEPT !.licenses = d.licenses, !.revoked = d.revoked]
    PROVE  /\ disk'.trusted = disk.trusted
           /\ disk'.licenses = d.licenses /\ disk'.revoked = d.revoked
  BY DEF Shape, pushAudit

\* What the keystore signs is genuine.
LEMMA SignedIs ==
    ASSUME IInv, con.ks # None, NEW p, Issuable(p), p = [f \in DOMAIN ReadAs |-> p[f]],
           p.key = con.ks.active, p.id \in Ids, p.not_before \in Int, p.expires_at \in Int,
           NEW env, env = issueLicense(con.ks, p)
    PROVE  Genuine(env) /\ env.doc = p
  <1>1. /\ env = [doc |-> p, spelled |-> "canonical", pk |-> con.ks.active,
                  sig |-> [by |-> con.ks.active, over |-> canonicalJson(p)]]
        /\ env.doc = p /\ env.pk = con.ks.active
        /\ env.sig = [by |-> con.ks.active, over |-> canonicalJson(p)]
        /\ env.spelled = "canonical"
    BY DEF issueLicense, envelopeEncode, payloadToCanonical, canonicalJson, signCanonical
  <1>2. con.ks.active \in 1..made
    BY DEF IInv, KInv, Memory, isTrusted
  <1>3. QED
    BY <1>1, <1>2 DEF Genuine, Envelope, Issuable

\* One more envelope, and the record of its license.
LEMMA OneMore ==
    ASSUME IInv, NEW id, NEW env, Genuine(env), env.doc.id = id, NEW l, Record(l, id)',
           l.revoked <=> id \in disk.revoked,
           issued' = issued \cup {env}, UNCHANGED <<made, revokedEver>>,
           disk'.trusted = disk.trusted, disk'.revoked = disk.revoked,
           disk'.licenses = [n \in DOMAIN disk.licenses \cup {id} |->
                                IF n = id THEN l ELSE disk.licenses[n]]
    PROVE  LInv'
  <1> DEFINE list == disk.licenses
  <1>1. DOMAIN disk'.licenses = DOMAIN list \cup {id}
    OBVIOUS
  <1>2. \A n \in DOMAIN list \cup {id} : disk'.licenses[n] = IF n = id THEN l ELSE list[n]
    OBVIOUS
  <1>3. \A e \in issued' : Genuine(e)'
    BY DEF IInv, LInv, Genuine
  <1>4. \A n \in DOMAIN disk'.licenses : Record(disk.licenses[n], n)'
    <2> TAKE n \in DOMAIN disk'.licenses
    <2>1. CASE n = id
      BY <1>1, <1>2, <2>1 DEF Record
    <2>2. CASE n # id
      <3>1. Record(list[n], n) /\ disk'.licenses[n] = list[n]
        BY <1>1, <1>2, <2>2 DEF IInv, LInv
      <3>2. QED
        BY <3>1 DEF Record
    <2>3. QED
      BY <2>1, <2>2
  <1>5. disk'.revoked = {n \in DOMAIN disk'.licenses : disk'.licenses[n].revoked}
    <2>1. \A n : n \in disk.revoked <=> n \in DOMAIN list /\ list[n].revoked
      BY DEF IInv, LInv
    <2>2. \A n \in DOMAIN disk'.licenses : disk'.licenses[n].revoked <=> n \in disk.revoked
      BY <1>1, <1>2, <2>1
    <2>3. \A n \in disk.revoked : n \in DOMAIN disk'.licenses
      BY <1>1, <2>1
    <2>4. QED
      BY <2>2, <2>3
  <1>6. \A e \in issued' : isTrusted(disk'.trusted, e.pk) => e.doc.id \in DOMAIN disk'.licenses
    BY <1>1 DEF IInv, LInv
  <1>7. \A n \in revokedEver' : \E e \in issued' : e.doc.id = n
    BY DEF IInv, LInv
  <1>8. disk'.licenses = [n \in DOMAIN disk'.licenses |-> disk'.licenses[n]]
    OBVIOUS
  <1>9. QED
    BY <1>3, <1>4, <1>5, <1>6, <1>7, <1>8 DEF LInv

LEMMA SubmitKeeps == ASSUME Sentinels, IInv, submit PROVE IInv'
  <1>1. PICK id \in Ids \ {e.doc.id : e \in issued}, days \in Days \ {0}, bound \in Forms :
          LET p   == buildPayload(now, days, con.ks, id, bound)
              env == issueLicense(con.ks, p)
              summary == [env |-> env, expires_at |-> p.expires_at, bound |-> p.bound, revoked |-> FALSE]
          IN  /\ Issuable(p)
              /\ setLicenses([n \in DOMAIN con.licenses \cup {id} |->
                                 IF n = id THEN summary ELSE con.licenses[n]], "SIG_ISSUED", id)
              /\ issued' = issued \cup {env}
    BY DEF submit
  <1>2. /\ Mounted /\ con.ks # None
        /\ UNCHANGED <<client, now, made, cutOff, revokedEver>>
    BY DEF submit
  <1>3. PICK p : p = buildPayload(now, days, con.ks, id, bound)
    OBVIOUS
  <1>4. PICK env : env = issueLicense(con.ks, p)
    OBVIOUS
  <1> DEFINE l    == [env |-> env, expires_at |-> p.expires_at, bound |-> p.bound, revoked |-> FALSE]
             list == [n \in DOMAIN disk.licenses \cup {id} |->
                         IF n = id THEN l ELSE disk.licenses[n]]
             d    == [disk EXCEPT !.licenses = list]
             c    == [con EXCEPT !.licenses = list]
  <1>5. con.licenses = disk.licenses /\ con.revoked = disk.revoked
    BY <1>2 DEF IInv, Memory
  <1>6. Issuable(p) /\ pushAudit(d, c, "SIG_ISSUED", id) /\ issued' = issued \cup {env}
    BY <1>1, <1>3, <1>4, <1>5 DEF setLicenses
  <1>7. /\ p.id = id /\ p.key = con.ks.active /\ p.not_before = now /\ p.expires_at = now + days
        /\ p = [f \in DOMAIN ReadAs |-> p[f]]
    BY <1>3 DEF buildPayload, ReadAs
  <1>8. p.not_before \in Int /\ p.expires_at \in Int
    BY <1>7, ConsoleAssumption DEF IInv, Shape
  <1>9. Genuine(env) /\ env.doc = p
    BY <1>2, <1>4, <1>6, <1>7, <1>8, SignedIs
  <1>10. id \notin revokedEver /\ id \notin DOMAIN disk.licenses
    <2>1. \A e \in issued : e.doc.id # id
      OBVIOUS
    <2>2. \A n \in revokedEver : \E e \in issued : e.doc.id = n
      BY DEF IInv, LInv
    <2>3. \A n \in DOMAIN disk.licenses : \E e \in issued : e.doc.id = n
      BY DEF IInv, LInv, Record
    <2>4. QED
      BY <2>1, <2>2, <2>3
  <1>11. id \notin disk.revoked
    BY <1>10 DEF IInv, LInv
  <1>12. Record(l, id)'
    <2>1. l.env = env /\ l.expires_at = p.expires_at /\ l.bound = p.bound /\ l.revoked = FALSE
      OBVIOUS
    <2>2. QED
      BY <1>2, <1>6, <1>7, <1>8, <1>9, <1>10, <2>1 DEF Record
  <1>13. /\ d = [disk EXCEPT !.licenses = d.licenses, !.revoked = d.revoked]
         /\ c = [con EXCEPT !.licenses = d.licenses, !.revoked = d.revoked]
         /\ d.licenses = list /\ d.revoked = disk.revoked
    BY <1>5 DEF IInv, Shape
  <1>14. ~l.revoked
    OBVIOUS
  <1> HIDE DEF l, d, c
  <1>15. /\ disk'.trusted = disk.trusted /\ disk'.licenses = list /\ disk'.revoked = disk.revoked
    BY <1>6, <1>13, PushedLists DEF IInv
  <1>16. LInv'
    BY <1>2, <1>6, <1>7, <1>9, <1>11, <1>12, <1>14, <1>15, OneMore
  <1>17. DOMAIN disk.licenses \subseteq DOMAIN list /\ id \in DOMAIN list
    OBVIOUS
  <1>18. now' \in Clock /\ issued \subseteq issued'
    BY <1>2, <1>6 DEF IInv, Shape
  <1> HIDE DEF list
  <1>19. QED
    <2>1. Mounted /\ con.ks # None
      BY <1>2
    <2>2. client' = client /\ made' = made /\ cutOff' = cutOff
      BY <1>2
    <2>3. "SIG_ISSUED" \notin {"KEYGEN", "ROTATE"}
      OBVIOUS
    <2>4. "SIG_ISSUED" \in {"SIG_ISSUED", "HWID_BIND", "REVOKE_EVENT"} => id \in DOMAIN d.licenses
      BY <1>13, <1>17
    <2>5. "SIG_ISSUED" = "REVOKE_EVENT" => id \in d.revoked
      OBVIOUS
    <2>6. DOMAIN disk.licenses \subseteq DOMAIN d.licenses /\ disk.revoked \subseteq d.revoked
      BY <1>13, <1>17
    <2>7. QED
      BY <1>6, <1>13, <1>16, <1>18, <2>1, <2>2, <2>3, <2>4, <2>5, <2>6, LoggedKeeps

LEMMA RevokeKeeps == ASSUME Sentinels, IInv, NEW id \in Ids, revoke(id) PROVE IInv'
  <1> DEFINE list == [disk.licenses EXCEPT ![id].revoked = TRUE]
             ids  == disk.revoked \cup {id}
             d    == [disk EXCEPT !.licenses = list, !.revoked = ids]
             c    == [con EXCEPT !.licenses = list, !.revoked = ids]
  <1>1. /\ Mounted /\ con.ks # None /\ id \in DOMAIN con.licenses
        /\ pushAudit([disk EXCEPT !.licenses = [con.licenses EXCEPT ![id].revoked = TRUE],
                                  !.revoked = con.revoked \cup {id}],
                     [con EXCEPT !.licenses = [con.licenses EXCEPT ![id].revoked = TRUE],
                                 !.revoked = con.revoked \cup {id}], "REVOKE_EVENT", id)
        /\ revokedEver' = revokedEver \cup {id}
        /\ UNCHANGED <<client, now, made, issued, cutOff>>
    BY DEF revoke
  <1>2. con.licenses = disk.licenses /\ con.revoked = disk.revoked
    BY <1>1 DEF IInv, Memory
  <1>3. pushAudit(d, c, "REVOKE_EVENT", id)
    BY <1>1, <1>2
  <1>4. /\ d = [disk EXCEPT !.licenses = d.licenses, !.revoked = d.revoked]
        /\ c = [con EXCEPT !.licenses = d.licenses, !.revoked = d.revoked]
        /\ d.licenses = list /\ d.revoked = ids
    BY DEF IInv, Shape
  <1> HIDE DEF d, c
  <1>5. disk'.trusted = disk.trusted /\ disk'.licenses = list /\ disk'.revoked = ids
    BY <1>3, <1>4, PushedLists DEF IInv
  <1>6. id \in DOMAIN disk.licenses
    BY <1>1, <1>2
  <1> DEFINE old == disk.licenses
  <1>7. PICK yes : yes = TRUE
    OBVIOUS
  <1>8. list = [old EXCEPT ![id].revoked = yes]
    BY <1>7, Zenon
  <1>9. PICK l : l = [old[id] EXCEPT !.revoked = yes]
    OBVIOUS
  <1>10. old = [n \in DOMAIN old |-> old[n]] /\ Record(old[id], id)
    BY <1>6 DEF IInv, LInv
  <1>11. /\ DOMAIN list = DOMAIN disk.licenses /\ list[id] = l
        /\ \A n \in DOMAIN disk.licenses : n # id => list[n] = disk.licenses[n]
    BY <1>6, <1>8, <1>9, <1>10
  <1>12. list = [n \in DOMAIN list |-> list[n]]
    BY <1>8, <1>10
  <1> HIDE DEF list
  <1>13. Record(l, id)' /\ l.revoked
    <2>1. PICK e, t, b, r : /\ e = old[id].env /\ t = old[id].expires_at
                           /\ b = old[id].bound /\ r = old[id].revoked
      OBVIOUS
    <2>2. old[id] = [env |-> e, expires_at |-> t, bound |-> b, revoked |-> r]
      BY <1>10, <2>1, Zenon DEF Record
    <2>3. [[env |-> e, expires_at |-> t, bound |-> b, revoked |-> r] EXCEPT !.revoked = yes]
             = [env |-> e, expires_at |-> t, bound |-> b, revoked |-> yes]
      OBVIOUS
    <2>4. l = [env |-> e, expires_at |-> t, bound |-> b, revoked |-> yes]
      BY <1>9, <2>2, <2>3, Zenon
    <2>5. l.env = e /\ l.expires_at = t /\ l.bound = b /\ l.revoked = yes
      BY <2>4
    <2>6. /\ e \in issued' /\ e.doc.id = id /\ e.doc.bound = b
          /\ t \in Int /\ e.doc.expires_at \in {t, t - 1}
      BY <1>1, <1>10, <2>1 DEF Record
    <2>7. id \in revokedEver'
      BY <1>1
    <2>8. l = [env |-> l.env, expires_at |-> l.expires_at, bound |-> l.bound, revoked |-> l.revoked]
      BY <2>4, <2>5
    <2>9. l.revoked
      BY <1>7, <2>5, Zenon
    <2>10. l.revoked \in BOOLEAN
      BY <1>7, <2>5, Zenon
    <2>11. QED
      BY <2>5, <2>6, <2>7, <2>8, <2>9, <2>10, Zenon DEF Record
  <1>14. LInv'
    <2>1. \A e \in issued' : Genuine(e)'
      BY <1>1 DEF IInv, LInv, Genuine
    <2>2. \A n \in DOMAIN disk'.licenses : Record(disk.licenses[n], n)'
      <3> TAKE n \in DOMAIN disk'.licenses
      <3>1. CASE n = id
        BY <1>5, <1>11, <1>13, <3>1 DEF Record
      <3>2. CASE n # id
        <4>1. Record(disk.licenses[n], n) /\ disk'.licenses[n] = disk.licenses[n]
          BY <1>5, <1>11, <3>2 DEF IInv, LInv
        <4>2. QED
          BY <1>1, <3>2, <4>1 DEF Record
      <3>3. QED
        BY <3>1, <3>2
    <2>3. disk'.revoked = {n \in DOMAIN disk'.licenses : disk'.licenses[n].revoked}
      <3>1. \A n : n \in disk.revoked <=> n \in DOMAIN disk.licenses /\ disk.licenses[n].revoked
        BY DEF IInv, LInv
      <3>2. \A n \in DOMAIN list : list[n].revoked <=> n \in ids
        BY <1>11, <1>13, <3>1
      <3>3. \A n \in ids : n \in DOMAIN list
        BY <1>6, <1>11, <3>1
      <3> HIDE DEF ids
      <3>4. QED
        BY <1>5, <3>2, <3>3
    <2>4. \A e \in issued' : isTrusted(disk'.trusted, e.pk) => e.doc.id \in DOMAIN disk'.licenses
      BY <1>1, <1>5, <1>11 DEF IInv, LInv
    <2>5. \A n \in revokedEver' : \E e \in issued' : e.doc.id = n
      <3>1. \E e \in issued : e.doc.id = id
        BY <1>6 DEF IInv, LInv, Record
      <3>2. \A n \in revokedEver : \E e \in issued : e.doc.id = n
        BY DEF IInv, LInv
      <3>3. QED
        BY <1>1, <3>1, <3>2
    <2>6. disk'.licenses = [n \in DOMAIN disk'.licenses |-> disk'.licenses[n]]
      <3>1. disk'.licenses = list
        BY <1>5
      <3>2. QED
        BY <1>12, <3>1, Zenon
    <2>7. QED
      BY <2>1, <2>2, <2>3, <2>4, <2>5, <2>6 DEF LInv
  <1>15. now' \in Clock /\ issued \subseteq issued'
    BY <1>1 DEF IInv, Shape
  <1>16. QED
    <2>1. Mounted /\ con.ks # None
      BY <1>1
    <2>2. client' = client /\ made' = made /\ cutOff' = cutOff
      BY <1>1
    <2>3. "REVOKE_EVENT" \notin {"KEYGEN", "ROTATE"}
      OBVIOUS
    <2>4. "REVOKE_EVENT" \in {"SIG_ISSUED", "HWID_BIND", "REVOKE_EVENT"} => id \in DOMAIN d.licenses
      BY <1>4, <1>6, <1>11
    <2>5. "REVOKE_EVENT" = "REVOKE_EVENT" => id \in d.revoked
      BY <1>4
    <2>6. DOMAIN disk.licenses \subseteq DOMAIN d.licenses /\ disk.revoked \subseteq d.revoked
      BY <1>4, <1>6, <1>11
    <2>7. QED
      BY <1>3, <1>4, <1>14, <1>15, <2>1, <2>2, <2>3, <2>4, <2>5, <2>6, LoggedKeeps

LEMMA BindKeeps ==
    ASSUME Sentinels, IInv, NEW id \in Ids, NEW typed \in DOMAIN Typed, bindHwid(id, typed)
    PROVE  IInv'
  <1> DEFINE old == disk.licenses[id]
  <1>1. /\ Mounted /\ con.ks # None /\ id \in DOMAIN con.licenses /\ now' \in Clock \cap {now, now + 1}
        /\ UNCHANGED <<client, made, cutOff, revokedEver>>
    BY DEF bindHwid
  <1>2. con.licenses = disk.licenses /\ con.revoked = disk.revoked
    BY <1>1 DEF IInv, Memory
  <1>3. PICK p : p = [buildPayload(now, old.expires_at - now', con.ks, id, {typed})
                         EXCEPT !.bound = @ \cup old.bound]
    OBVIOUS
  <1>4. PICK env : env = issueLicense(con.ks, p)
    OBVIOUS
  <1>5. /\ Issuable(p) /\ issued' = issued \cup {env}
        /\ pushAudit([disk EXCEPT !.licenses = [disk.licenses EXCEPT ![id].env = env, ![id].bound = p.bound]],
                     [con EXCEPT !.licenses = [disk.licenses EXCEPT ![id].env = env, ![id].bound = p.bound]],
                     "HWID_BIND", id)
    BY <1>2, <1>3, <1>4 DEF bindHwid, setLicenses
  <1>6. id \in DOMAIN disk.licenses /\ Record(old, id)
    BY <1>1, <1>2 DEF IInv, LInv
  <1>7. /\ p.id = id /\ p.key = con.ks.active /\ p.not_before = now
        /\ p.expires_at = now + (old.expires_at - now')
        /\ p = [f \in DOMAIN ReadAs |-> p[f]]
    BY <1>3 DEF buildPayload, ReadAs
  <1>8. /\ p.not_before \in Int /\ p.expires_at \in Int
        /\ p.expires_at \in {old.expires_at, old.expires_at - 1}
    <2>1. now \in Int /\ now' \in {now, now + 1} /\ old.expires_at \in Int
      BY <1>1, <1>6, ConsoleAssumption DEF IInv, Shape, Record
    <2>2. QED
      BY <1>7, <2>1
  <1>9. Genuine(env) /\ env.doc = p
    BY <1>1, <1>4, <1>5, <1>7, <1>8, SignedIs
  <1>10. PICK l : l = [env |-> env, expires_at |-> old.expires_at, bound |-> p.bound, revoked |-> old.revoked]
    OBVIOUS
  <1>11. Record(l, id)'
    BY <1>1, <1>5, <1>6, <1>7, <1>8, <1>9, <1>10 DEF Record
  <1>12. l.revoked <=> id \in disk.revoked
    BY <1>6, <1>10 DEF IInv, LInv
  <1> DEFINE list == [n \in DOMAIN disk.licenses \cup {id} |->
                         IF n = id THEN l ELSE disk.licenses[n]]
             d    == [disk EXCEPT !.licenses = list]
             c    == [con EXCEPT !.licenses = list]
  <1>13. [disk.licenses EXCEPT ![id].env = env, ![id].bound = p.bound] = list
    <2>1. disk.licenses = [n \in DOMAIN disk.licenses |-> disk.licenses[n]]
      BY DEF IInv, LInv
    <2>2. l = [[old EXCEPT !.env = env] EXCEPT !.bound = p.bound]
      <3>1. PICK o, r : o = old /\ r = old.revoked
        OBVIOUS
      <3>2. PICK e, t, b : e = o.env /\ t = o.expires_at /\ b = o.bound
        OBVIOUS
      <3>3. /\ o = [env |-> e, expires_at |-> t, bound |-> b, revoked |-> r]
            /\ l = [env |-> env, expires_at |-> t, bound |-> p.bound, revoked |-> r]
        BY <1>6, <1>10, <3>1, <3>2 DEF Record
      <3>4. l = [[o EXCEPT !.env = env] EXCEPT !.bound = p.bound]
        <4>1. PICK q : q = p.bound
          OBVIOUS
        <4>2. [[env |-> e, expires_at |-> t, bound |-> b, revoked |-> r] EXCEPT !.env = env]
                 = [env |-> env, expires_at |-> t, bound |-> b, revoked |-> r]
          OBVIOUS
        <4>3. [[env |-> env, expires_at |-> t, bound |-> b, revoked |-> r] EXCEPT !.bound = q]
                 = [env |-> env, expires_at |-> t, bound |-> q, revoked |-> r]
          OBVIOUS
        <4>4. QED
          BY <3>3, <4>1, <4>2, <4>3, Zenon
      <3>5. QED
        BY <3>1, <3>4
    <2>3. QED
      BY <1>6, <2>1, <2>2
  <1>14. pushAudit(d, c, "HWID_BIND", id)
    BY <1>5, <1>13
  <1>15. /\ d = [disk EXCEPT !.licenses = d.licenses, !.revoked = d.revoked]
         /\ c = [con EXCEPT !.licenses = d.licenses, !.revoked = d.revoked]
         /\ d.licenses = list /\ d.revoked = disk.revoked
    BY <1>2 DEF IInv, Shape
  <1> HIDE DEF d, c
  <1>16. disk'.trusted = disk.trusted /\ disk'.licenses = list /\ disk'.revoked = disk.revoked
    BY <1>14, <1>15, PushedLists DEF IInv
  <1>17. LInv'
    BY <1>1, <1>5, <1>7, <1>9, <1>11, <1>12, <1>16, OneMore
  <1>18. DOMAIN disk.licenses \subseteq DOMAIN list /\ id \in DOMAIN list
    OBVIOUS
  <1>19. now' \in Clock /\ issued \subseteq issued'
    BY <1>1, <1>5
  <1> HIDE DEF list
  <1>20. QED
    <2>1. Mounted /\ con.ks # None
      BY <1>1
    <2>2. client' = client /\ made' = made /\ cutOff' = cutOff
      BY <1>1
    <2>3. "HWID_BIND" \notin {"KEYGEN", "ROTATE"}
      OBVIOUS
    <2>4. "HWID_BIND" \in {"SIG_ISSUED", "HWID_BIND", "REVOKE_EVENT"} => id \in DOMAIN d.licenses
      BY <1>15, <1>18
    <2>5. "HWID_BIND" = "REVOKE_EVENT" => id \in d.revoked
      OBVIOUS
    <2>6. DOMAIN disk.licenses \subseteq DOMAIN d.licenses /\ disk.revoked \subseteq d.revoked
      BY <1>15, <1>18
    <2>7. QED
      BY <1>14, <1>15, <1>17, <1>19, <2>1, <2>2, <2>3, <2>4, <2>5, <2>6, LoggedKeeps

LEMMA KeySectionKeeps == ASSUME Sentinels, IInv, KeySection PROVE IInv'
  <1>1. /\ Mounted /\ con.ks # None /\ UNCHANGED <<client, now, history>>
        /\ \E d \in {disk, [disk EXCEPT !.trusted = trustedFromKeystore(con.ks)]} :
              pushAudit(d, con, "EXPORT", con.ks.active)
    BY DEF KeySection
  <1>2. [disk EXCEPT !.trusted = trustedFromKeystore(con.ks)] = disk
    BY <1>1 DEF IInv, Shape, Memory, KInv, trustedFromKeystore
  <1>3. pushAudit(disk, con, "EXPORT", con.ks.active)
    BY <1>1, <1>2
  <1>4. /\ disk = [disk EXCEPT !.licenses = disk.licenses, !.revoked = disk.revoked]
        /\ con = [con EXCEPT !.licenses = disk.licenses, !.revoked = disk.revoked]
    BY <1>1 DEF IInv, Shape, Memory
  <1>5. disk'.trusted = disk.trusted /\ disk'.licenses = disk.licenses /\ disk'.revoked = disk.revoked
    BY <1>3, <1>4, PushedLists DEF IInv
  <1>6. LInv'
    <2>1. issued' = issued /\ made' = made /\ revokedEver' = revokedEver
      BY <1>1 DEF history
    <2>2. QED
      BY <1>5, <2>1 DEF IInv, LInv, Genuine, Record
  <1>7. now' \in Clock /\ issued \subseteq issued' /\ UNCHANGED <<made, cutOff>>
    BY <1>1 DEF IInv, Shape, history
  <1>8. QED
    <2>1. Mounted
      BY <1>1
    <2>2. con.ks # None
      BY <1>1
    <2>3. client' = client /\ made' = made /\ cutOff' = cutOff
      BY <1>1, <1>7
    <2>4. "EXPORT" \notin {"KEYGEN", "ROTATE"}
      OBVIOUS
    <2>5. "EXPORT" \in {"SIG_ISSUED", "HWID_BIND", "REVOKE_EVENT"} => con.ks.active \in DOMAIN disk.licenses
      OBVIOUS
    <2>6. "EXPORT" = "REVOKE_EVENT" => con.ks.active \in disk.revoked
      OBVIOUS
    <2>7. DOMAIN disk.licenses \subseteq DOMAIN disk.licenses /\ disk.revoked \subseteq disk.revoked
      OBVIOUS
    <2>8. QED
      BY <1>3, <1>4, <1>6, <1>7, <2>1, <2>2, <2>3, <2>4, <2>5, <2>6, <2>7, LoggedKeeps
-----------------------------------------------------------------------------
(* The invariant, and what follows from it. *)

LEMMA Initial == ASSUME Init PROVE IInv
  <1>1. Shape /\ Memory /\ GInv
    BY ConsoleAssumption DEF Init, Shape, Memory, GInv, EmptyDisk, Unloaded, StartOfPage
  <1>2. /\ disk.keystore = None /\ disk.trusted = NoMap /\ disk.licenses = NoMap /\ disk.revoked = {}
        /\ disk.audit = <<>> /\ con.audit = <<>>
        /\ made = 0 /\ issued = {} /\ cutOff = {} /\ revokedEver = {}
    BY DEF Init, EmptyDisk, Unloaded
  <1>3. DOMAIN NoMap = {} /\ NoMap = [id \in DOMAIN NoMap |-> NoMap[id]] /\ 1..0 = {}
    BY DEF NoMap
  <1>4. KInv
    BY <1>2, <1>3 DEF KInv
  <1>5. LInv
    BY <1>2, <1>3 DEF LInv
  <1>6. QED
    BY <1>1, <1>2, <1>4, <1>5, EmptyLedger DEF IInv

LEMMA Inductive == ASSUME Sentinels, IInv, [Next]_vars PROVE IInv'
  <1>1. CASE Work
    <2>1. CASE \E id \in Ids : revoke(id) \/ \E typed \in DOMAIN Typed : bindHwid(id, typed)
      BY <2>1, RevokeKeeps, BindKeeps
    <2>2. CASE \E retireOld \in BOOLEAN : rotate(retireOld)
      BY <2>2, RotateKeeps
    <2>3. CASE GenerateKeystore \/ submit \/ KeySection
      BY <2>3, GenerateKeeps, SubmitKeeps, KeySectionKeeps
    <2>4. QED
      BY <1>1, <2>1, <2>2, <2>3 DEF Work
  <1>2. CASE Rest
    <2>1. CASE (\E v \in {"client", "manager"} : setView(v)) \/ setManagerUnlocked \/ Load
                  \/ ReloadPage \/ TimePasses
      BY <2>1, ShellKeeps
    <2>2. CASE (\E env \in issued \cup {Garbage} : runVerify(env))
                  \/ (\E env \in client.pending : verifyAndActivate(env)) \/ boot \/ deactivate
      BY <2>2, GateKeeps
    <2>3. CASE demoTampered \/ demoExpired
      BY <2>3, DemoKeeps
    <2>4. CASE resetAll
      BY <2>4, ResetKeeps
    <2>5. QED
      BY <1>2, <2>1, <2>2, <2>3, <2>4 DEF Rest
  <1>3. CASE UNCHANGED vars
    <2>1. UNCHANGED Lists /\ Shape' /\ GInv' /\ con' = con /\ Mounted' = Mounted
      BY <1>3 DEF vars, history, Lists, IInv, Shape, GInv, Given, Mounted
    <2>2. QED
      BY <2>1, QuietKeeps
  <1>4. QED
    BY <1>1, <1>2, <1>3, NextSplits

\* The strengthening of the properties below is an invariant.
THEOREM Invariant == ASSUME Sentinels PROVE Spec => []IInv
  <1>1. Init => IInv
    BY Initial
  <1>2. IInv /\ [Next]_vars => IInv'
    BY Inductive
  <1>3. QED
    BY <1>1, <1>2, PTL DEF Spec

\* A console that shows a keystore has in memory what is on the disk, so a handler that
\* writes a whole list back loses nobody's update.
THEOREM MemoryMatchesDisk == ASSUME Sentinels PROVE Spec => []MemoryIsDisk
  <1>1. IInv => MemoryIsDisk
    BY DEF IInv, Memory, KInv, MemoryIsDisk
  <1>2. QED
    BY <1>1, Invariant, PTL

\* Nothing that the ledger on the disk says was done was not done, and no chain breaks.
THEOREM LedgerIsTrue == ASSUME Sentinels PROVE Spec => []LedgerNeverLies
  <1>1. IInv => LedgerNeverLies
    BY DEF IInv, Ledger, True, LedgerNeverLies, chainBroken
  <1>2. QED
    BY <1>1, Invariant, PTL

\* The console's list tells the truth about every license handed out.
THEOREM ListIsTrue == ASSUME Sentinels PROVE Spec => []RecordsAreTrue
  <1>1. ASSUME IInv PROVE RecordsAreTrue
    <2>1. \A id \in DOMAIN disk.licenses :
             LET l == disk.licenses[id]
             IN  /\ l.env \in issued /\ l.env.doc.id = id /\ l.env.doc.bound = l.bound
                 /\ l.env.doc.expires_at \in {l.expires_at, l.expires_at - 1}
      BY <1>1 DEF IInv, LInv, Record
    <2>2. disk.revoked = {id \in DOMAIN disk.licenses : disk.licenses[id].revoked}
      BY <1>1 DEF IInv, LInv
    <2>3. ASSUME NEW id \in DOMAIN con.licenses, NEW hwid \in Hwids,
                 verifyLicense(con.licenses[id].env, disk.trusted, now, hwid, disk.revoked) = "ok"
          PROVE  LET l == con.licenses[id]
                 IN  /\ Status(l) = "active" \/ (Status(l) = "expired" /\ now <= l.expires_at + Skew)
                     /\ l.bound = {} \/ <<id, hwid>> \in Nodes(con.licenses)
      <3>1. con.licenses = disk.licenses
        <4>1. con.licenses # NoMap
          BY <2>3 DEF NoMap
        <4>2. QED
          BY <1>1, <4>1 DEF IInv, Memory
      <3>2. PICK l : l = con.licenses[id]
        OBVIOUS
      <3>3. Record(l, id) /\ Genuine(l.env)
        BY <1>1, <3>1, <3>2 DEF IInv, LInv, Record
      <3>4. PICK p : p = l.env.doc
        OBVIOUS
      <3>5. p = parsePayloadJson([doc |-> l.env.doc, spelled |-> l.env.spelled])
        BY <3>3, <3>4, ParsedGenuine
      <3>6. l.env # Garbage
        BY <3>3 DEF Genuine, Envelope, Sentinels
      <3>7. ~Expired(p, now) /\ (p.bound = {} \/ hwid \in p.bound) /\ p.id \notin disk.revoked
        <4>1. PICK e : e = l.env
          OBVIOUS
        <4>2. verifyLicense(e, disk.trusted, now, hwid, disk.revoked) = "ok" <=>
                 /\ validateSchema(p) = "ok"
                 /\ e.pk = p.key /\ isTrusted(disk.trusted, p.key)
                 /\ e.sig = [by |-> e.pk, over |-> canonicalJson(e.doc)]
                 /\ ~TooEarly(p, now) /\ ~Expired(p, now)
                 /\ p.bound = {} \/ hwid \in p.bound
                 /\ p.id \notin disk.revoked
          BY <3>5, <3>6, <4>1, VerdictOk
        <4>3. QED
          BY <2>3, <3>2, <4>1, <4>2
      <3>8. ~l.revoked /\ l.bound = p.bound
        BY <2>2, <3>1, <3>2, <3>3, <3>4, <3>7 DEF Record
      <3>9. now <= l.expires_at + Skew
        <4>1. /\ p.expires_at \in Int /\ l.expires_at \in Int /\ now \in Int /\ Skew \in Int
              /\ p.expires_at \in {l.expires_at, l.expires_at - 1}
          BY <1>1, <3>3, <3>4, PreviewAssumption, ConsoleAssumption DEF Genuine, Record, IInv, Shape
        <4>2. now <= p.expires_at + Skew
          BY <3>7, <4>1, PreviewAssumption DEF Expired
        <4>3. QED
          BY <4>1, <4>2
      <3>10. Status(l) \in {"active", "expired"}
        BY <3>8 DEF Status
      <3>11. l.bound = {} \/ <<id, hwid>> \in Nodes(con.licenses)
        BY <3>2, <3>7, <3>8 DEF Nodes
      <3>12. QED
        BY <3>2, <3>9, <3>10, <3>11
    <2>4. QED
      BY <2>1, <2>2, <2>3 DEF RecordsAreTrue
  <1>2. QED
    BY <1>1, Invariant, PTL

\* A check activates exactly the licenses that are due, however the operator's work, the
\* clock, reloads and the check interleaved.
THEOREM VerdictsAreDue == ASSUME Sentinels PROVE Spec => VerdictIsDue
  <1>1. ASSUME IInv, NEW e \in issued PROVE e.doc # None
    BY <1>1, IssuedIsThere
  <1>2. ASSUME IInv, NEW env \in client.pending, verifyAndActivate(env)
        PROVE  client'.activated # None <=> Due(env)
    <2>1. Verdict(env) = "ok" <=> Due(env)
      BY <1>2, VerdictIsOfDue DEF IInv, GInv
    <2>2. CASE Verdict(env) = "ok"
      <3>1. client'.activated = env.doc
        BY <1>2, <2>2 DEF verifyAndActivate, Activated, IInv, Shape
      <3>2. env \in issued
        BY <2>1, <2>2 DEF Due
      <3>3. QED
        BY <1>1, <1>2, <2>1, <2>2, <3>1, <3>2
    <2>3. CASE Verdict(env) # "ok"
      <3>1. client'.activated = None
        BY <1>2, <2>3 DEF verifyAndActivate, Activated, IInv, Shape
      <3>2. QED
        BY <2>1, <2>3, <3>1
    <2>4. QED
      BY <2>2, <2>3
  <1>3. ASSUME IInv, boot
        PROVE  client'.activated # None <=> disk.activated # None /\ Due(disk.activated)
    <2>1. CASE disk.activated = None
      BY <1>3, <2>1 DEF boot, IInv, Shape, GInv
    <2>2. CASE disk.activated # None
      <3>1. disk.activated \in issued
        BY <1>3, <2>2 DEF IInv, GInv
      <3>2. Verdict(disk.activated) = "ok" <=> Due(disk.activated)
        BY <1>3, <3>1, VerdictIsOfDue DEF IInv, Given
      <3>3. client'.activated = IF Verdict(disk.activated) = "ok" THEN disk.activated.doc ELSE None
        BY <1>3, <2>2 DEF boot, Activated, IInv, Shape
      <3>4. QED
        BY <1>1, <1>3, <2>2, <3>1, <3>2, <3>3
    <2>3. QED
      BY <2>1, <2>2
  <1>4. IInv => [ /\ \A env \in client.pending :
                        verifyAndActivate(env) => (client'.activated # None <=> Due(env))
                  /\ boot => (client'.activated # None <=> disk.activated # None /\ Due(disk.activated)) ]_vars
    BY <1>2, <1>3
  <1>5. QED
    BY <1>4, Invariant, PTL DEF VerdictIsDue

\* Whatever has become of what the gate was given, its signature is over a canonical text.
LEMMA SignedCanonically ==
    ASSUME IInv, NEW env \in Tampered PROVE env.sig.over.spelled = "canonical"
  <1>1. PICK e \in client.pending \ {Garbage} :
            env \in {e, [e EXCEPT !.spelled = "other"], [e EXCEPT !.doc.id = DemoId],
                     [e EXCEPT !.doc.expires_at = @ + 1],
                     [e EXCEPT !.doc.expires_at = e.doc.not_before]}
                   \cup {[e EXCEPT !.pk = k] : k \in 1..made}
                   \cup {[e EXCEPT !.pk = k, !.doc.key = k] : k \in 1..made}
    BY DEF Tampered
  <1>2. Envelope(e) /\ e.sig.over.spelled = "canonical"
    <2>1. CASE e \in issued
      <3>1. Genuine(e)
        BY <2>1 DEF IInv, LInv
      <3>2. e.sig = [by |-> e.pk, over |-> [doc |-> e.doc, spelled |-> "canonical"]]
        BY <3>1 DEF Genuine, canonicalJson
      <3>3. QED
        BY <3>1, <3>2 DEF Genuine
    <2>2. CASE Forged(e)
      BY <2>2 DEF Forged
    <2>3. QED
      BY <2>1, <2>2 DEF IInv, GInv, Given
  <1>3. env.sig = e.sig
    BY <1>1, <1>2 DEF Envelope
  <1>4. QED
    BY <1>2, <1>3

\* Of whatever the gate is given, and whatever becomes of it, the TypeScript verifier and the
\* Rust core's say the same if it is in the canonical spelling; else the core accepts it not.
THEOREM PreviewMirrorsCore == ASSUME Sentinels PROVE Spec => []MirrorsCore
  <1>1. ASSUME IInv, NEW env \in {e \in Tampered : InCore(e)}
        PROVE  IF env.spelled = "canonical"
               THEN CoreVerdict(env, disk.trusted, now, Device, disk.revoked) = Verdict(env)
               ELSE CoreVerdict(env, disk.trusted, now, Device, disk.revoked)
                        \in {Verdict(env), "E_SIGNATURE"} \ {"ok"}
    <2>1. now \in Int /\ InCore(env) /\ env.sig.over.spelled = "canonical"
      BY <1>1, SignedCanonically, ConsoleAssumption DEF IInv, Shape
    <2>2. CASE env.spelled = "canonical"
      BY <2>1, <2>2, VerifiersAgree DEF Verdict
    <2>3. CASE env.spelled # "canonical"
      BY <2>1, <2>3, RespelledIsRefused DEF Verdict
    <2>4. QED
      BY <2>2, <2>3
  <1>2. IInv => MirrorsCore
    BY <1>1 DEF MirrorsCore
  <1>3. QED
    BY <1>2, Invariant, PTL
-----------------------------------------------------------------------------
(* Type correctness, by what IInv leaves open. *)

Dated(e) == /\ e.doc.issued_at \in Nat /\ e.doc.not_before \in Nat
            /\ e.doc.bound \subseteq Hwids /\ e.spelled = "canonical"

SignedTyped == \A e \in issued : Dated(e)
KeysTyped   == made <= MaxKeys /\ disk.trusted \in [DOMAIN disk.trusted -> {"active", "retired"}]
WholeLedger(entries) == IsLedger(entries) /\ \A i \in DOMAIN entries : IsEntry(entries[i])
Numbered    == WholeLedger(disk.audit) /\ WholeLedger(con.audit)
ShellTyped  ==
    /\ con.loaded \in BOOLEAN /\ client.view \in {"gate", "client", "manager"}
    /\ client.unlocked \in BOOLEAN /\ client.booting \in BOOLEAN
    /\ client.activated # None => \E e \in issued : client.activated = e.doc

TInv == SignedTyped /\ KeysTyped /\ Numbered /\ ShellTyped

\* What the schema says of a document it accepts, but for the dates.
LEMMA SchemaAccepts ==
    ASSUME NEW p, validateSchema(p) = "ok"
    PROVE  /\ p.version = 2 /\ p.product = "VOR" /\ p.tier \in Tiers
           /\ p.entitlements \subseteq Entitlements /\ BadHwid \notin p.bound
  <1> DEFINE codes == <<
        Throw("E_SCHEMA",        p.version # 2),
        Throw("E_MISSING_FIELD", p.id = Missing \/ p.key = Missing),
        Throw("E_PRODUCT",       p.product # "VOR"),
        Throw("E_INVALID_FIELD", Leq(p.expires_at, p.not_before)),
        Throw("E_INVALID_FIELD", Less(p.expires_at, p.issued_at)),
        Throw("E_MISSING_FIELD", p.entitlements = {}),
        Throw("E_ENTITLEMENT",   ~(p.entitlements \subseteq Entitlements)),
        Throw("E_INVALID_FIELD", p.tier \notin Tiers),
        Throw("E_INVALID_FIELD", BadHwid \in p.bound) >>
  <1>1. /\ DOMAIN codes = 1..9
        /\ codes[1] = "ok" => p.version = 2
        /\ codes[3] = "ok" => p.product = "VOR"
        /\ codes[7] = "ok" => p.entitlements \subseteq Entitlements
        /\ codes[8] = "ok" => p.tier \in Tiers
        /\ codes[9] = "ok" => BadHwid \notin p.bound
    BY DEF Throw
  <1>2. FirstError(codes) = "ok"
    BY DEF validateSchema
  <1> HIDE DEF codes
  <1>3. \A i \in 1..9 : codes[i] = "ok"
    BY <1>1, <1>2, NoError
  <1>4. codes[1] = "ok" /\ codes[3] = "ok" /\ codes[7] = "ok" /\ codes[8] = "ok" /\ codes[9] = "ok"
    BY <1>3
  <1>5. QED
    BY <1>1, <1>4

\* A device that is typed is one, or the schema refuses the license.
LEMMA TypedDevices ==
    ASSUME NEW p, Issuable(p), NEW typed \in SUBSET DOMAIN Typed, NEW old \in SUBSET Hwids,
           p.bound = {normalizeHwid(s) : s \in typed} \cup old
    PROVE  p.bound \subseteq Hwids
  <1>1. BadHwid \notin p.bound
    BY SchemaAccepts DEF Issuable
  <1>2. QED
    BY <1>1, PreviewAssumption DEF normalizeHwid

LEMMA DatesOfSigned ==
    ASSUME NEW p, NEW ks, p.issued_at \in Nat, p.not_before \in Nat, p.bound \subseteq Hwids
    PROVE  Dated(issueLicense(ks, p))
  <1>1. issueLicense(ks, p) = [doc |-> p, spelled |-> "canonical", pk |-> ks.active,
                               sig |-> [by |-> ks.active, over |-> canonicalJson(p)]]
    BY DEF issueLicense, envelopeEncode, payloadToCanonical, canonicalJson, signCanonical
  <1>2. issueLicense(ks, p).doc = p /\ issueLicense(ks, p).spelled = "canonical"
    BY <1>1
  <1>3. QED
    BY <1>2 DEF Dated

LEMMA SubmitTyped == ASSUME IInv, SignedTyped, submit PROVE SignedTyped' /\ issued \subseteq issued'
  <1>1. PICK id \in Ids \ {e.doc.id : e \in issued}, days \in Days \ {0}, bound \in Forms :
          LET p == buildPayload(now, days, con.ks, id, bound)
          IN  Issuable(p) /\ issued' = issued \cup {issueLicense(con.ks, p)}
    BY DEF submit
  <1>2. PICK p : p = buildPayload(now, days, con.ks, id, bound)
    OBVIOUS
  <1>3. /\ Issuable(p) /\ issued' = issued \cup {issueLicense(con.ks, p)}
        /\ p.issued_at = now /\ p.not_before = now /\ p.bound = {normalizeHwid(s) : s \in bound} \cup {}
    BY <1>1, <1>2 DEF buildPayload
  <1>4. now \in Nat /\ bound \in SUBSET DOMAIN Typed /\ {} \in SUBSET Hwids
    BY <1>1, ConsoleAssumption DEF IInv, Shape
  <1>5. Dated(issueLicense(con.ks, p))
    BY <1>3, <1>4, TypedDevices, DatesOfSigned
  <1>6. QED
    BY <1>3, <1>5 DEF SignedTyped

LEMMA BindTyped ==
    ASSUME IInv, SignedTyped, NEW id \in Ids, NEW typed \in DOMAIN Typed, bindHwid(id, typed)
    PROVE  SignedTyped' /\ issued \subseteq issued'
  <1> DEFINE old == con.licenses[id]
  <1>1. con.ks # None /\ id \in DOMAIN con.licenses
    BY DEF bindHwid
  <1>2. old.env \in issued /\ old.bound \subseteq Hwids
    <2>1. Record(old, id)
      BY <1>1 DEF IInv, Memory, LInv
    <2>2. QED
      BY <2>1 DEF Record, SignedTyped, Dated
  <1>3. PICK p : p = [buildPayload(now, old.expires_at - now', con.ks, id, {typed})
                         EXCEPT !.bound = @ \cup old.bound]
    OBVIOUS
  <1>4. Issuable(p) /\ issued' = issued \cup {issueLicense(con.ks, p)}
    BY <1>3 DEF bindHwid
  <1>5. /\ p.issued_at = now /\ p.not_before = now
        /\ p.bound = {normalizeHwid(s) : s \in {typed}} \cup old.bound
    BY <1>3 DEF buildPayload
  <1>6. now \in Nat
    BY ConsoleAssumption DEF IInv, Shape
  <1>7. Dated(issueLicense(con.ks, p))
    BY <1>2, <1>4, <1>5, <1>6, TypedDevices, DatesOfSigned
  <1>8. QED
    BY <1>4, <1>7 DEF SignedTyped

\* Only an issue and a re-signing sign a license.
LEMMA SignedTypedKept ==
    ASSUME IInv, SignedTyped, [Next]_vars
    PROVE  SignedTyped' /\ issued \subseteq issued'
  <1>1. CASE submit
    BY <1>1, SubmitTyped
  <1>2. CASE \E id \in Ids : \E typed \in DOMAIN Typed : bindHwid(id, typed)
    BY <1>2, BindTyped
  <1>3. CASE issued' = issued
    BY <1>3 DEF SignedTyped
  <1>4. ASSUME NEW id \in Ids, revoke(id) PROVE issued' = issued
    BY <1>4 DEF revoke
  <1>5. CASE \E r \in BOOLEAN : rotate(r)
    BY <1>3, <1>5 DEF rotate
  <1>6. CASE GenerateKeystore \/ KeySection
    BY <1>3, <1>6 DEF GenerateKeystore, KeySection, history
  <1>7. CASE demoTampered \/ demoExpired
    BY <1>3, <1>7 DEF demoTampered, demoExpired, ensureDemoAuthority
  <1>8. CASE \/ \E v \in {"client", "manager"} : setView(v)
             \/ setManagerUnlocked \/ Load \/ deactivate \/ ReloadPage \/ resetAll \/ TimePasses
    BY <1>3, <1>8 DEF setView, setManagerUnlocked, Load, deactivate, ReloadPage, resetAll, TimePasses, history
  <1>9. CASE \/ \E env \in issued \cup {Garbage} : runVerify(env)
             \/ \E env \in client.pending : verifyAndActivate(env)
             \/ boot
    BY <1>3, <1>9 DEF runVerify, verifyAndActivate, boot, history
  <1>10. CASE UNCHANGED vars
    BY <1>3, <1>10 DEF vars, history
  <1>11. QED
    BY <1>1, <1>2, <1>3, <1>4, <1>5, <1>6, <1>7, <1>8, <1>9, <1>10 DEF Next

\* A handler of the console that makes no key writes the lists and one more entry.
Logged(d, c) == /\ d = [disk EXCEPT !.licenses = d.licenses, !.revoked = d.revoked]
                /\ c = [con EXCEPT !.licenses = c.licenses, !.revoked = c.revoked]
LogsWork == UNCHANGED <<made, client>>
            /\ \E d, c, action, about : pushAudit(d, c, action, about) /\ Logged(d, c)

LEMMA ListsLogged ==
    ASSUME Shape, UNCHANGED <<made, client>>, NEW list, NEW action, NEW about,
           setLicenses(list, action, about)
    PROVE  LogsWork
  <1> DEFINE d == [disk EXCEPT !.licenses = list]
             c == [con EXCEPT !.licenses = list]
  <1>1. pushAudit(d, c, action, about)
    BY DEF setLicenses
  <1>2. Logged(d, c)
    BY DEF Logged, Shape
  <1> HIDE DEF d, c
  <1>3. QED
    BY <1>1, <1>2 DEF LogsWork

LEMMA SubmitLogs == ASSUME IInv, submit PROVE LogsWork
  <1>1. PICK id \in Ids \ {e.doc.id : e \in issued}, days \in Days \ {0}, bound \in Forms :
          LET p   == buildPayload(now, days, con.ks, id, bound)
              env == issueLicense(con.ks, p)
              summary == [env |-> env, expires_at |-> p.expires_at, bound |-> p.bound, revoked |-> FALSE]
          IN  setLicenses([n \in DOMAIN con.licenses \cup {id} |->
                               IF n = id THEN summary ELSE con.licenses[n]], "SIG_ISSUED", id)
    BY DEF submit
  <1>2. UNCHANGED <<made, client>>
    BY DEF submit
  <1>3. QED
    BY <1>1, <1>2, ListsLogged DEF IInv

LEMMA BindLogs ==
    ASSUME IInv, NEW id \in Ids, NEW typed \in DOMAIN Typed, bindHwid(id, typed)
    PROVE  LogsWork
  <1>1. PICK p : p = [buildPayload(now, con.licenses[id].expires_at - now', con.ks, id, {typed})
                         EXCEPT !.bound = @ \cup con.licenses[id].bound]
    OBVIOUS
  <1>2. PICK env : env = issueLicense(con.ks, p)
    OBVIOUS
  <1>3. setLicenses([con.licenses EXCEPT ![id].env = env, ![id].bound = p.bound], "HWID_BIND", id)
    BY <1>1, <1>2 DEF bindHwid
  <1>4. UNCHANGED <<made, client>>
    BY DEF bindHwid
  <1>5. QED
    BY <1>3, <1>4, ListsLogged DEF IInv

LEMMA RevokeLogs == ASSUME IInv, NEW id \in Ids, revoke(id) PROVE LogsWork
  <1> DEFINE list == [con.licenses EXCEPT ![id].revoked = TRUE]
             d == [disk EXCEPT !.licenses = list, !.revoked = con.revoked \cup {id}]
             c == [con EXCEPT !.licenses = list, !.revoked = con.revoked \cup {id}]
  <1>1. pushAudit(d, c, "REVOKE_EVENT", id) /\ UNCHANGED <<made, client>>
    BY DEF revoke
  <1>2. Logged(d, c)
    <2> HIDE DEF list
    <2>1. QED
      BY DEF IInv, Logged, Shape
  <1> HIDE DEF d, c
  <1>3. QED
    BY <1>1, <1>2 DEF LogsWork

LEMMA KeySectionLogs == ASSUME IInv, KeySection PROVE LogsWork
  <1>1. PICK d \in {disk, [disk EXCEPT !.trusted = trustedFromKeystore(con.ks)]} :
           pushAudit(d, con, "EXPORT", con.ks.active)
    BY DEF KeySection
  <1>2. con.ks # None /\ UNCHANGED <<made, client>>
    BY DEF KeySection, history
  <1>3. d = disk
    BY <1>1, <1>2 DEF IInv, Shape, Memory, KInv, trustedFromKeystore
  <1>4. Logged(disk, con)
    BY DEF IInv, Logged, Shape
  <1>5. QED
    BY <1>1, <1>2, <1>3, <1>4 DEF LogsWork

\* A handler that makes a key writes the keystore and one more entry, and reloads.
KeysTo(T) == [disk EXCEPT !.keystore = [active |-> made + 1, keys |-> T], !.trusted = T]
KeyWork ==
    /\ made' = made + 1 /\ made < MaxKeys /\ UNCHANGED client
    /\ \E T, action : /\ T \in [DOMAIN T -> {"active", "retired"}]
                      /\ pushAuditAndReload(KeysTo(T), action, made + 1)

LEMMA GenerateMakesKey == ASSUME GenerateKeystore PROVE KeyWork
  <1> DEFINE T == [n \in {made + 1} |-> "active"]
  <1>1. /\ pushAuditAndReload([disk EXCEPT !.keystore = [active |-> made + 1, keys |-> T], !.trusted = T],
                              "KEYGEN", made + 1)
        /\ made' = made + 1 /\ made < MaxKeys /\ UNCHANGED client
    BY DEF GenerateKeystore, generateKeystore, trustedFromKeystore
  <1>2. T \in [DOMAIN T -> {"active", "retired"}]
    OBVIOUS
  <1> HIDE DEF T
  <1>3. pushAuditAndReload(KeysTo(T), "KEYGEN", made + 1)
    BY <1>1 DEF KeysTo
  <1>4. QED
    BY <1>1, <1>2, <1>3 DEF KeyWork

LEMMA RotateMakesKey ==
    ASSUME IInv, KeysTyped, NEW retireOld \in BOOLEAN, rotate(retireOld)
    PROVE  KeyWork
  <1> DEFINE old == con.ks.keys
             T == [n \in DOMAIN old \cup {made + 1} |->
                      IF n = made + 1 THEN "active" ELSE IF retireOld THEN "retired" ELSE old[n]]
             store == [active |-> made + 1, keys |-> T]
  <1>1. /\ pushAuditAndReload([disk EXCEPT !.keystore = store, !.trusted = T], "ROTATE", made + 1)
        /\ con.ks # None /\ made' = made + 1 /\ made < MaxKeys /\ UNCHANGED client
    BY DEF rotate, rotateKeystore, trustedFromKeystore
  <1>2. \A n \in DOMAIN old : old[n] \in {"active", "retired"}
    <2>1. old = disk.trusted
      BY <1>1 DEF IInv, Memory, KInv
    <2>2. QED
      BY <2>1 DEF KeysTyped
  <1>3. T \in [DOMAIN T -> {"active", "retired"}]
    BY <1>2
  <1> HIDE DEF T
  <1>4. pushAuditAndReload(KeysTo(T), "ROTATE", made + 1)
    BY <1>1 DEF KeysTo
  <1>5. QED
    BY <1>1, <1>3, <1>4 DEF KeyWork

\* The keys of a keystore that is written.
LEMMA NewKeysTyped ==
    ASSUME made \in Nat, made < MaxKeys, NEW T, made' = made + 1, disk'.trusted = T,
           T \in [DOMAIN T -> {"active", "retired"}]
    PROVE  KeysTyped'
  BY ConsoleAssumption DEF KeysTyped

LEMMA KeysTypedKept == ASSUME IInv, KeysTyped, [Next]_vars PROVE KeysTyped'
  <1>1. CASE disk'.trusted = disk.trusted /\ made' = made
    BY <1>1 DEF KeysTyped
  <1>2. made \in Nat /\ Shape
    BY DEF IInv, KInv
  <1>3. CASE GenerateKeystore \/ \E retireOld \in BOOLEAN : rotate(retireOld)
    <2>1. KeyWork
      BY <1>3, GenerateMakesKey, RotateMakesKey
    <2>2. PICK T, action : /\ T \in [DOMAIN T -> {"active", "retired"}]
                           /\ pushAuditAndReload(KeysTo(T), action, made + 1)
      BY <2>1 DEF KeyWork
    <2>3. disk'.trusted = T
      <3>1. PICK d : d = KeysTo(T)
        OBVIOUS
      <3>2. /\ d.trusted = T
            /\ d = [keystore |-> d.keystore, trusted |-> d.trusted, licenses |-> d.licenses,
                    audit |-> d.audit, revoked |-> d.revoked, activated |-> d.activated]
        BY <1>2, <3>1 DEF KeysTo, Shape
      <3>3. pushAuditAndReload(d, action, made + 1)
        BY <2>2, <3>1
      <3>4. disk'.trusted = d.trusted
        BY <3>2, <3>3, PushAndReloadIs
      <3>5. QED
        BY <3>2, <3>4
    <2>4. QED
      BY <1>2, <2>1, <2>2, <2>3, NewKeysTyped DEF KeyWork
  <1>4. CASE \/ submit \/ KeySection
             \/ \E id \in Ids : revoke(id) \/ \E typed \in DOMAIN Typed : bindHwid(id, typed)
    <2>1. LogsWork
      BY <1>4, SubmitLogs, KeySectionLogs, RevokeLogs, BindLogs
    <2>2. PICK d, c, action, about : pushAudit(d, c, action, about) /\ Logged(d, c)
      BY <2>1 DEF LogsWork
    <2>3. disk'.trusted = disk.trusted
      BY <1>2, <2>2 DEF pushAudit, Logged, Shape
    <2>4. QED
      BY <1>1, <2>1, <2>3 DEF LogsWork
  <1>5. CASE demoTampered \/ demoExpired
    <2>1. /\ disk' = [disk EXCEPT !.keystore = Authority, !.trusted = Authority.keys]
          /\ disk.keystore = None => made < MaxKeys
          /\ made' = IF disk.keystore = None THEN made + 1 ELSE made
      BY <1>5 DEF demoTampered, demoExpired, ensureDemoAuthority, trustedFromKeystore
    <2>2. CASE disk.keystore = None
      <3> DEFINE T == [n \in {made + 1} |-> "active"]
      <3>1. T \in [DOMAIN T -> {"active", "retired"}] /\ Authority.keys = T
        BY <2>2 DEF Authority, generateKeystore
      <3> HIDE DEF T
      <3>2. disk'.trusted = T
        BY <1>2, <2>1, <3>1 DEF Shape
      <3>3. QED
        BY <1>2, <2>1, <2>2, <3>1, <3>2, NewKeysTyped
    <2>3. CASE disk.keystore # None
      <3>1. Authority.keys = disk.trusted
        BY <2>3 DEF Authority, IInv, KInv
      <3>2. disk'.trusted = disk.trusted /\ made' = made
        BY <1>2, <2>1, <2>3, <3>1 DEF Shape
      <3>3. QED
        BY <1>1, <3>2
    <2>4. QED
      BY <2>2, <2>3
  <1>6. CASE resetAll
    <2>1. disk'.trusted = [n \in {} |-> n] /\ made' = made
      BY <1>6 DEF resetAll, EmptyDisk, NoMap
    <2>2. QED
      BY <2>1 DEF KeysTyped
  <1>7. CASE \/ \E v \in {"client", "manager"} : setView(v)
             \/ setManagerUnlocked \/ Load \/ deactivate \/ ReloadPage \/ TimePasses
    BY <1>1, <1>2, <1>7 DEF setView, setManagerUnlocked, Load, deactivate, ReloadPage, TimePasses, history, Shape
  <1>8. CASE \/ \E env \in issued \cup {Garbage} : runVerify(env)
             \/ \E env \in client.pending : verifyAndActivate(env)
             \/ boot
    BY <1>1, <1>2, <1>8 DEF runVerify, verifyAndActivate, boot, history, Shape
  <1>9. CASE UNCHANGED vars
    BY <1>1, <1>9 DEF vars, history
  <1>10. QED
    BY <1>3, <1>4, <1>5, <1>6, <1>7, <1>8, <1>9 DEF Next

\* One more entry has the next number, and its fields.
LEMMA OneMoreEntry ==
    ASSUME NEW S, con.audit \in Seq(S), WholeLedger(con.audit), NEW action, NEW about
    PROVE  WholeLedger(Pushed(action, about))
  <1> DEFINE old == con.audit
  <1>1. PICK e : e = appendAudit(old, action, about)
    OBVIOUS
  <1>2. e.seq = Len(old) /\ IsEntry(e)
    <2>1. PICK n, h : n = Len(old) /\ h = auditRoot(old)
      OBVIOUS
    <2>2. e = [seq |-> n, action |-> action, about |-> about, prev_hash |-> h]
      BY <1>1, <2>1 DEF appendAudit
    <2>3. QED
      BY <2>1, <2>2 DEF IsEntry
  <1>3. PICK x : x = Pushed(action, about)
    OBVIOUS
  <1>4. x = Append(old, e)
    BY <1>1, <1>3 DEF Pushed
  <1>5. /\ x \in Seq(S \cup {e}) /\ Len(x) = Len(old) + 1 /\ x[Len(old) + 1] = e
        /\ \A i \in 1..Len(old) : x[i] = old[i]
    BY <1>4
  <1>6. \A i \in 1..Len(old) : old[i].seq = i - 1 /\ IsEntry(old[i])
    BY DEF WholeLedger, IsLedger
  <1>7. \A i \in 1..Len(x) : x[i].seq = i - 1 /\ IsEntry(x[i])
    <2> TAKE i \in 1..Len(x)
    <2>1. i \in 1..Len(old) \/ i = Len(old) + 1
      BY <1>5
    <2>2. QED
      BY <1>2, <1>5, <1>6, <2>1
  <1>8. DOMAIN x = 1..Len(x)
    BY <1>5, LenProperties
  <1>9. QED
    BY <1>3, <1>7, <1>8 DEF WholeLedger, IsLedger

LEMMA NumberedKept == ASSUME IInv, Numbered, KeysTyped, [Next]_vars PROVE Numbered'
  <1>1. PICK S : con.audit \in Seq(S)
    BY DEF IInv, Ledger
  <1>2. /\ Shape /\ WholeLedger(disk.audit) /\ WholeLedger(con.audit) /\ WholeLedger(<<>>)
        /\ \A action : \A about : WholeLedger(Pushed(action, about))
    BY <1>1, OneMoreEntry DEF IInv, Numbered, WholeLedger, IsLedger
  <1>3. CASE GenerateKeystore \/ \E retireOld \in BOOLEAN : rotate(retireOld)
    <2>1. KeyWork
      BY <1>3, GenerateMakesKey, RotateMakesKey
    <2>2. PICK T, action : pushAuditAndReload(KeysTo(T), action, made + 1)
      BY <2>1 DEF KeyWork
    <2>3. PICK d : d = KeysTo(T)
      OBVIOUS
    <2>4. /\ d.audit = disk.audit
          /\ d = [keystore |-> d.keystore, trusted |-> d.trusted, licenses |-> d.licenses,
                  audit |-> d.audit, revoked |-> d.revoked, activated |-> d.activated]
      BY <1>2, <2>3 DEF KeysTo, Shape
    <2>5. pushAuditAndReload(d, action, made + 1)
      BY <2>2, <2>3
    <2>6. disk'.audit = Pushed(action, made + 1) /\ con'.audit \in {Pushed(action, made + 1), d.audit}
      BY <2>4, <2>5, PushAndReloadIs
    <2>7. QED
      BY <1>2, <2>4, <2>6 DEF Numbered
  <1>4. CASE \/ submit \/ KeySection
             \/ \E id \in Ids : revoke(id) \/ \E typed \in DOMAIN Typed : bindHwid(id, typed)
    <2>1. LogsWork
      BY <1>4, SubmitLogs, KeySectionLogs, RevokeLogs, BindLogs
    <2>2. PICK d, c, action, about : pushAudit(d, c, action, about) /\ Logged(d, c)
      BY <2>1 DEF LogsWork
    <2>3. disk'.audit = Pushed(action, about) /\ con'.audit = Pushed(action, about)
      BY <1>2, <2>2 DEF pushAudit, Logged, Shape
    <2>4. QED
      BY <1>2, <2>3 DEF Numbered
  <1>5. CASE demoTampered \/ demoExpired
    <2>1. disk'.audit = disk.audit /\ con' = con
      BY <1>2, <1>5 DEF demoTampered, demoExpired, ensureDemoAuthority, Shape
    <2>2. QED
      BY <1>2, <2>1 DEF Numbered
  <1>6. ASSUME disk'.audit = disk.audit, con' = con \/ con' = Unloaded PROVE Numbered'
    BY <1>2, <1>6 DEF Numbered, Unloaded
  <1>7. CASE resetAll
    BY <1>2, <1>7 DEF resetAll, Numbered, EmptyDisk, Unloaded
  <1>8. CASE Load
    BY <1>2, <1>8 DEF Load, Numbered, loadManagerData
  <1>9. CASE \/ \E v \in {"client", "manager"} : setView(v)
             \/ setManagerUnlocked \/ deactivate \/ ReloadPage \/ TimePasses
    BY <1>2, <1>6, <1>9 DEF setView, setManagerUnlocked, deactivate, ReloadPage, TimePasses, Shape
  <1>10. CASE \/ \E env \in issued \cup {Garbage} : runVerify(env)
              \/ \E env \in client.pending : verifyAndActivate(env)
              \/ boot
    BY <1>2, <1>6, <1>10 DEF runVerify, verifyAndActivate, boot, Shape
  <1>11. CASE UNCHANGED vars
    BY <1>6, <1>11 DEF vars
  <1>12. QED
    BY <1>3, <1>4, <1>5, <1>7, <1>8, <1>9, <1>10, <1>11 DEF Next

\* The flags of the store, and an activation that is of a license.
LEMMA ShellFrame ==
    ASSUME ShellTyped, issued \subseteq issued', con'.loaded \in BOOLEAN,
           client'.view \in {"gate", "client", "manager"}, client'.unlocked \in BOOLEAN,
           client'.booting \in BOOLEAN,
           \/ client'.activated \in {None, client.activated}
           \/ \E e \in issued : client'.activated = e.doc
    PROVE  ShellTyped'
  BY DEF ShellTyped

LEMMA ActivatedIs ==
    ASSUME Sentinels, IInv, NEW env, Given(env), NEW c,
           c = [view |-> c.view, unlocked |-> c.unlocked, activated |-> c.activated,
                pending |-> c.pending, booting |-> c.booting]
    PROVE  /\ Activated(c, env).view \in {c.view, "client"}
           /\ Activated(c, env).unlocked = c.unlocked /\ Activated(c, env).booting = c.booting
           /\ \/ Activated(c, env).activated = None
              \/ \E e \in issued : Activated(c, env).activated = e.doc
  <1>1. CASE Verdict(env) = "ok"
    <2>1. env \in issued
      BY <1>1, VerdictIsOfDue DEF IInv, Due
    <2>2. Activated(c, env) = [c EXCEPT !.activated = env.doc, !.view = "client"]
      BY <1>1 DEF Activated
    <2>3. QED
      BY <2>1, <2>2
  <1>2. CASE Verdict(env) # "ok"
    BY <1>2 DEF Activated
  <1>3. QED
    BY <1>1, <1>2

LEMMA LoadedOrNot == ASSUME con.loaded \in BOOLEAN, con' \in {con, Unloaded} PROVE con'.loaded \in BOOLEAN
  <1>1. Unloaded.loaded = FALSE
    BY DEF Unloaded
  <1>2. CASE con' = con
    BY <1>2
  <1>3. CASE con' = Unloaded
    BY <1>1, <1>3
  <1>4. QED
    BY <1>2, <1>3

LEMMA ShellTypedKept ==
    ASSUME Sentinels, IInv, SignedTyped, KeysTyped, ShellTyped, [Next]_vars
    PROVE  ShellTyped'
  <1>1. Shape /\ issued \subseteq issued'
    BY SignedTypedKept DEF IInv
  <1>2. /\ client.view \in {"gate", "client", "manager"} /\ client.unlocked \in BOOLEAN
        /\ client.booting \in BOOLEAN /\ con.loaded \in BOOLEAN
    BY DEF ShellTyped
  <1>3. CASE GenerateKeystore \/ \E retireOld \in BOOLEAN : rotate(retireOld)
    <2>1. KeyWork
      BY <1>3, GenerateMakesKey, RotateMakesKey
    <2>2. PICK T, action : pushAuditAndReload(KeysTo(T), action, made + 1)
      BY <2>1 DEF KeyWork
    <2>3. PICK d : d = KeysTo(T)
      OBVIOUS
    <2>4. d = [keystore |-> d.keystore, trusted |-> d.trusted, licenses |-> d.licenses,
               audit |-> d.audit, revoked |-> d.revoked, activated |-> d.activated]
      BY <1>1, <2>3 DEF KeysTo, Shape
    <2>5. pushAuditAndReload(d, action, made + 1)
      BY <2>2, <2>3
    <2>6. con'.loaded = con.loaded
      BY <2>4, <2>5, PushAndReloadIs
    <2>7. QED
      BY <1>1, <1>2, <2>1, <2>6, ShellFrame DEF KeyWork
  <1>4. CASE \/ submit \/ KeySection
             \/ \E id \in Ids : revoke(id) \/ \E typed \in DOMAIN Typed : bindHwid(id, typed)
    <2>1. LogsWork
      BY <1>4, SubmitLogs, KeySectionLogs, RevokeLogs, BindLogs
    <2>2. PICK d, c, action, about : pushAudit(d, c, action, about) /\ Logged(d, c)
      BY <2>1 DEF LogsWork
    <2>3. con'.loaded = con.loaded
      BY <1>1, <2>2 DEF pushAudit, Logged, Shape
    <2>4. QED
      BY <1>1, <1>2, <2>1, <2>3, ShellFrame DEF LogsWork
  <1>5. CASE demoTampered \/ demoExpired
    <2>1. \E pending : client' = [client EXCEPT !.pending = pending]
      BY <1>1, <1>5 DEF demoTampered, demoExpired, Shape
    <2>2. con' = con
      BY <1>5 DEF demoTampered, demoExpired, ensureDemoAuthority
    <2>3. QED
      BY <1>1, <1>2, <2>1, <2>2, ShellFrame DEF Shape
  <1>6. ASSUME NEW env \in client.pending, verifyAndActivate(env)
        PROVE  ShellTyped'
    <2>1. PICK c : c = [client EXCEPT !.pending = @ \ {env}]
      OBVIOUS
    <2>2. /\ c = [view |-> c.view, unlocked |-> c.unlocked, activated |-> c.activated,
                  pending |-> c.pending, booting |-> c.booting]
          /\ c.view = client.view /\ c.unlocked = client.unlocked /\ c.booting = client.booting
      BY <1>1, <2>1 DEF Shape
    <2>3. client' = Activated(c, env) /\ con' \in {con, Unloaded}
      BY <1>6, <2>1 DEF verifyAndActivate
    <2>4. con'.loaded \in BOOLEAN
      BY <1>2, <2>3, LoadedOrNot
    <2>5. Given(env)
      BY <1>6 DEF IInv, GInv
    <2>6. /\ client'.view \in {c.view, "client"}
          /\ client'.unlocked = c.unlocked /\ client'.booting = c.booting
          /\ client'.activated = None \/ \E e \in issued : client'.activated = e.doc
      BY <2>2, <2>3, <2>5, ActivatedIs
    <2>7. QED
      BY <1>1, <1>2, <2>2, <2>4, <2>6, ShellFrame
  <1>7. CASE boot
    <2>1. PICK c : c = [client EXCEPT !.booting = FALSE]
      OBVIOUS
    <2>2. /\ c = [view |-> c.view, unlocked |-> c.unlocked, activated |-> c.activated,
                  pending |-> c.pending, booting |-> c.booting]
          /\ c.view = client.view /\ c.unlocked = client.unlocked /\ c.booting = FALSE
          /\ c.activated = client.activated
      BY <1>1, <2>1 DEF Shape
    <2>3. /\ client' = IF disk.activated = None THEN c ELSE Activated(c, disk.activated)
          /\ con' \in {con, Unloaded}
      BY <1>7, <2>1 DEF boot
    <2>4. disk.activated # None => Given(disk.activated)
      BY DEF IInv, GInv, Given
    <2>5. con'.loaded \in BOOLEAN
      BY <1>2, <2>3, LoadedOrNot
    <2>6. CASE disk.activated = None
      <3>1. client' = c
        BY <2>3, <2>6
      <3>2. QED
        BY <1>1, <1>2, <2>2, <2>5, <3>1, ShellFrame
    <2>7. CASE disk.activated # None
      <3>1. client' = Activated(c, disk.activated) /\ Given(disk.activated)
        BY <2>3, <2>4, <2>7
      <3>2. /\ client'.view \in {c.view, "client"}
            /\ client'.unlocked = c.unlocked /\ client'.booting = c.booting
            /\ client'.activated = None \/ \E e \in issued : client'.activated = e.doc
        BY <2>2, <3>1, ActivatedIs
      <3>3. QED
        BY <1>1, <1>2, <2>2, <2>5, <3>2, ShellFrame
    <2>8. QED
      BY <2>6, <2>7
  <1>8. CASE \/ \E v \in {"client", "manager"} : setView(v)
             \/ setManagerUnlocked \/ deactivate \/ ReloadPage \/ resetAll
    <2>1. con' \in {con, Unloaded}
      BY <1>8 DEF setView, setManagerUnlocked, deactivate, ReloadPage, resetAll
    <2>2. con'.loaded \in BOOLEAN
      BY <1>2, <2>1, LoadedOrNot
    <2>3. ASSUME NEW v \in {"client", "manager"}, setView(v)
          PROVE  /\ client'.view = v /\ client'.unlocked = client.unlocked
                 /\ client'.booting = client.booting /\ client'.activated = client.activated
      BY <1>1, <2>3 DEF setView, Shape
    <2>4. CASE setManagerUnlocked
      <3>1. /\ client'.view = client.view /\ client'.unlocked = TRUE
            /\ client'.booting = client.booting /\ client'.activated = client.activated
        BY <1>1, <2>4 DEF setManagerUnlocked, Shape
      <3>2. QED
        BY <1>1, <1>2, <2>2, <3>1, ShellFrame
    <2>5. CASE deactivate
      <3>1. /\ client'.view = "gate" /\ client'.unlocked = client.unlocked
            /\ client'.booting = client.booting /\ client'.activated = None
        BY <1>1, <2>5 DEF deactivate, Shape
      <3>2. QED
        BY <1>1, <1>2, <2>2, <3>1, ShellFrame
    <2>6. CASE ReloadPage \/ resetAll
      <3>1. /\ client'.view = "gate" /\ client'.unlocked = FALSE
            /\ client'.booting = TRUE /\ client'.activated = None
        BY <2>6 DEF ReloadPage, resetAll, StartOfPage
      <3>2. QED
        BY <1>1, <1>2, <2>2, <3>1, ShellFrame
    <2>7. CASE \E v \in {"client", "manager"} : setView(v)
      BY <1>1, <1>2, <2>2, <2>3, <2>7, ShellFrame
    <2>8. QED
      BY <1>8, <2>4, <2>5, <2>6, <2>7
  <1>9. CASE Load \/ TimePasses \/ \E env \in issued \cup {Garbage} : runVerify(env)
    BY <1>1, <1>2, <1>9 DEF Load, TimePasses, runVerify, Shape, ShellTyped, loadManagerData
  <1>10. CASE UNCHANGED vars
    BY <1>1, <1>2, <1>10, ShellFrame DEF vars
  <1>11. QED
    BY <1>3, <1>4, <1>5, <1>6, <1>7, <1>8, <1>9, <1>10 DEF Next

LEMMA TInductive == ASSUME Sentinels PROVE IInv /\ TInv /\ [Next]_vars => TInv'
  BY SignedTypedKept, KeysTypedKept, NumberedKept, ShellTypedKept DEF TInv

LEMMA TInitial == Init => TInv
  <1> SUFFICES ASSUME Init PROVE TInv
    OBVIOUS
  <1>1. SignedTyped
    BY DEF Init, SignedTyped
  <1>2. KeysTyped
    BY ConsoleAssumption DEF Init, EmptyDisk, NoMap, KeysTyped
  <1>3. Numbered
    BY DEF Init, EmptyDisk, Unloaded, Numbered, WholeLedger, IsLedger
  <1>4. ShellTyped
    BY DEF Init, Unloaded, StartOfPage, ShellTyped
  <1>5. QED
    BY <1>1, <1>2, <1>3, <1>4 DEF TInv

\* A license that was handed out is an envelope with a document of the format.
LEMMA IssuedIsEnvelope ==
    ASSUME IInv, TInv, NEW e \in issued
    PROVE  IsEnvelope(e)
  <1>1. Genuine(e) /\ Dated(e) /\ made \in Nat /\ made <= MaxKeys
    BY DEF IInv, LInv, KInv, TInv, SignedTyped, KeysTyped
  <1>2. PICK doc : doc = e.doc
    OBVIOUS
  <1>3. validateSchema(doc) = "ok"
    BY <1>1, <1>2 DEF Genuine
  <1>4. /\ doc.version = 2 /\ doc.product = "VOR" /\ doc.tier \in Tiers
        /\ doc.entitlements \subseteq Entitlements
    BY <1>3, SchemaAccepts
  <1>5. /\ doc.id \in Ids /\ doc.key = e.pk /\ e.pk \in Keys
        /\ doc.not_before \in Nat /\ doc.issued_at \in Nat /\ doc.expires_at \in Int
        /\ doc.bound \subseteq Hwids /\ e.spelled = "canonical"
    BY <1>1, <1>2, ConsoleAssumption DEF Genuine, Dated, Keys
  <1>6. doc = [f \in DOMAIN ReadAs |-> doc[f]]
    BY <1>1, <1>2 DEF Genuine
  <1>7. doc = [version |-> doc.version, id |-> doc.id, product |-> doc.product, key |-> doc.key,
               issued_at |-> doc.issued_at, not_before |-> doc.not_before,
               expires_at |-> doc.expires_at, tier |-> doc.tier,
               entitlements |-> doc.entitlements, bound |-> doc.bound]
    BY <1>6 DEF ReadAs
  <1>8. doc \in Documents
    BY <1>4, <1>5, <1>7 DEF Documents
  <1>9. /\ e = [doc |-> e.doc, spelled |-> e.spelled, sig |-> e.sig, pk |-> e.pk]
        /\ e.sig = [by |-> e.pk, over |-> [doc |-> doc, spelled |-> "canonical"]]
    BY <1>1, <1>2 DEF Genuine, Envelope, canonicalJson
  <1>10. DOMAIN e = {"doc", "spelled", "sig", "pk"} /\ DOMAIN e.sig = {"by", "over"}
    BY <1>9
  <1>11. e.sig.by = e.pk /\ e.sig.over.doc = doc
    BY <1>9
  <1>12. QED
    BY <1>2, <1>5, <1>8, <1>10, <1>11 DEF IsEnvelope, Spellings

LEMMA TypesFollow == ASSUME IInv, TInv PROVE TypeOK
  <1>1. \A e \in issued : IsEnvelope(e) /\ e.doc \in Documents /\ e.doc.bound \subseteq Hwids
    BY IssuedIsEnvelope DEF IsEnvelope, TInv, SignedTyped, Dated
  <1>2. made \in Nat /\ made <= MaxKeys /\ 1..made \subseteq Keys
    BY ConsoleAssumption DEF IInv, KInv, TInv, KeysTyped, Keys
  <1>3. disk.trusted \in KeyMaps
    <2>1. DOMAIN disk.trusted \in SUBSET Keys
      BY <1>2 DEF IInv, KInv
    <2>2. disk.trusted \in [DOMAIN disk.trusted -> {"active", "retired"}]
      BY DEF TInv, KeysTyped
    <2>3. QED
      BY <2>1, <2>2 DEF KeyMaps
  <1>4. disk.keystore # None => IsKeystore(disk.keystore)
    BY <1>3 DEF IInv, KInv, IsKeystore
  <1>5. IsRecordMap(disk.licenses) /\ IsRecordMap(con.licenses)
    <2>1. IsRecordMap(disk.licenses)
      <3>1. ASSUME NEW id \in DOMAIN disk.licenses
            PROVE  /\ id \in Ids /\ IsEnvelope(disk.licenses[id].env)
                   /\ disk.licenses[id].expires_at \in Int
                   /\ disk.licenses[id].bound \subseteq Hwids /\ disk.licenses[id].revoked \in BOOLEAN
        <4>1. PICK l : l = disk.licenses[id]
          OBVIOUS
        <4>2. Record(l, id)
          BY <4>1 DEF IInv, LInv
        <4>3. /\ l.env \in issued /\ l.env.doc.id = id /\ l.env.doc.bound = l.bound
              /\ l.expires_at \in Int /\ l.revoked \in BOOLEAN
          BY <4>2 DEF Record
        <4>4. l.env.doc.id \in Ids
          BY <4>3 DEF IInv, LInv, Genuine
        <4>5. QED
          BY <1>1, <4>1, <4>3, <4>4
      <3>2. QED
        BY <3>1 DEF IsRecordMap
    <2>2. IsRecordMap(NoMap)
      BY DEF IsRecordMap, NoMap
    <2>3. QED
      BY <2>1, <2>2 DEF IInv, Memory
  <1>6. disk.revoked \subseteq Ids /\ revokedEver \subseteq Ids
    <2>1. DOMAIN disk.licenses \subseteq Ids
      BY <1>5 DEF IsRecordMap
    <2>2. disk.revoked \subseteq DOMAIN disk.licenses
      BY DEF IInv, LInv
    <2>3. \A e \in issued : e.doc.id \in Ids
      BY DEF IInv, LInv, Genuine
    <2>4. \A id \in revokedEver : \E e \in issued : e.doc.id = id
      BY DEF IInv, LInv
    <2>5. QED
      BY <2>1, <2>2, <2>3, <2>4
  <1>7. cutOff \subseteq Keys /\ made \in 0..MaxKeys /\ now \in Clock
    BY <1>2, ConsoleAssumption DEF IInv, KInv, Shape
  <1>8. disk.activated # None => IsEnvelope(disk.activated)
    BY <1>1 DEF IInv, GInv
  <1>9. /\ client.activated # None => client.activated \in Documents
        /\ con.loaded \in BOOLEAN /\ client.view \in {"gate", "client", "manager"}
        /\ {client.unlocked, client.booting} \subseteq BOOLEAN
    BY <1>1 DEF TInv, ShellTyped
  <1>10. QED
    BY <1>3, <1>4, <1>5, <1>6, <1>7, <1>8, <1>9 DEF TypeOK, TInv, Numbered, WholeLedger

\* Storage, memory and store keep their types: no key outside a keystore, no record without
\* an envelope of the format, no date that is not one, however the clicks come.
THEOREM ConsoleTypeCorrect == ASSUME Sentinels PROVE Spec => []TypeOK
  <1>1. IInv /\ TInv => TypeOK
    BY TypesFollow
  <1>2. QED
    BY <1>1, TInitial, TInductive, Invariant, PTL DEF Spec

\* The ledger panel shows a ledger of memory, which may lack what another mount has added on
\* the disk, or have what no disk has (LedgerOnlyGrows fails); but when the root it shows is
\* the disk's, the two ledgers are the same, entry by entry.
THEOREM RootTellsLedger == ASSUME Sentinels PROVE Spec => []RootTells
  <1>1. IInv /\ TInv => RootTells
    <2> SUFFICES ASSUME IInv, TInv, auditRoot(con.audit) = auditRoot(disk.audit)
                 PROVE  con.audit = disk.audit
      BY DEF RootTells
    <2>1. PICK S, R : con.audit \in Seq(S) /\ disk.audit \in Seq(R)
      BY DEF IInv, Ledger
    <2>2. PICK a, b : a = con.audit /\ b = disk.audit
      OBVIOUS
    <2>3. /\ a \in Seq(S) /\ verifyAuditChain(a) /\ WholeLedger(a)
          /\ b \in Seq(R) /\ verifyAuditChain(b) /\ WholeLedger(b)
      BY <2>1, <2>2 DEF IInv, Ledger, TInv, Numbered
    <2>4. PICK E : E = {a[i] : i \in 1..Len(a)} \cup {b[i] : i \in 1..Len(b)}
      OBVIOUS
    <2>5. a \in Seq(E) /\ b \in Seq(E)
      BY <2>3, <2>4
    <2>6. \A e \in E : IsEntry(e)
      <3>1. DOMAIN a = 1..Len(a) /\ DOMAIN b = 1..Len(b)
        BY <2>3, LenProperties
      <3>2. (\A i \in 1..Len(a) : IsEntry(a[i])) /\ (\A i \in 1..Len(b) : IsEntry(b[i]))
        BY <2>3, <3>1 DEF WholeLedger
      <3>3. QED
        BY <2>4, <3>2
    <2>7. QED
      BY <2>2, <2>3, <2>5, <2>6, RootPinsTheLedger
  <1>2. QED
    BY <1>1, TInitial, TInductive, Invariant, PTL DEF Spec
=============================================================================

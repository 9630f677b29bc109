--------------------------- MODULE AuthorityProofs ---------------------------
(***************************************************************************)
(* Theorems about Authority, for any number of keys, licenses and days.      *)
(*                                                                         *)
(* What the properties say of a readable keystore is not inductive: a new    *)
(* key must be new (NewestIsActive), and a keystore that does not exist must *)
(* not have signed or cut off anything (NothingBefore).                      *)
(***************************************************************************)
EXTENDS Authority, TLAPS

\* A file is one of the three things it can be.
IsFile(f) == f = Absent \/ f = Torn \/ \E x : f = Holds(x)
Files == IsFile(keystore) /\ IsFile(revoked) /\ IsFile(exported)

\* The active key is the last one generated.
NewestIsActive ==
    Readable(keystore) => /\ Content(keystore).active \in DOMAIN Content(keystore).keys
                          /\ \A k \in DOMAIN Content(keystore).keys : k <= Content(keystore).active

\* The keystore remembers the keys it cut off.
CutOffIsRemembered ==
    Readable(keystore) => cutOff \subseteq DOMAIN Content(keystore).keys

NothingBefore == keystore = Absent => licenses = {} /\ cutOff = {}

AInv == /\ Files /\ AuthorityTypeOK /\ NewestIsActive /\ NothingBefore
        /\ KeyHistoryKept /\ CutOffStaysRetired /\ CutOffIsRemembered
-----------------------------------------------------------------------------
\* A file that can be read is not absent, and has the content it was given.
LEMMA FileFacts ==
    /\ ~Readable(Absent) /\ ~Readable(Torn) /\ Absent # Torn
    /\ \A x : Readable(Holds(x)) /\ Content(Holds(x)) = x /\ Holds(x) # Absent
  BY DEF Readable, Content, Holds, Absent, Torn

\* A first keystore is a keystore whose one key is active.
LEMMA GenerateIsKeystore ==
    ASSUME NEW k \in Nat
    PROVE  /\ IsKeystore(generate(k))
           /\ generate(k).active = k /\ DOMAIN generate(k).keys = {k}
           /\ is_trusted(generate(k).keys, k)
  BY DEF generate, IsKeystore, Keys, Statuses, is_trusted

\* A rotation adds one key, active, and either retires every other or leaves them.
LEMMA RotateIsKeystore ==
    ASSUME NEW ks, IsKeystore(ks), NEW k \in Nat, NEW retire_old \in BOOLEAN
    PROVE  LET new == rotate(ks, k, retire_old)
           IN  /\ IsKeystore(new) /\ new.active = k
               /\ DOMAIN new.keys = DOMAIN ks.keys \cup {k}
               /\ is_trusted(new.keys, k)
               /\ \A n \in DOMAIN ks.keys \ {k} :
                     is_trusted(new.keys, n) <=> ~retire_old /\ is_trusted(ks.keys, n)
  <1> DEFINE new == rotate(ks, k, retire_old)
  <1>1. /\ DOMAIN new = {"active", "keys"} /\ new.active = k
        /\ DOMAIN new.keys = DOMAIN ks.keys \cup {k}
        /\ \A n \in DOMAIN new.keys :
              new.keys[n] = IF n = k THEN "Active" ELSE IF retire_old THEN "Retired" ELSE ks.keys[n]
    BY DEF rotate
  <1>2. IsKeystore(new)
    BY <1>1 DEF IsKeystore, Keys, Statuses
  <1>3. is_trusted(new.keys, k)
    BY <1>1 DEF is_trusted
  <1>4. \A n \in DOMAIN ks.keys \ {k} :
           is_trusted(new.keys, n) <=> ~retire_old /\ is_trusted(ks.keys, n)
    BY <1>1 DEF is_trusted
  <1>5. QED
    BY <1>1, <1>2, <1>3, <1>4
-----------------------------------------------------------------------------
LEMMA AInvInit == AuthorityInit => AInv
  BY FileFacts DEF AuthorityInit, AInv, Files, IsFile, AuthorityTypeOK, NewestIsActive,
     NothingBefore, KeyHistoryKept, CutOffStaysRetired, CutOffIsRemembered

LEMMA InitKeystoreInv == AInv /\ InitKeystore => AInv'
  <1> SUFFICES ASSUME AInv, InitKeystore PROVE AInv'
    OBVIOUS
  <1>1. PICK k \in 1..MaxKeys : keystore' = Holds(generate(k))
    BY DEF InitKeystore
  <1>2. k \in Nat /\ licenses = {} /\ cutOff = {}
    BY AuthorityAssumption DEF AInv, NothingBefore, InitKeystore
  <1>3. Readable(keystore') /\ Content(keystore') = generate(k) /\ keystore' # Absent
    BY <1>1, FileFacts
  <1>4. UNCHANGED <<revoked, exported, licenses, now, cutOff>>
    BY DEF InitKeystore
  <1>5. Files' /\ AuthorityTypeOK'
    BY <1>1, <1>2, <1>3, <1>4, GenerateIsKeystore DEF AInv, Files, IsFile, AuthorityTypeOK
  <1>6. NewestIsActive' /\ NothingBefore'
    BY <1>2, <1>3, GenerateIsKeystore DEF NewestIsActive, NothingBefore
  <1>7. KeyHistoryKept' /\ CutOffIsRemembered'
    BY <1>2, <1>4 DEF KeyHistoryKept, CutOffIsRemembered
  <1>8. CutOffStaysRetired'
    BY <1>2, <1>3, <1>4, GenerateIsKeystore DEF CutOffStaysRetired
  <1>9. QED
    BY <1>5, <1>6, <1>7, <1>8 DEF AInv

LEMMA RotateInv == ASSUME NEW retire_old \in BOOLEAN PROVE AInv /\ Rotate(retire_old) => AInv'
  <1> SUFFICES ASSUME AInv, Rotate(retire_old) PROVE AInv'
    OBVIOUS
  <1> DEFINE ks == Content(keystore)
  <1>1. PICK k \in (ks.active + 1)..MaxKeys : keystore' = Holds(rotate(ks, k, retire_old))
    BY DEF Rotate
  <1>2. /\ Readable(keystore) /\ IsKeystore(ks) /\ ks.active \in Nat
        /\ \A n \in DOMAIN ks.keys : n \in Nat /\ n <= ks.active
    BY DEF Rotate, AInv, AuthorityTypeOK, NewestIsActive, IsKeystore, Keys
  <1>3. k \in Nat /\ k > ks.active /\ k \notin DOMAIN ks.keys
    BY <1>1, <1>2, AuthorityAssumption
  <1> DEFINE new == rotate(ks, k, retire_old)
  <1>4. /\ IsKeystore(new) /\ new.active = k
        /\ DOMAIN new.keys = DOMAIN ks.keys \cup {k}
        /\ is_trusted(new.keys, k)
        /\ \A n \in DOMAIN ks.keys \ {k} :
              is_trusted(new.keys, n) <=> ~retire_old /\ is_trusted(ks.keys, n)
    BY <1>2, <1>3, RotateIsKeystore
  <1>5. Readable(keystore') /\ Content(keystore') = new /\ keystore' # Absent
    BY <1>1, FileFacts
  <1> HIDE DEF new
  <1>6. /\ UNCHANGED <<revoked, exported, licenses, now>>
        /\ cutOff' = IF retire_old THEN cutOff \cup DOMAIN ks.keys ELSE cutOff
    BY DEF Rotate
  <1>7. Files' /\ AuthorityTypeOK'
    <2>1. cutOff' \subseteq Keys
      BY <1>2, <1>6 DEF AInv, AuthorityTypeOK, Keys
    <2>2. IsFile(keystore')
      BY <1>1 DEF IsFile
    <2>3. QED
      BY <2>1, <2>2, <1>4, <1>5, <1>6 DEF AInv, Files, AuthorityTypeOK
  <1>8. NewestIsActive' /\ NothingBefore'
    BY <1>2, <1>3, <1>4, <1>5 DEF NewestIsActive, NothingBefore
  <1>9. KeyHistoryKept'
    BY <1>2, <1>4, <1>5, <1>6 DEF AInv, KeyHistoryKept
  <1>10. CutOffIsRemembered'
    BY <1>2, <1>4, <1>5, <1>6 DEF AInv, CutOffIsRemembered
  <1>11. CutOffStaysRetired'
    <2>1. \A n \in cutOff : n \in DOMAIN ks.keys \ {k} /\ ~is_trusted(ks.keys, n)
      BY <1>2, <1>3 DEF AInv, CutOffStaysRetired, CutOffIsRemembered
    <2>2. \A n \in cutOff' : ~is_trusted(new.keys, n)
      BY <2>1, <1>3, <1>4, <1>6
    <2>3. QED
      BY <2>2, <1>4, <1>5 DEF CutOffStaysRetired
  <1>12. QED
    BY <1>7, <1>8, <1>9, <1>10, <1>11 DEF AInv

LEMMA IssueInv == ASSUME NEW since \in 0..now PROVE AInv /\ Issue(since) => AInv'
  <1> SUFFICES ASSUME AInv, Issue(since) PROVE AInv'
    OBVIOUS
  <1> DEFINE ks == Content(keystore)
  <1>1. PICK id \in Ids, days \in Days, bound \in SUBSET Hwids :
          licenses' = licenses \cup
            {issue_license(ks, [id |-> id, key |-> ks.active, not_before |-> since,
                                expires_at |-> since + days, bound |-> bound])}
    BY DEF Issue
  <1> DEFINE p == [id |-> id, key |-> ks.active, not_before |-> since,
                   expires_at |-> since + days, bound |-> bound]
             new == issue_license(ks, p)
  <1>2. /\ Readable(keystore) /\ IsKeystore(ks) /\ ks.active \in Keys
        /\ ks.active \in DOMAIN ks.keys /\ now \in Nat
    BY DEF Issue, AInv, AuthorityTypeOK, NewestIsActive, IsKeystore
  <1>3. p \in Payloads
    BY <1>2, AuthorityAssumption DEF Payloads
  <1>4. new \in Envelopes /\ new.payload.key = ks.active
    BY <1>2, <1>3 DEF issue_license, Envelopes
  <1>5. licenses' = licenses \cup {new}
    BY <1>1
  <1> HIDE DEF new, p
  <1>6. UNCHANGED <<keystore, revoked, exported, now, cutOff>>
    BY DEF Issue
  <1>7. Files' /\ AuthorityTypeOK'
    BY <1>4, <1>5, <1>6 DEF AInv, Files, IsFile, AuthorityTypeOK
  <1>8. NewestIsActive' /\ NothingBefore' /\ CutOffIsRemembered' /\ CutOffStaysRetired'
    BY <1>2, <1>6, FileFacts
       DEF AInv, NewestIsActive, NothingBefore, CutOffIsRemembered, CutOffStaysRetired
  <1>9. KeyHistoryKept'
    BY <1>2, <1>4, <1>5, <1>6 DEF AInv, KeyHistoryKept
  <1>10. QED
    BY <1>7, <1>8, <1>9 DEF AInv

\* A step that changes neither the keystore nor the licenses nor the history keeps what
\* is said of the keystore.
LEMMA KeystoreFrame ==
    ASSUME AInv, UNCHANGED <<keystore, licenses, cutOff>>
    PROVE  /\ NewestIsActive' /\ NothingBefore' /\ KeyHistoryKept'
           /\ CutOffStaysRetired' /\ CutOffIsRemembered'
  BY DEF AInv, NewestIsActive, NothingBefore, KeyHistoryKept, CutOffStaysRetired,
     CutOffIsRemembered

LEMMA RevokeInv == AInv /\ Revoke => AInv'
  <1> SUFFICES ASSUME AInv, Revoke PROVE AInv'
    OBVIOUS
  <1>1. PICK id \in Ids : revoked' = Holds(Listed(revoked) \cup {id})
    BY DEF Revoke
  <1>2. UNCHANGED <<keystore, exported, licenses, now, cutOff>>
    BY DEF Revoke
  <1>3. Listed(revoked) \subseteq Ids
    BY DEF Listed, AInv, AuthorityTypeOK
  <1>4. Content(revoked') \subseteq Ids /\ IsFile(revoked')
    BY <1>1, <1>3, FileFacts DEF IsFile
  <1>5. Files' /\ AuthorityTypeOK'
    BY <1>2, <1>4 DEF AInv, Files, IsFile, AuthorityTypeOK
  <1>6. QED
    BY <1>2, <1>5, KeystoreFrame DEF AInv

LEMMA ExportInv == AInv /\ Export => AInv'
  <1> SUFFICES ASSUME AInv, Export PROVE AInv'
    OBVIOUS
  <1>1. Readable(keystore) /\ exported' = Holds(Bundle)
    BY DEF Export
  <1>2. UNCHANGED <<keystore, revoked, licenses, now, cutOff>>
    BY DEF Export
  <1>3. Bundle.keys = Content(keystore).keys
    BY DEF Bundle, from_keystore
  <1>4. IsFile(exported') /\ Content(exported').keys = Content(keystore).keys
    BY <1>1, <1>3, FileFacts DEF IsFile
  <1>5. \A k \in DOMAIN Content(keystore).keys :
           k \in Keys /\ Content(keystore).keys[k] \in Statuses
    BY <1>1 DEF AInv, AuthorityTypeOK, IsKeystore
  <1>6. Files' /\ AuthorityTypeOK'
    BY <1>2, <1>4, <1>5 DEF AInv, Files, IsFile, AuthorityTypeOK
  <1>7. QED
    BY <1>2, <1>6, KeystoreFrame DEF AInv

LEMMA LoseInv == AInv /\ Lose => AInv'
  <1> SUFFICES ASSUME AInv, Lose PROVE AInv'
    OBVIOUS
  <1>1. UNCHANGED <<licenses, now, cutOff>>
    BY DEF Lose
  <1>2. CASE keystore' = Torn /\ UNCHANGED <<revoked, exported>>
    <2>1. ~Readable(keystore') /\ keystore' # Absent
      BY <1>2, FileFacts
    <2>2. QED
      BY <1>1, <1>2, <2>1 DEF AInv, Files, IsFile, AuthorityTypeOK, NewestIsActive,
         NothingBefore, KeyHistoryKept, CutOffStaysRetired, CutOffIsRemembered
  <1>3. CASE revoked' = Torn /\ UNCHANGED <<keystore, exported>>
    <2>1. ~Readable(revoked')
      BY <1>3, FileFacts
    <2>2. Files' /\ AuthorityTypeOK'
      BY <1>1, <1>3, <2>1 DEF AInv, Files, IsFile, AuthorityTypeOK
    <2>3. QED
      BY <1>1, <1>3, <2>2, KeystoreFrame DEF AInv
  <1>4. CASE exported' = Torn /\ UNCHANGED <<keystore, revoked>>
    <2>1. ~Readable(exported')
      BY <1>4, FileFacts
    <2>2. Files' /\ AuthorityTypeOK'
      BY <1>1, <1>4, <2>1 DEF AInv, Files, IsFile, AuthorityTypeOK
    <2>3. QED
      BY <1>1, <1>4, <2>2, KeystoreFrame DEF AInv
  <1>5. QED
    BY <1>2, <1>3, <1>4 DEF Lose

LEMMA TimeInv == AInv /\ TimePasses => AInv'
  <1> SUFFICES ASSUME AInv, TimePasses PROVE AInv'
    OBVIOUS
  <1>1. UNCHANGED <<keystore, revoked, exported, licenses, cutOff>> /\ now' = now + 1
    BY DEF TimePasses
  <1>2. Files' /\ AuthorityTypeOK'
    BY <1>1 DEF AInv, Files, IsFile, AuthorityTypeOK
  <1>3. QED
    BY <1>1, <1>2, KeystoreFrame DEF AInv

LEMMA AInvNext == AInv /\ [AuthorityNext]_authorityVars => AInv'
  <1> SUFFICES ASSUME AInv, [AuthorityNext]_authorityVars PROVE AInv'
    OBVIOUS
  <1>1. CASE InitKeystore
    BY <1>1, InitKeystoreInv
  <1>2. ASSUME NEW r \in BOOLEAN, Rotate(r) PROVE AInv'
    BY <1>2, RotateInv
  <1>3. ASSUME NEW since \in 0..now, Issue(since) PROVE AInv'
    BY <1>3, IssueInv
  <1>4. CASE Revoke
    BY <1>4, RevokeInv
  <1>5. CASE Export
    BY <1>5, ExportInv
  <1>6. CASE Lose
    BY <1>6, LoseInv
  <1>7. CASE TimePasses
    BY <1>7, TimeInv
  <1>8. CASE UNCHANGED authorityVars
    <2>1. UNCHANGED <<keystore, revoked, exported, licenses, now, cutOff>>
      BY <1>8 DEF authorityVars
    <2>2. Files' /\ AuthorityTypeOK'
      BY <2>1 DEF AInv, Files, IsFile, AuthorityTypeOK
    <2>3. QED
      BY <2>1, <2>2, KeystoreFrame DEF AInv
  <1>9. QED
    BY <1>1, <1>2, <1>3, <1>4, <1>5, <1>6, <1>7, <1>8 DEF AuthorityNext, Steps

\* The vault's files and its history satisfy the strengthened invariant for ever.
THEOREM AuthorityInvariance == AuthoritySpec => []AInv
  BY AInvInit, AInvNext, PTL DEF AuthoritySpec

\* Every file keeps its type, whichever commands run and whichever are killed.
THEOREM AuthorityTypeCorrect == AuthoritySpec => []AuthorityTypeOK
  <1>1. AInv => AuthorityTypeOK
    BY DEF AInv
  <1>2. QED
    BY <1>1, AuthorityInvariance, PTL

\* No rotation forgets a key that a license was signed with (keys.rs, rotate).
THEOREM KeysAreKept == AuthoritySpec => []KeyHistoryKept
  <1>1. AInv => KeyHistoryKept
    BY DEF AInv
  <1>2. QED
    BY <1>1, AuthorityInvariance, PTL

\* A key cut off by a hard rotation is trusted by no later keystore (keys.rs, rotate).
THEOREM CutOffKeysStayRetired == AuthoritySpec => []CutOffStaysRetired
  <1>1. AInv => CutOffStaysRetired
    BY DEF AInv
  <1>2. QED
    BY <1>1, AuthorityInvariance, PTL
=============================================================================

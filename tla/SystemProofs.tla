----------------------------- MODULE SystemProofs -----------------------------
(***************************************************************************)
(* Theorems about LicenseSystem, for any number of keys, licenses, releases  *)
(* and days, any skew and any drift within it.                               *)
(*                                                                         *)
(* The argument is about bundles.  One that was exported lists every key of  *)
(* that day as trusted or cut off, and a key of it that signs no license by   *)
(* then never signs one: later licenses are signed with the active key, or   *)
(* with keys that are newer than the bundle.                                 *)
(***************************************************************************)
EXTENDS LicenseSystem, AuthorityProofs

\* A license file is as the tool wrote it.
Signed == \A l \in licenses :
    l.intact /\ l.signer = l.payload.key /\ validate_schema(l.payload)

\* A key that no hard rotation has cut off is trusted.
TrustKept ==
    Readable(keystore) =>
        \A k \in DOMAIN Content(keystore).keys :
            k \notin cutOff => is_trusted(Content(keystore).keys, k)

\* What a bundle that was exported at some time says of the licenses of any time.
BundleOK(f) ==
    Readable(f) =>
        LET b == Content(f)
        IN  /\ keystore # Absent
            /\ \A k \in DOMAIN b.keys : is_trusted(b.keys, k) <=> k \notin b.cutOff
            /\ b.served \subseteq DOMAIN b.keys
            /\ \A l \in licenses : l.payload.key \in DOMAIN b.keys => l.payload.key \in b.served
            /\ Readable(keystore) =>
                  /\ DOMAIN b.keys \subseteq DOMAIN Content(keystore).keys
                  /\ Content(keystore).active \in DOMAIN b.keys => Content(keystore).active \in b.served

VInv == Signed /\ TrustKept /\ BundleOK(exported)

\* A release carries a bundle that could be read.
ReleaseOK(r) == (r = NoRelease \/ Readable(r.bundle)) /\ BundleOK(r.bundle)

\* What is on the device: releases, the stored envelope, and what the calls hold.
CallOK(call) ==
    /\ call.pc \in {"list", "read", "load"} => installed # NoRelease
    /\ call.pc = "load" => call.env \in Held
    /\ call.pc = "write" => call.env \in licenses
Calls ==
    /\ calls = [c \in Callers |-> calls[c]]
    /\ \A c \in Callers :
          calls[c] = [pc |-> calls[c].pc, env |-> calls[c].env, mounted |-> calls[c].mounted]
    /\ \A c \in Callers : CallOK(calls[c])
CInv ==
    /\ ReleaseOK(release) /\ ReleaseOK(installed)
    /\ drift \in (-Skew)..Skew
    /\ stored = None \/ stored \in licenses
    /\ Calls

IInv == AInv /\ VInv /\ CInv
-----------------------------------------------------------------------------
(* The vault *)

LEMMA OperatorIsAuthority == ASSUME AInv, Steps({now}) PROVE AInv'
  <1>1. now \in 0..now
    BY DEF AInv, AuthorityTypeOK
  <1>2. AuthorityNext
    BY <1>1 DEF Steps, AuthorityNext
  <1>3. QED
    BY <1>2, AInvNext

\* No step of the vault makes a bundle wrong that is right.
LEMMA BundleKept == ASSUME AInv, NEW f, BundleOK(f), Steps({now}) PROVE BundleOK(f)'
  <1> SUFFICES ASSUME Readable(f) PROVE BundleOK(f)'
    BY DEF BundleOK
  <1> DEFINE b  == Content(f)
             ks == Content(keystore)
  <1>1. /\ keystore # Absent
        /\ \A k \in DOMAIN b.keys : is_trusted(b.keys, k) <=> k \notin b.cutOff
        /\ b.served \subseteq DOMAIN b.keys
        /\ \A l \in licenses : l.payload.key \in DOMAIN b.keys => l.payload.key \in b.served
        /\ Readable(keystore) =>
              /\ DOMAIN b.keys \subseteq DOMAIN ks.keys
              /\ ks.active \in DOMAIN b.keys => ks.active \in b.served
    BY DEF BundleOK
  <1>2. CASE UNCHANGED <<keystore, licenses>>
    BY <1>1, <1>2 DEF BundleOK
  <1>3. ASSUME NEW r \in BOOLEAN, Rotate(r) PROVE BundleOK(f)'
    <2>1. PICK k \in (ks.active + 1)..MaxKeys : keystore' = Holds(rotate(ks, k, r))
      BY <1>3 DEF Rotate
    <2>2. /\ Readable(keystore) /\ IsKeystore(ks) /\ ks.active \in Nat
          /\ \A n \in DOMAIN ks.keys : n \in Nat /\ n <= ks.active
      BY <1>3 DEF Rotate, AInv, AuthorityTypeOK, NewestIsActive, IsKeystore, Keys
    <2>3. k \in Nat /\ k \notin DOMAIN ks.keys
      BY <2>1, <2>2, AuthorityAssumption
    <2>4. PICK new : new = rotate(ks, k, r)
      OBVIOUS
    <2>5. new.active = k /\ DOMAIN new.keys = DOMAIN ks.keys \cup {k}
      BY <2>2, <2>3, <2>4, RotateIsKeystore
    <2>6. Readable(keystore') /\ Content(keystore') = new /\ keystore' # Absent
      BY <2>1, <2>4, FileFacts
    <2>7. licenses' = licenses
      BY <1>3 DEF Rotate
    <2>8. k \notin DOMAIN b.keys
      BY <1>1, <2>2, <2>3
    <2>9. QED
      BY <1>1, <2>2, <2>5, <2>6, <2>7, <2>8 DEF BundleOK
  <1>4. CASE Issue(now)
    <2>1. Readable(keystore) /\ keystore' = keystore
      BY <1>4 DEF Issue
    <2>2. \A l \in licenses' : l \in licenses \/ l.payload.key = ks.active
      BY <1>4 DEF Issue, issue_license
    <2>3. QED
      BY <1>1, <2>1, <2>2 DEF BundleOK
  <1>5. CASE Lose
    <2>1. licenses' = licenses /\ keystore' \in {keystore, Torn}
      BY <1>5 DEF Lose
    <2>2. keystore' # Absent /\ (Readable(keystore') => keystore' = keystore)
      BY <1>1, <2>1, FileFacts
    <2>3. QED
      BY <1>1, <2>1, <2>2 DEF BundleOK
  <1>6. CASE Revoke \/ Export \/ TimePasses
    BY <1>2, <1>6 DEF Revoke, Export, TimePasses
  <1>7. ~InitKeystore
    BY <1>1 DEF InitKeystore
  <1>8. QED
    BY <1>3, <1>4, <1>5, <1>6, <1>7 DEF Steps

\* A bundle is right when it is exported.
LEMMA Exported == ASSUME AInv, VInv, Export PROVE BundleOK(exported)'
  <1> DEFINE ks == Content(keystore)
  <1>1. PICK served : served = {l.payload.key : l \in licenses} \cup {ks.active}
    OBVIOUS
  <1>2. PICK b : b = [keys |-> ks.keys, cutOff |-> cutOff, served |-> served]
    OBVIOUS
  <1>3. /\ Readable(keystore) /\ exported' = Holds(b)
        /\ UNCHANGED <<keystore, licenses, cutOff>>
    BY <1>1, <1>2 DEF Export, Bundle, from_keystore
  <1>4. b.keys = ks.keys /\ b.cutOff = cutOff /\ b.served = served
    BY <1>2
  <1>5. Readable(exported') /\ Content(exported') = b
    BY <1>3, FileFacts
  <1>6. \A k \in DOMAIN ks.keys : is_trusted(ks.keys, k) <=> k \notin cutOff
    BY <1>3 DEF VInv, TrustKept, AInv, CutOffStaysRetired
  <1>7. ks.active \in DOMAIN ks.keys /\ \A l \in licenses : l.payload.key \in DOMAIN ks.keys
    BY <1>3 DEF AInv, NewestIsActive, KeyHistoryKept
  <1>8. served \subseteq DOMAIN ks.keys /\ ks.active \in served
    BY <1>1, <1>7
  <1>9. \A l \in licenses : l.payload.key \in served
    BY <1>1
  <1>10. keystore # Absent
    BY <1>3, FileFacts
  <1>11. QED
    BY <1>3, <1>4, <1>5, <1>6, <1>7, <1>8, <1>9, <1>10 DEF BundleOK

LEMMA VaultKeeps == ASSUME AInv, VInv, Steps({now}) PROVE VInv'
  <1> DEFINE ks == Content(keystore)
  <1>1. BundleOK(exported)'
    <2>1. CASE Export
      BY <2>1, Exported
    <2>2. CASE ~Export /\ exported' = Torn
      BY <2>2, FileFacts DEF BundleOK
    <2>3. CASE ~Export /\ exported' # Torn
      <3>1. exported' = exported
        BY <2>3 DEF Steps, InitKeystore, Rotate, Issue, Revoke, Lose, TimePasses
      <3>2. PICK f : f = exported
        OBVIOUS
      <3>3. BundleOK(f)'
        BY <3>2, BundleKept DEF VInv
      <3>4. QED
        BY <3>1, <3>2, <3>3 DEF BundleOK
    <2>4. QED
      BY <2>1, <2>2, <2>3
  <1>2. Signed'
    <2>1. CASE Issue(now)
      <3>1. PICK id \in Ids, days \in Days, bound \in SUBSET Hwids :
               LET p == [id |-> id, key |-> ks.active, not_before |-> now,
                         expires_at |-> now + days, bound |-> bound]
               IN  /\ validate_schema(p)
                   /\ licenses' = licenses \cup {issue_license(ks, p)}
        BY <2>1 DEF Issue
      <3>2. PICK p : p = [id |-> id, key |-> ks.active, not_before |-> now,
                          expires_at |-> now + days, bound |-> bound]
        OBVIOUS
      <3>3. PICK l : l = issue_license(ks, p)
        OBVIOUS
      <3>4. l.payload = p /\ l.signer = ks.active /\ l.intact /\ p.key = ks.active
        BY <3>2, <3>3 DEF issue_license
      <3>5. licenses' = licenses \cup {l} /\ validate_schema(p)
        BY <3>1, <3>2, <3>3
      <3>6. QED
        BY <3>4, <3>5 DEF VInv, Signed
    <2>2. CASE ~Issue(now)
      <3>1. licenses' = licenses
        BY <2>2 DEF Steps, InitKeystore, Rotate, Revoke, Export, Lose, TimePasses
      <3>2. QED
        BY <3>1 DEF VInv, Signed
    <2>3. QED
      BY <2>1, <2>2
  <1>3. TrustKept'
    <2>1. CASE InitKeystore
      <3>1. PICK k \in 1..MaxKeys : keystore' = Holds(generate(k))
        BY <2>1 DEF InitKeystore
      <3>2. k \in Nat
        BY AuthorityAssumption
      <3>3. DOMAIN generate(k).keys = {k} /\ is_trusted(generate(k).keys, k)
        BY <3>2, GenerateIsKeystore
      <3>4. Content(keystore') = generate(k)
        BY <3>1, FileFacts
      <3>5. QED
        BY <3>3, <3>4 DEF TrustKept
    <2>2. ASSUME NEW r \in BOOLEAN, Rotate(r) PROVE TrustKept'
      <3>1. PICK k \in (ks.active + 1)..MaxKeys : keystore' = Holds(rotate(ks, k, r))
        BY <2>2 DEF Rotate
      <3>2. /\ Readable(keystore) /\ IsKeystore(ks) /\ ks.active \in Nat
            /\ \A n \in DOMAIN ks.keys : n \in Nat /\ n <= ks.active
        BY <2>2 DEF Rotate, AInv, AuthorityTypeOK, NewestIsActive, IsKeystore, Keys
      <3>3. k \in Nat /\ k \notin DOMAIN ks.keys
        BY <3>1, <3>2, AuthorityAssumption
      <3>4. PICK new : new = rotate(ks, k, r)
        OBVIOUS
      <3>5. /\ DOMAIN new.keys = DOMAIN ks.keys \cup {k} /\ is_trusted(new.keys, k)
            /\ \A n \in DOMAIN ks.keys \ {k} :
                  is_trusted(new.keys, n) <=> ~r /\ is_trusted(ks.keys, n)
        BY <3>2, <3>3, <3>4, RotateIsKeystore
      <3>6. Content(keystore') = new
        BY <3>1, <3>4, FileFacts
      <3>7. cutOff' = IF r THEN cutOff \cup DOMAIN ks.keys ELSE cutOff
        BY <2>2 DEF Rotate
      <3>8. \A n \in DOMAIN new.keys : n \notin cutOff' => is_trusted(new.keys, n)
        BY <3>2, <3>3, <3>5, <3>7 DEF VInv, TrustKept
      <3>9. QED
        BY <3>6, <3>8 DEF TrustKept
    <2>3. CASE Issue(now) \/ Revoke \/ Export \/ TimePasses
      BY <2>3 DEF Issue, Revoke, Export, TimePasses, VInv, TrustKept
    <2>4. CASE Lose
      <3>1. keystore' \in {keystore, Torn} /\ cutOff' = cutOff
        BY <2>4 DEF Lose
      <3>2. Readable(keystore') => keystore' = keystore
        BY <3>1, FileFacts
      <3>3. QED
        BY <3>1, <3>2 DEF VInv, TrustKept
    <2>5. QED
      BY <2>1, <2>2, <2>3, <2>4 DEF Steps
  <1>4. QED
    BY <1>1, <1>2, <1>3 DEF VInv

LEMMA LicensesStay == ASSUME Steps({now}) PROVE licenses \subseteq licenses'
  BY DEF Steps, InitKeystore, Rotate, Issue, Revoke, Export, Lose, TimePasses
-----------------------------------------------------------------------------
(* The verdict *)

\* What a verification says of a license or of a damaged copy of one.
LEMMA Verdict ==
    ASSUME IInv, installed # NoRelease, NEW env \in Held
    PROVE  /\ env.payload.not_before \in Nat /\ env.payload.expires_at \in Int
           /\ verifyLicense(env) = "ok" => env \in licenses
           /\ verifyLicense(env) = "ok" <=>
                 /\ Good(env)
                 /\ now + drift >= env.payload.not_before - Skew
                 /\ now + drift <= env.payload.expires_at + Skew
  <1> DEFINE b == Content(installed.bundle)
             p == env.payload
  <1>1. PICK l \in licenses : env = l \/ env = [l EXCEPT !.intact = FALSE]
    BY DEF Held
  <1>2. l \in Envelopes
    BY <1>1 DEF IInv, AInv, AuthorityTypeOK
  <1>3. l.intact /\ l.signer = l.payload.key /\ validate_schema(l.payload)
    BY <1>1 DEF IInv, VInv, Signed
  <1>4. p = l.payload /\ env.signer = l.signer
    BY <1>1, <1>2 DEF Envelopes
  <1>5. env.intact <=> env \in licenses
    <2>1. CASE env = l
      BY <2>1, <1>1, <1>3
    <2>2. CASE env = [l EXCEPT !.intact = FALSE]
      <3>1. env.intact = FALSE
        BY <2>2, <1>2 DEF Envelopes
      <3>2. env \notin licenses
        BY <3>1 DEF IInv, VInv, Signed
      <3>3. QED
        BY <3>1, <3>2
    <2>3. QED
      BY <2>1, <2>2, <1>1
  <1>6. /\ \A k \in DOMAIN b.keys : is_trusted(b.keys, k) <=> k \notin b.cutOff
        /\ b.served \subseteq DOMAIN b.keys
        /\ l.payload.key \in DOMAIN b.keys => l.payload.key \in b.served
    BY <1>1 DEF IInv, CInv, ReleaseOK, BundleOK
  <1>7. is_trusted(b.keys, p.key) <=> p.key \in b.served \ b.cutOff
    BY <1>4, <1>6 DEF is_trusted
  <1>8. p.not_before \in Nat /\ p.expires_at \in Int
    BY <1>2, <1>4 DEF Envelopes, Payloads
  <1>9. now \in Nat /\ drift \in Int /\ Skew \in Nat
    BY LicenseAssumption DEF IInv, AInv, AuthorityTypeOK, CInv
  <1>10. verifyLicense(env) = "ok" <=>
            /\ is_trusted(b.keys, p.key) /\ env.intact
            /\ ~(now + drift < p.not_before - Skew) /\ ~(now + drift > p.expires_at + Skew)
            /\ p.bound = {} \/ Device \in p.bound
    BY <1>3, <1>4 DEF verifyLicense, verify_license
  <1>11. Good(env) <=> /\ env \in licenses /\ p.key \in b.served \ b.cutOff
                       /\ p.bound = {} \/ Device \in p.bound
    BY DEF Good
  <1> HIDE DEF b, p
  <1>12. verifyLicense(env) = "ok" <=>
            Good(env) /\ now + drift >= p.not_before - Skew /\ now + drift <= p.expires_at + Skew
    BY <1>5, <1>7, <1>8, <1>9, <1>10, <1>11
  <1>13. verifyLicense(env) = "ok" => env \in licenses
    BY <1>5, <1>10
  <1>14. QED
    BY <1>8, <1>12, <1>13 DEF p
-----------------------------------------------------------------------------
(* The client *)

\* What the step of a call does to the calls.
LEMMA WaitCalls ==
    ASSUME Calls, NEW c \in Callers, NEW env, NEW pc, NEW m,
           Wait(c, [pc |-> pc, env |-> env, mounted |-> m])
    PROVE  /\ calls' = [x \in Callers |-> calls'[x]]
           /\ \A x \in Callers : calls'[x] = [pc |-> calls'[x].pc, env |-> calls'[x].env,
                                             mounted |-> calls'[x].mounted]
           /\ calls'[c].pc = pc /\ calls'[c].env = env
           /\ \A x \in Callers \ {c} : calls'[x] = calls[x]
  <1>1. PICK call : call = [pc |-> pc, env |-> env, mounted |-> m]
    OBVIOUS
  <1>2. call.pc = pc /\ call.env = env
        /\ call = [pc |-> call.pc, env |-> call.env, mounted |-> call.mounted]
    BY <1>1
  <1>3. calls' = [calls EXCEPT ![c] = call]
    BY <1>1 DEF Wait
  <1>4. DOMAIN calls = Callers
    BY DEF Calls
  <1>5. /\ calls' = [x \in Callers |-> calls'[x]] /\ calls'[c] = call
        /\ \A x \in Callers \ {c} : calls'[x] = calls[x]
    BY <1>3, <1>4
  <1>6. \A x \in Callers : calls'[x] = [pc |-> calls'[x].pc, env |-> calls'[x].env,
                                       mounted |-> calls'[x].mounted]
    BY <1>2, <1>5 DEF Calls
  <1>7. QED
    BY <1>2, <1>5, <1>6

LEMMA EndCalls ==
    ASSUME Calls, NEW c \in Callers, NEW gate, End(c, gate)
    PROVE  /\ calls' = [x \in Callers |-> calls'[x]]
           /\ \A x \in Callers : calls'[x] = [pc |-> calls'[x].pc, env |-> calls'[x].env,
                                             mounted |-> calls'[x].mounted]
           /\ calls'[c].pc = "done"
           /\ \A x \in Callers \ {c} : calls'[x].pc = calls[x].pc /\ calls'[x].env = calls[x].env
  <1>1. PICK mid : mid = [calls EXCEPT ![c] = NoCall]
    OBVIOUS
  <1>2. DOMAIN calls = Callers
    BY DEF Calls
  <1>3. /\ DOMAIN mid = Callers /\ mid[c] = NoCall
        /\ \A x \in Callers \ {c} : mid[x] = calls[x]
    BY <1>1, <1>2
  <1>4. PICK m : m = (mid["gate"].mounted /\ gate /\ c # "gate")
    OBVIOUS
  <1>5. \A x \in Callers : mid[x] = [pc |-> mid[x].pc, env |-> mid[x].env, mounted |-> mid[x].mounted]
    BY <1>3 DEF Calls, NoCall
  <1>6. PICK pc, env, m0 : mid["gate"] = [pc |-> pc, env |-> env, mounted |-> m0]
    BY <1>5 DEF Callers
  <1>7. PICK g : g = [pc |-> pc, env |-> env, mounted |-> m]
    OBVIOUS
  <1>8. g.pc = mid["gate"].pc /\ g.env = mid["gate"].env
        /\ g = [pc |-> g.pc, env |-> g.env, mounted |-> g.mounted]
    BY <1>6, <1>7
  <1>9. [mid["gate"] EXCEPT !.mounted = m] = g
    BY <1>6, <1>7
  <1>10. calls' = [mid EXCEPT !["gate"] = g]
    <2>1. calls' = [mid EXCEPT !["gate"].mounted = @ /\ gate /\ c # "gate"]
      BY <1>1 DEF End
    <2>2. QED
      BY <2>1, <1>4, <1>9
  <1>11. /\ calls' = [x \in Callers |-> calls'[x]] /\ calls'["gate"] = g
         /\ \A x \in Callers \ {"gate"} : calls'[x] = mid[x]
    BY <1>3, <1>10 DEF Callers
  <1>12. \A x \in Callers : calls'[x] = [pc |-> calls'[x].pc, env |-> calls'[x].env,
                                        mounted |-> calls'[x].mounted]
    BY <1>5, <1>8, <1>11
  <1>13. \A x \in Callers : calls'[x].pc = mid[x].pc /\ calls'[x].env = mid[x].env
    BY <1>8, <1>11
  <1>14. QED
    BY <1>3, <1>11, <1>12, <1>13 DEF NoCall
\* What a step leaves alone of a bundle that is right is right.
LEMMA ReleasesKept == ASSUME UNCHANGED <<authorityVars, release, installed>>, CInv
                      PROVE  ReleaseOK(release)' /\ ReleaseOK(installed)'
  BY DEF CInv, ReleaseOK, BundleOK, authorityVars

\* Calls that change as little as this are still as they should be.
LEMMA CallsKept ==
    ASSUME CInv, NEW c \in Callers, installed' = installed, licenses' = licenses,
           calls' = [x \in Callers |-> calls'[x]],
           \A x \in Callers : calls'[x] = [pc |-> calls'[x].pc, env |-> calls'[x].env,
                                         mounted |-> calls'[x].mounted],
           \A x \in Callers \ {c} : calls'[x].pc = calls[x].pc /\ calls'[x].env = calls[x].env,
           \/ calls'[c].pc \in {"done", "delete"}
           \/ calls'[c].pc = "read" /\ installed # NoRelease
           \/ calls'[c].pc = "load" /\ calls'[c].env \in Held /\ installed # NoRelease
           \/ calls'[c].pc = "write" /\ calls'[c].env \in licenses
    PROVE  Calls'
  <1>1. Held' = Held
    BY DEF Held
  <1>2. \A x \in Callers : CallOK(calls[x])
    BY DEF CInv, Calls
  <1>3. \A x \in Callers \ {c} : CallOK(calls[x])'
    BY <1>1, <1>2 DEF CallOK
  <1>4. CallOK(calls[c])'
    BY <1>1 DEF CallOK
  <1>5. \A x \in Callers : CallOK(calls[x])'
    BY <1>3, <1>4
  <1>6. QED
    BY <1>5 DEF Calls

LEMMA OperatorKeeps == ASSUME IInv, Operator PROVE IInv'
  <1>1. AInv /\ VInv /\ CInv /\ Steps({now}) /\ UNCHANGED <<release, clientVars>>
    BY DEF IInv, Operator
  <1>2. AInv' /\ VInv'
    BY <1>1, OperatorIsAuthority, VaultKeeps
  <1>3. ReleaseOK(release)'
    <2>1. PICK f : f = release.bundle
      OBVIOUS
    <2>2. BundleOK(f)'
      BY <1>1, <2>1, BundleKept DEF CInv, ReleaseOK
    <2>3. release' = release
      BY <1>1
    <2>4. release = NoRelease \/ Readable(release.bundle)
      BY <1>1 DEF CInv, ReleaseOK
    <2>5. QED
      BY <2>1, <2>2, <2>3, <2>4 DEF ReleaseOK, BundleOK
  <1>4. ReleaseOK(installed)'
    <2>1. PICK f : f = installed.bundle
      OBVIOUS
    <2>2. BundleOK(f)'
      BY <1>1, <2>1, BundleKept DEF CInv, ReleaseOK
    <2>3. installed' = installed
      BY <1>1 DEF clientVars
    <2>4. installed = NoRelease \/ Readable(installed.bundle)
      BY <1>1 DEF CInv, ReleaseOK
    <2>5. QED
      BY <2>1, <2>2, <2>3, <2>4 DEF ReleaseOK, BundleOK
  <1>5. licenses \subseteq licenses'
    BY <1>1, LicensesStay
  <1>6. Held \subseteq Held'
    BY <1>5 DEF Held
  <1>7. UNCHANGED <<installed, drift, stored, calls>>
    BY <1>1 DEF clientVars
  <1>8. Calls'
    <2>1. \A c \in Callers : CallOK(calls[c])'
      BY <1>1, <1>5, <1>6, <1>7 DEF CInv, Calls, CallOK
    <2>2. QED
      BY <1>1, <1>7, <2>1 DEF CInv, Calls
  <1>9. QED
    BY <1>1, <1>2, <1>3, <1>4, <1>5, <1>7, <1>8 DEF IInv, CInv

LEMMA BuildKeeps == ASSUME IInv, BuildRelease PROVE IInv'
  <1>1. UNCHANGED <<authorityVars, clientVars>>
    BY DEF BuildRelease
  <1>2. AInv' /\ VInv'
    BY <1>1 DEF IInv, AInv, VInv, authorityVars, Files, AuthorityTypeOK, NewestIsActive,
       NothingBefore, KeyHistoryKept, CutOffStaysRetired, CutOffIsRemembered,
       Signed, TrustKept, BundleOK
  <1>3. ReleaseOK(release)'
    <2>1. Readable(exported) /\ release'.bundle = exported
      BY DEF BuildRelease
    <2>2. BundleOK(exported)
      BY DEF IInv, VInv
    <2>3. QED
      BY <1>1, <2>1, <2>2 DEF ReleaseOK, BundleOK, authorityVars
  <1>4. ReleaseOK(installed)'
    BY <1>1 DEF IInv, CInv, ReleaseOK, BundleOK, authorityVars, clientVars
  <1>5. Calls'
    BY <1>1 DEF IInv, CInv, Calls, CallOK, Held, authorityVars, clientVars
  <1>6. drift' \in (-Skew)..Skew /\ (stored' = None \/ stored' \in licenses')
    BY <1>1 DEF IInv, CInv, authorityVars, clientVars
  <1>7. QED
    BY <1>2, <1>3, <1>4, <1>5, <1>6 DEF IInv, CInv

LEMMA ClientKeeps == ASSUME IInv, Client PROVE IInv'
  <1>1. UNCHANGED <<authorityVars, release>>
    BY DEF Client
  <1>2. AInv' /\ VInv'
    BY <1>1 DEF IInv, AInv, VInv, authorityVars, Files, AuthorityTypeOK, NewestIsActive,
       NothingBefore, KeyHistoryKept, CutOffStaysRetired, CutOffIsRemembered,
       Signed, TrustKept, BundleOK
  <1>3. CInv /\ Calls /\ licenses' = licenses
    BY <1>1 DEF IInv, CInv, authorityVars
  <1>4. ASSUME UNCHANGED <<installed, drift>>, Calls', stored' = None \/ stored' \in licenses
        PROVE  CInv'
    BY <1>1, <1>3, <1>4, ReleasesKept DEF CInv
  <1>5. CASE StartApp
    <2>1. installed' \in {installed, release} /\ installed' # NoRelease /\ UNCHANGED <<drift, stored>>
      BY <1>5 DEF StartApp
    <2>2. ReleaseOK(release)' /\ ReleaseOK(installed)'
      BY <1>1, <1>3, <2>1 DEF CInv, ReleaseOK, BundleOK, authorityVars
    <2>3. calls' = [c \in Callers |-> IF c = "boot" THEN Waiting("list", None) ELSE NoCall]
      BY <1>5 DEF StartApp
    <2>4. /\ calls' = [x \in Callers |-> calls'[x]]
          /\ \A x \in Callers : calls'[x] = [pc |-> calls'[x].pc, env |-> calls'[x].env,
                                            mounted |-> calls'[x].mounted]
          /\ \A x \in Callers : calls'[x].pc \in {"list", "done"}
      BY <2>3 DEF Waiting, NoCall
    <2>5. \A x \in Callers : CallOK(calls[x])'
      BY <2>1, <2>4 DEF CallOK, NoRelease
    <2>6. Calls'
      BY <2>4, <2>5 DEF Calls
    <2>7. QED
      BY <1>2, <1>3, <2>1, <2>2, <2>6 DEF CInv, IInv
  <1>6. CASE Restored
    <2>1. UNCHANGED <<installed, drift, stored>> /\ "boot" \in Callers /\ calls["boot"].pc = "read"
      BY <1>6 DEF Restored, Callers
    <2>2. CASE stored = None
      <3>1. End("boot", TRUE)
        BY <1>6, <2>2 DEF Restored
      <3>2. Calls'
        BY <1>3, <2>1, <3>1, EndCalls, CallsKept
      <3>3. QED
        BY <1>2, <1>3, <1>4, <2>1, <3>2 DEF CInv, IInv
    <2>3. CASE stored # None
      <3>1. Wait("boot", [pc |-> "load", env |-> stored, mounted |-> TRUE])
        BY <1>6, <2>3 DEF Restored, Waiting
      <3>2. stored \in Held /\ installed # NoRelease
        BY <1>3, <2>1, <2>3 DEF CInv, Calls, CallOK, Held
      <3>3. Calls'
        BY <1>3, <2>1, <3>1, <3>2, WaitCalls, CallsKept
      <3>4. QED
        BY <1>2, <1>3, <1>4, <2>1, <3>3 DEF CInv, IInv
    <2>4. QED
      BY <2>2, <2>3
  <1>7. ASSUME NEW env \in Held, activate(env) PROVE IInv'
    <2>1. /\ UNCHANGED <<installed, drift, stored>> /\ "gate" \in Callers /\ installed # NoRelease
          /\ Wait("gate", [pc |-> "load", env |-> env, mounted |-> TRUE])
      BY <1>7 DEF activate, Callers, Waiting
    <2>2. Calls'
      BY <1>3, <2>1, WaitCalls, CallsKept
    <2>3. QED
      BY <1>2, <1>3, <1>4, <2>1, <2>2 DEF CInv, IInv
  <1>8. ASSUME NEW c \in Callers, Accept(c) PROVE IInv'
    <2>1. UNCHANGED <<installed, drift, stored>> /\ calls[c].pc = "load" /\ verifyLicense(calls[c].env) = "ok"
      BY <1>8 DEF Accept
    <2>2. installed # NoRelease /\ calls[c].env \in Held
      BY <1>3, <2>1 DEF Calls, CallOK
    <2>3. PICK env \in Held : env = calls[c].env
      BY <2>2
    <2>4. env \in licenses
      BY <2>1, <2>2, <2>3, Verdict
    <2>5. calls[c] = [pc |-> calls[c].pc, env |-> calls[c].env, mounted |-> calls[c].mounted]
      BY <1>3 DEF Calls
    <2>6. PICK m : calls[c] = [pc |-> "load", env |-> env, mounted |-> m]
      BY <2>1, <2>3, <2>5
    <2>7. PICK old : old = calls[c]
      OBVIOUS
    <2>8. [old EXCEPT !.pc = "write"] = [pc |-> "write", env |-> env, mounted |-> m]
      BY <2>6, <2>7
    <2>9. Wait(c, [pc |-> "write", env |-> env, mounted |-> m])
      BY <1>8, <2>7, <2>8 DEF Accept
    <2>10. Calls'
      BY <1>3, <2>1, <2>4, <2>9, WaitCalls, CallsKept
    <2>11. QED
      BY <1>2, <1>3, <1>4, <2>1, <2>10 DEF CInv, IInv
  <1>9. ASSUME NEW c \in Callers, Reject(c) PROVE IInv'
    <2>1. UNCHANGED <<installed, drift, stored>> /\ End(c, Routed(c, FALSE))
      BY <1>9 DEF Reject
    <2>2. Calls'
      BY <1>3, <2>1, EndCalls, CallsKept
    <2>3. QED
      BY <1>2, <1>3, <1>4, <2>1, <2>2 DEF CInv, IInv
  <1>10. ASSUME NEW c \in Callers, Written(c) PROVE IInv'
    <2>1. /\ UNCHANGED <<installed, drift>> /\ End(c, Routed(c, TRUE))
          /\ calls[c].pc = "write" /\ stored' = calls[c].env
      BY <1>10 DEF Written
    <2>2. Calls'
      BY <1>3, <2>1, EndCalls, CallsKept
    <2>3. stored' \in licenses
      BY <1>3, <2>1 DEF Calls, CallOK
    <2>4. QED
      BY <1>2, <1>3, <1>4, <2>1, <2>2, <2>3 DEF IInv
  <1>11. CASE Deactivate
    <2>1. /\ UNCHANGED <<installed, drift, stored>> /\ "settings" \in Callers
          /\ Wait("settings", [pc |-> "delete", env |-> None, mounted |-> TRUE])
      BY <1>11 DEF Deactivate, Callers, Waiting
    <2>2. Calls'
      BY <1>3, <2>1, WaitCalls, CallsKept
    <2>3. QED
      BY <1>2, <1>3, <1>4, <2>1, <2>2 DEF CInv, IInv
  <1>12. CASE Deleted
    <2>1. /\ UNCHANGED <<installed, drift>> /\ "settings" \in Callers
          /\ End("settings", TRUE) /\ stored' = None
      BY <1>12 DEF Deleted, Callers
    <2>2. Calls'
      BY <1>3, <2>1, EndCalls, CallsKept
    <2>3. QED
      BY <1>2, <1>3, <1>4, <2>1, <2>2 DEF IInv
  <1>13. CASE ListLoaded
    <2>1. /\ UNCHANGED <<installed, drift, stored>> /\ "boot" \in Callers /\ calls["boot"].pc = "list"
          /\ Wait("boot", [pc |-> "read", env |-> None, mounted |-> TRUE])
      BY <1>13 DEF ListLoaded, Callers, Waiting
    <2>2. installed # NoRelease
      BY <1>3, <2>1 DEF Calls, CallOK
    <2>3. Calls'
      BY <1>3, <2>1, <2>2, WaitCalls, CallsKept
    <2>4. QED
      BY <1>2, <1>3, <1>4, <2>1, <2>3 DEF CInv, IInv
  <1>14. QED
    BY <1>5, <1>6, <1>7, <1>8, <1>9, <1>10, <1>11, <1>12, <1>13 DEF Client
-----------------------------------------------------------------------------
LEMMA IInvInit == ASSUME Init PROVE IInv
  <1>1. AInv
    BY AInvInit DEF Init
  <1>2. /\ exported = Absent /\ licenses = {} /\ ~Readable(exported) /\ ~Readable(keystore)
        /\ ~Readable(NoRelease.bundle)
    BY FileFacts DEF Init, AuthorityInit, NoRelease
  <1>3. VInv
    BY <1>2 DEF VInv, Signed, TrustKept, BundleOK
  <1>4. ReleaseOK(release) /\ ReleaseOK(installed)
    BY <1>2 DEF Init, ReleaseOK, BundleOK
  <1>5. Calls
    BY DEF Init, Calls, CallOK, NoCall
  <1>6. QED
    BY <1>1, <1>3, <1>4, <1>5, SystemAssumption DEF IInv, CInv, Init

LEMMA IInvNext == IInv /\ [Next]_vars => IInv'
  <1> SUFFICES ASSUME IInv, [Next]_vars PROVE IInv'
    OBVIOUS
  <1>1. CASE Next
    BY <1>1, OperatorKeeps, BuildKeeps, ClientKeeps DEF Next
  <1>2. CASE UNCHANGED vars
    BY <1>2 DEF vars, clientVars, authorityVars, IInv, AInv, VInv, CInv, Files, AuthorityTypeOK,
       NewestIsActive, NothingBefore, KeyHistoryKept, CutOffStaysRetired, CutOffIsRemembered,
       Signed, TrustKept, BundleOK, ReleaseOK, Calls, CallOK, Held
  <1>3. QED
    BY <1>1, <1>2

\* The invariant the theorems below rest on: bundles that were exported stay right, and
\* the device holds licenses as they were issued or damaged copies of them.
THEOREM Invariant == Spec => []IInv
  <1>1. Init => IInv
    BY IInvInit
  <1>2. QED
    BY <1>1, IInvNext, PTL DEF Spec

\* A device whose clock is within the skew accepts every license that is good with its
\* release, in its days, and no other: license_controller.dart's verify over any history
\* of rotations, exports and releases.
THEOREM VerdictsAreDue == Spec => VerdictIsDue
  <1> DEFINE A == \A c \in Callers :
          /\ Reject(c) => ~(Good(calls[c].env) /\ Covered(calls[c].env, 0))
          /\ Accept(c) => Good(calls[c].env) /\ Covered(calls[c].env, 2 * Skew)
  <1>1. ASSUME IInv, NEW c \in Callers, calls[c].pc = "load"
        PROVE  /\ Good(calls[c].env) /\ Covered(calls[c].env, 0) => verifyLicense(calls[c].env) = "ok"
               /\ verifyLicense(calls[c].env) = "ok" =>
                     Good(calls[c].env) /\ Covered(calls[c].env, 2 * Skew)
    <2>1. installed # NoRelease /\ calls[c].env \in Held
      BY <1>1 DEF IInv, CInv, Calls, CallOK
    <2>2. PICK env \in Held : env = calls[c].env
      BY <2>1
    <2>3. now \in Int /\ Skew \in Nat /\ drift \in Int /\ -Skew <= drift /\ drift <= Skew
      BY <1>1, LicenseAssumption DEF IInv, CInv, AInv, AuthorityTypeOK
    <2>4. Good(env) /\ Covered(env, 0) => verifyLicense(env) = "ok"
      BY <1>1, <2>1, <2>3, Verdict DEF Covered
    <2>5. verifyLicense(env) = "ok" => Good(env) /\ Covered(env, 2 * Skew)
      BY <1>1, <2>1, <2>3, Verdict DEF Covered
    <2>6. QED
      BY <2>2, <2>4, <2>5
  <1>2. IInv => A
    BY <1>1 DEF Reject, Accept
  <1>3. IInv /\ [Next]_vars => [A]_vars
    BY <1>2
  <1>4. QED
    BY <1>3, Invariant, PTL DEF Spec, VerdictIsDue

\* Home is reached only with the license that opens it in the storage, however the
\* calls of the boot, the gate and the settings overlap.
THEOREM HomeIsLicensed == Spec => HomeHasLicense
  <1> DEFINE A == gateRoute /\ ~gateRoute' => stored' \in licenses
  <1>1. ASSUME IInv, Next, gateRoute, ~gateRoute' PROVE stored' \in licenses
    <2>1. \E c \in Callers : Written(c)
      <3>1. ~Operator /\ ~BuildRelease
        BY <1>1 DEF Operator, BuildRelease, clientVars
      <3>2. ~StartApp /\ ~Deactivate /\ ~Deleted
        BY <1>1 DEF StartApp, Deactivate, Deleted, End, Wait
      <3>3. ~Restored /\ ~ListLoaded
        BY <1>1 DEF Restored, ListLoaded, End, Wait
      <3>4. \A c \in Callers : ~Accept(c) /\ \A env \in Held : ~activate(env)
        BY <1>1 DEF Accept, activate, Wait
      <3>5. \A c \in Callers : ~Reject(c)
        <4>1. ASSUME NEW c \in Callers, Reject(c) PROVE FALSE
          <5>1. gateRoute' = Routed(c, FALSE)
            BY <4>1 DEF Reject, End
          <5>2. Routed(c, FALSE)
            BY <1>1, Zenon DEF Routed
          <5>3. QED
            BY <1>1, <5>1, <5>2, Zenon
        <4>2. QED
          BY <4>1
      <3>6. QED
        BY <1>1, <3>1, <3>2, <3>3, <3>4, <3>5 DEF Next, Client, Callers
    <2>2. QED
      BY <1>1, <2>1 DEF IInv, CInv, Calls, CallOK, Written
  <1>2. IInv /\ [Next]_vars => [A]_vars
    BY <1>1
  <1>3. QED
    BY <1>2, Invariant, PTL DEF Spec, HomeHasLicense
=============================================================================

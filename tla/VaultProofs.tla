----------------------------- MODULE VaultProofs -----------------------------
(***************************************************************************)
(* Theorems about Vault for one operator at one terminal, for any number of  *)
(* keys, licenses, log entries and days: the vault implements Authority, the *)
(* log never forks, and what it says was done was done.                      *)
(*                                                                         *)
(* The argument follows the command at the terminal: what it will write was  *)
(* computed from files that nobody has changed since.                        *)
(***************************************************************************)
EXTENDS Vault, AuthorityProofs, FiniteSetTheorems

\* One terminal.
Op    == CHOOSE t \in Terminals : TRUE
Alone == Terminals = {Op}
cmd   == cmds[Op]

\* The files as Authority sees them.
mk == IF cmd.pc = "write" /\ cmd.file = "keystore" THEN Holds(cmd.content) ELSE keystore
mr == IF cmd.pc = "write" /\ cmd.file = "revoked" THEN Holds(cmd.content) ELSE revoked
mx == IF cmd.pc = "write" /\ cmd.file = "bundle" THEN Holds(cmd.content) ELSE exported

KeyAction(a) == a \in {"INIT_KEYSTORE", "ROTATE", "ROTATE_HARD"}

\* Types, for the one command.
TInv ==
    /\ AuthorityTypeOK
    /\ audit = [entries |-> audit.entries, end |-> audit.end]
    /\ audit.entries \in Seq(Entries) /\ audit.end \in {"newline", "open", "torn"}
    /\ generated \in 0..MaxKeys /\ forgotten \subseteq Ids
    /\ cmd.pc # "idle" /\ cmd.file # "bundle" =>
          cmd.action \in Actions /\ cmd.detail \in Ids \cup Keys /\ cmd.last \in Nat
    /\ cmd.file = "keystore" => IsKeystore(cmd.content)
    /\ cmd.file = "revoked" => cmd.content \subseteq Ids
    /\ cmd.file = "license" => cmd.content \in Envelopes
    /\ cmd.file = "bundle" => \A k \in DOMAIN cmd.content.keys :
                                 k \in Keys /\ cmd.content.keys[k] \in Statuses
    /\ IsFiniteSet(licenses)

\* What a command that is about to truncate or to write its file has in hand.
Creates ==
    /\ cmd.file = "keystore" /\ cmd.action = "INIT_KEYSTORE" /\ cmd.detail = generated
    /\ generated \in 1..MaxKeys /\ cmd.content = generate(generated)
    /\ keystore = IF cmd.pc = "truncate" THEN Absent ELSE Torn
Rotates(r) ==
    /\ cmd.file = "keystore" /\ cmd.action = (IF r THEN "ROTATE_HARD" ELSE "ROTATE")
    /\ cmd.detail = generated
    /\ IF cmd.pc = "truncate"
       THEN /\ Readable(keystore) /\ cmd.content = rotate(Content(keystore), generated, r)
            /\ \A k \in DOMAIN Content(keystore).keys : k < generated
       ELSE keystore = Torn
Issues ==
    /\ cmd.file = "license" /\ cmd.action = "ISSUE"
    /\ Readable(keystore) /\ Cardinality(licenses) < MaxLicenses
    /\ \E id \in Ids, days \in Days, bound \in SUBSET Hwids, since \in 0..now :
          LET p == [id |-> id, key |-> Content(keystore).active, not_before |-> since,
                    expires_at |-> since + days, bound |-> bound]
          IN  /\ validate_schema(p) /\ cmd.content = issue_license(Content(keystore), p)
              /\ cmd.detail = id
Revokes ==
    /\ cmd.file = "revoked" /\ cmd.action = "REVOKE"
    /\ IF cmd.pc = "truncate"
       THEN cmd.detail \in Ids /\ cmd.content = Listed(revoked) \cup {cmd.detail}
       ELSE revoked = Torn
Exports ==
    /\ cmd.file = "bundle" /\ cmd.action = "none" /\ Readable(keystore) /\ cmd.content = Bundle
    /\ cmd.pc = "write" => exported = Torn
InHand == Creates \/ (\E r \in BOOLEAN : Rotates(r)) \/ Issues \/ Revokes \/ Exports

CmdOK ==
    /\ DOMAIN cmds = Terminals
    /\ cmd = [pc |-> cmd.pc, file |-> cmd.file, content |-> cmd.content,
              action |-> cmd.action, detail |-> cmd.detail, last |-> cmd.last]
    /\ cmd.pc \in {"idle", "truncate", "write", "open", "append", "newline"}
    /\ cmd.pc \in {"truncate", "write"} => InHand
    /\ cmd.pc \in {"open", "append", "newline"} => cmd.file # "bundle"

\* The command has changed what it was to change, and has not logged it.
Effected == cmd.pc \in {"write", "open", "append"}

\* The keys from before this one are retired.
RetiredBefore(ks, d) == \A k \in DOMAIN ks.keys : k < d => ks.keys[k] = "Retired"

\* The keystore, as it is or is about to be, remembers its keys.
Remembers(ks) ==
    /\ IsKeystore(ks) /\ ks.active \in DOMAIN ks.keys /\ is_trusted(ks.keys, ks.active)
    /\ \A k \in DOMAIN ks.keys : k <= generated
    /\ cutOff \subseteq DOMAIN ks.keys /\ \A k \in cutOff : ~is_trusted(ks.keys, k)
    /\ \A l \in licenses : l.payload.key \in DOMAIN ks.keys
    /\ \A i \in DOMAIN audit.entries :
          KeyAction(audit.entries[i].action) => audit.entries[i].detail \in DOMAIN ks.keys
    /\ Effected /\ KeyAction(cmd.action) => cmd.detail \in DOMAIN ks.keys
    /\ \A i \in DOMAIN audit.entries :
          audit.entries[i].action = "ROTATE_HARD" => RetiredBefore(ks, audit.entries[i].detail)
    /\ Effected /\ cmd.action = "ROTATE_HARD" => RetiredBefore(ks, cmd.detail)
Nothing ==
    /\ licenses = {} /\ cutOff = {}
    /\ \A i \in DOMAIN audit.entries : ~KeyAction(audit.entries[i].action)
    /\ Effected => ~KeyAction(cmd.action)
KsOK == (Readable(mk) => Remembers(Content(mk))) /\ (mk = Absent => Nothing)

\* The ids on the revocation list, as it is or is about to be, or on one that was torn.
Known == Listed(mr) \cup forgotten

\* The log.
LogOK ==
    /\ Chained(audit.entries)
    /\ \A i \in DOMAIN audit.entries : audit.entries[i].hash = i
    /\ cmd.pc = "append" => cmd.last = LastHash(audit.entries)
    /\ \A i \in DOMAIN audit.entries : audit.entries[i].action = "ISSUE" =>
          \E l \in licenses : l.payload.id = audit.entries[i].detail
    /\ cmd.pc \in {"open", "append"} /\ cmd.action = "ISSUE" =>
          \E l \in licenses : l.payload.id = cmd.detail
    /\ \A i \in DOMAIN audit.entries :
          audit.entries[i].action = "REVOKE" => audit.entries[i].detail \in Known
    /\ Effected /\ cmd.action = "REVOKE" => cmd.detail \in Known

VaultInv == TInv /\ CmdOK /\ KsOK /\ LogOK
-----------------------------------------------------------------------------
LEMMA Facts == ASSUME Alone PROVE
    /\ Op \in Terminals
    /\ \A t \in Terminals : t = Op
    /\ Idle.pc = "idle"
  BY DEF Alone, Idle

\* The mapping's CHOOSE picks the one command.
LEMMA MappingIs == ASSUME Alone PROVE
    /\ Replaced(keystore, "keystore") = mk /\ Replaced(keystore, "keystore")' = mk'
    /\ Replaced(revoked, "revoked") = mr /\ Replaced(revoked, "revoked")' = mr'
    /\ Replaced(exported, "bundle") = mx /\ Replaced(exported, "bundle")' = mx'
  BY Facts DEF Replaced, Replacing, At, mk, mr, mx, cmd

\* The command goes on, or ends.
LEMMA GotoIs ==
    ASSUME Alone, CmdOK, NEW pc, Goto(Op, pc)
    PROVE  /\ DOMAIN cmds' = Terminals
           /\ cmd' = [pc |-> pc, file |-> cmd.file, content |-> cmd.content,
                      action |-> cmd.action, detail |-> cmd.detail, last |-> cmd.last]
  <1>1. PICK f, x, a, d, l, old : /\ cmd = [pc |-> old, file |-> f, content |-> x,
                                            action |-> a, detail |-> d, last |-> l]
    BY DEF CmdOK
  <1>2. PICK c : c = [pc |-> pc, file |-> f, content |-> x, action |-> a, detail |-> d, last |-> l]
    OBVIOUS
  <1>3. [cmd EXCEPT !.pc = pc] = c
    BY <1>1, <1>2
  <1>4. cmds' = [cmds EXCEPT ![Op] = c]
    <2>1. cmds' = [cmds EXCEPT ![Op] = [cmd EXCEPT !.pc = pc]]
      BY DEF Goto, cmd
    <2>2. QED
      BY <2>1, <1>3
  <1>5. DOMAIN cmds' = Terminals /\ cmds'[Op] = c
    BY <1>4, Facts DEF CmdOK
  <1>6. cmd.file = f /\ cmd.content = x /\ cmd.action = a /\ cmd.detail = d /\ cmd.last = l
    BY <1>1
  <1>7. QED
    BY <1>2, <1>5, <1>6 DEF cmd

LEMMA ExitIs == ASSUME Alone, CmdOK, Exit(Op) PROVE DOMAIN cmds' = Terminals /\ cmd' = Idle
  BY Facts DEF Exit, CmdOK, cmd

LEMMA TypesFollow == ASSUME Alone, TInv, CmdOK PROVE TypeOK
  BY Facts DEF TInv, CmdOK, TypeOK, cmd
-----------------------------------------------------------------------------
(* The first step of a command *)

\* A command has begun: what it will write has its type and was computed from the files.
LEMMA Begun ==
    ASSUME Alone, VaultInv, NEW f, NEW x, NEW a, NEW d,
           Begin(Op, Running(f, x, a, d)),
           generated' \in 0..MaxKeys, generated' >= generated,
           f # "bundle" => a \in Actions /\ d \in Ids \cup Keys,
           f = "keystore" => IsKeystore(x),
           f = "revoked" => x \subseteq Ids,
           f = "license" => x \in Envelopes,
           f = "bundle" => \A k \in DOMAIN x.keys : k \in Keys /\ x.keys[k] \in Statuses,
           cmd' = Running(f, x, a, d) => InHand'
    PROVE  VaultInv'
  <1>1. PICK c : c = Running(f, x, a, d)
    OBVIOUS
  <1>2. /\ c.pc = "truncate" /\ c.file = f /\ c.content = x
        /\ c.action = a /\ c.detail = d /\ c.last = 0
        /\ c = [pc |-> c.pc, file |-> c.file, content |-> c.content,
                action |-> c.action, detail |-> c.detail, last |-> c.last]
    BY <1>1 DEF Running
  <1>3. cmds[Op] = Idle /\ cmds' = [cmds EXCEPT ![Op] = c] /\ UNCHANGED <<authorityVars, audit, forgotten>>
    BY <1>1 DEF Begin
  <1>4. DOMAIN cmds' = Terminals /\ cmd' = c /\ cmd.pc = "idle"
    BY <1>3, Facts DEF VaultInv, CmdOK, cmd
  <1>5. UNCHANGED <<keystore, revoked, exported, licenses, now, cutOff, audit, forgotten>>
    BY <1>3 DEF authorityVars
  <1>6. TInv'
    <2>1. AuthorityTypeOK' /\ IsFiniteSet(licenses)'
      BY <1>5 DEF VaultInv, TInv, AuthorityTypeOK
    <2>2. QED
      BY <1>2, <1>4, <1>5, <2>1 DEF VaultInv, TInv
  <1>7. CmdOK'
    <2>1. InHand'
      BY <1>1, <1>4
    <2>2. QED
      BY <1>2, <1>4, <2>1 DEF CmdOK
  <1>8. mk' = keystore /\ mk = keystore /\ Known' = Known /\ ~Effected'
    BY <1>2, <1>4, <1>5 DEF mk, mr, Known, Effected
  <1>9. KsOK'
    <2>1. ASSUME Readable(mk)' PROVE Remembers(Content(mk))'
      <3>1. PICK ks : ks = Content(keystore)
        OBVIOUS
      <3>2. Remembers(ks)
        BY <1>5, <1>8, <2>1, <3>1 DEF VaultInv, KsOK
      <3>3. \A k \in DOMAIN ks.keys : k \in Nat
        BY <3>2 DEF Remembers, IsKeystore, Keys
      <3>4. \A k \in DOMAIN ks.keys : k <= generated'
        BY <3>2, <3>3, AuthorityAssumption DEF Remembers, VaultInv, TInv
      <3>5. Remembers(ks)'
        BY <1>5, <1>8, <3>2, <3>4 DEF Remembers
      <3>6. QED
        BY <1>8, <3>1, <3>5, <1>5 DEF Remembers
    <2>2. (mk = Absent => Nothing)'
      BY <1>5, <1>8 DEF VaultInv, KsOK, Nothing
    <2>3. QED
      BY <2>1, <2>2 DEF KsOK
  <1>10. LogOK'
    BY <1>2, <1>4, <1>5, <1>8 DEF VaultInv, LogOK
  <1>11. QED
    BY <1>6, <1>7, <1>9, <1>10 DEF VaultInv

LEMMA InitBegins == ASSUME Alone, VaultInv, init_keystore(Op) PROVE VaultInv'
  <1>1. /\ keystore = Absent /\ generated < MaxKeys /\ generated' = generated + 1
        /\ Begin(Op, Running("keystore", generate(generated'), "INIT_KEYSTORE", generated'))
    BY DEF init_keystore, NewKey
  <1>2. generated \in Nat /\ generated' \in 1..MaxKeys /\ generated' >= generated
    BY <1>1, AuthorityAssumption DEF VaultInv, TInv
  <1>3. PICK k \in 1..MaxKeys : k = generated'
    BY <1>2
  <1>4. k \in Nat /\ IsKeystore(generate(k))
    BY GenerateIsKeystore, AuthorityAssumption
  <1>5. PICK x : x = generate(k)
    OBVIOUS
  <1>6. Begin(Op, Running("keystore", x, "INIT_KEYSTORE", k))
    BY <1>1, <1>3, <1>5
  <1>7. ASSUME cmd' = Running("keystore", x, "INIT_KEYSTORE", k) PROVE Creates'
    <2>1. keystore' = Absent
      BY <1>1 DEF Begin, authorityVars
    <2>2. /\ cmd'.pc = "truncate" /\ cmd'.file = "keystore" /\ cmd'.content = x
          /\ cmd'.action = "INIT_KEYSTORE" /\ cmd'.detail = k
      BY <1>7 DEF Running
    <2>3. QED
      BY <1>3, <1>5, <2>1, <2>2 DEF Creates
  <1>8. "INIT_KEYSTORE" \in Actions /\ k \in Ids \cup Keys
    BY <1>4 DEF Actions, Keys
  <1>9. generated' \in 0..MaxKeys
    BY <1>2
  <1>10. cmd' = Running("keystore", x, "INIT_KEYSTORE", k) => InHand'
    BY <1>7 DEF InHand
  <1>11. QED
    BY <1>2, <1>4, <1>5, <1>6, <1>8, <1>9, <1>10, Begun

LEMMA RotateBegins ==
    ASSUME Alone, VaultInv, NEW r \in BOOLEAN, rotate_keystore(Op, r) PROVE VaultInv'
  <1>1. /\ Readable(keystore) /\ generated < MaxKeys /\ generated' = generated + 1
        /\ Begin(Op, Running("keystore", rotate(Content(keystore), generated', r),
                             IF r THEN "ROTATE_HARD" ELSE "ROTATE", generated'))
    BY DEF rotate_keystore, NewKey
  <1>2. generated \in Nat /\ generated' \in 1..MaxKeys /\ generated' >= generated
    BY <1>1, AuthorityAssumption DEF VaultInv, TInv
  <1>3. PICK k \in 1..MaxKeys : k = generated'
    BY <1>2
  <1>4. k \in Nat /\ k = generated + 1
    BY <1>1, <1>3, AuthorityAssumption
  <1>5. PICK ks : ks = Content(keystore)
    OBVIOUS
  <1>6. PICK x : x = rotate(ks, k, r)
    OBVIOUS
  <1>7. PICK a : a = IF r THEN "ROTATE_HARD" ELSE "ROTATE"
    OBVIOUS
  <1>8. cmd.pc = "idle"
    BY <1>1, Facts DEF Begin, cmd
  <1>9. IsKeystore(ks) /\ \A n \in DOMAIN ks.keys : n \in Nat /\ n <= generated
    <2>1. Remembers(ks)
      BY <1>1, <1>5, <1>8 DEF VaultInv, KsOK, mk
    <2>2. QED
      BY <2>1 DEF Remembers, IsKeystore, Keys
  <1>10. IsKeystore(x)
    BY <1>4, <1>6, <1>9, RotateIsKeystore
  <1>11. Begin(Op, Running("keystore", x, a, k))
    BY <1>1, <1>3, <1>5, <1>6, <1>7
  <1>12. ASSUME cmd' = Running("keystore", x, a, k) PROVE Rotates(r)'
    <2>1. keystore' = keystore
      BY <1>1 DEF Begin, authorityVars
    <2>2. /\ cmd'.pc = "truncate" /\ cmd'.file = "keystore" /\ cmd'.content = x
          /\ cmd'.action = a /\ cmd'.detail = k
      BY <1>12 DEF Running
    <2>3. \A n \in DOMAIN ks.keys : n < k
      BY <1>2, <1>4, <1>9
    <2>4. QED
      BY <1>1, <1>3, <1>5, <1>6, <1>7, <2>1, <2>2, <2>3 DEF Rotates
  <1>13. cmd' = Running("keystore", x, a, k) => InHand'
    BY <1>12 DEF InHand
  <1>14. a \in Actions /\ k \in Ids \cup Keys
    BY <1>4, <1>7 DEF Actions, Keys
  <1>15. generated' \in 0..MaxKeys
    BY <1>2
  <1>16. QED
    BY <1>2, <1>10, <1>11, <1>13, <1>14, <1>15, Begun

LEMMA IssueBegins == ASSUME Alone, VaultInv, issue(Op) PROVE VaultInv'
  <1>1. PICK id \in Ids, days \in Days, bound \in SUBSET Hwids :
           LET p == [id |-> id, key |-> Content(keystore).active, not_before |-> now,
                     expires_at |-> now + days, bound |-> bound]
           IN  /\ validate_schema(p)
               /\ Begin(Op, Running("license", issue_license(Content(keystore), p), "ISSUE", id))
    BY DEF issue
  <1>2. PICK ks : ks = Content(keystore)
    OBVIOUS
  <1>3. PICK p : p = [id |-> id, key |-> ks.active, not_before |-> now,
                      expires_at |-> now + days, bound |-> bound]
    OBVIOUS
  <1>4. PICK x : x = issue_license(ks, p)
    OBVIOUS
  <1>5. validate_schema(p) /\ Begin(Op, Running("license", x, "ISSUE", id))
    BY <1>1, <1>2, <1>3, <1>4
  <1>6. Readable(keystore) /\ Cardinality(licenses) < MaxLicenses /\ generated' = generated
    BY DEF issue
  <1>7. now \in Nat /\ generated \in 0..MaxKeys
    BY DEF VaultInv, TInv, AuthorityTypeOK
  <1>8. ks.active \in Keys
    BY <1>2, <1>6 DEF VaultInv, TInv, AuthorityTypeOK, IsKeystore
  <1>9. p \in Payloads
    <2>1. days \in Int
      BY AuthorityAssumption
    <2>2. QED
      BY <1>3, <1>7, <1>8, <2>1 DEF Payloads
  <1>10. x \in Envelopes
    BY <1>4, <1>8, <1>9 DEF issue_license, Envelopes
  <1>11. ASSUME cmd' = Running("license", x, "ISSUE", id) PROVE Issues'
    <2>1. UNCHANGED <<keystore, licenses, now>>
      BY <1>5 DEF Begin, authorityVars
    <2>2. /\ cmd'.pc = "truncate" /\ cmd'.file = "license" /\ cmd'.content = x
          /\ cmd'.action = "ISSUE" /\ cmd'.detail = id
      BY <1>11 DEF Running
    <2>3. now \in 0..now'
      BY <1>7, <2>1
    <2>4. QED
      BY <1>2, <1>3, <1>4, <1>5, <1>6, <2>1, <2>2, <2>3 DEF Issues
  <1>12. "ISSUE" \in Actions /\ id \in Ids \cup Keys
    BY DEF Actions
  <1>13. generated' \in 0..MaxKeys /\ generated' >= generated
    BY <1>6, <1>7
  <1>14. cmd' = Running("license", x, "ISSUE", id) => InHand'
    BY <1>11 DEF InHand
  <1>15. QED
    BY <1>5, <1>10, <1>12, <1>13, <1>14, Begun

LEMMA RevokeBegins == ASSUME Alone, VaultInv, revoke(Op) PROVE VaultInv'
  <1>1. generated' = generated /\ generated \in 0..MaxKeys
    BY DEF revoke, VaultInv, TInv
  <1>2. PICK id \in Ids : Begin(Op, Running("revoked", Listed(revoked) \cup {id}, "REVOKE", id))
    BY DEF revoke
  <1>3. PICK x : x = Listed(revoked) \cup {id}
    OBVIOUS
  <1>4. Begin(Op, Running("revoked", x, "REVOKE", id)) /\ revoked' = revoked
    BY <1>2, <1>3 DEF Begin, authorityVars
  <1>5. x \subseteq Ids
    BY <1>3 DEF VaultInv, TInv, AuthorityTypeOK, Listed
  <1>6. ASSUME cmd' = Running("revoked", x, "REVOKE", id) PROVE Revokes'
    <2>1. /\ cmd'.pc = "truncate" /\ cmd'.file = "revoked" /\ cmd'.content = x
          /\ cmd'.action = "REVOKE" /\ cmd'.detail = id
      BY <1>6 DEF Running
    <2>2. QED
      BY <1>3, <1>4, <2>1 DEF Revokes
  <1>7. "REVOKE" \in Actions /\ id \in Ids \cup Keys
    BY DEF Actions
  <1>8. generated' \in 0..MaxKeys /\ generated' >= generated
    BY <1>1
  <1>9. cmd' = Running("revoked", x, "REVOKE", id) => InHand'
    BY <1>6 DEF InHand
  <1>10. QED
    BY <1>4, <1>5, <1>7, <1>8, <1>9, Begun

\* The bundle depends on these alone.
LEMMA BundleKept == ASSUME UNCHANGED <<keystore, licenses, cutOff>> PROVE Bundle' = Bundle
  BY DEF Bundle

LEMMA ExportBegins == ASSUME Alone, VaultInv, export_public(Op) PROVE VaultInv'
  <1>1. generated' = generated /\ generated \in 0..MaxKeys
    BY DEF export_public, VaultInv, TInv
  <1>2. PICK x : x = Bundle
    OBVIOUS
  <1>3. Readable(keystore) /\ Begin(Op, Running("bundle", x, "none", 0))
    BY <1>2 DEF export_public
  <1>4. UNCHANGED <<keystore, licenses, cutOff>>
    BY <1>3 DEF Begin, authorityVars
  <1>5. ASSUME cmd' = Running("bundle", x, "none", 0) PROVE Exports'
    <2>1. /\ cmd'.pc = "truncate" /\ cmd'.file = "bundle" /\ cmd'.content = x
          /\ cmd'.action = "none"
      BY <1>5 DEF Running
    <2>2. Bundle' = x
      BY <1>2, <1>4, BundleKept
    <2>3. QED
      BY <1>3, <1>4, <2>1, <2>2 DEF Exports
  <1>6. cmd' = Running("bundle", x, "none", 0) => InHand'
    BY <1>5 DEF InHand
  <1>7. IsKeystore(Content(keystore))
    BY <1>3 DEF VaultInv, TInv, AuthorityTypeOK
  <1>8. x.keys = Content(keystore).keys
    BY <1>2 DEF Bundle, from_keystore
  <1>9. \A k \in DOMAIN x.keys : k \in Keys /\ x.keys[k] \in Statuses
    BY <1>7, <1>8 DEF IsKeystore
  <1>10. generated' \in 0..MaxKeys /\ generated' >= generated
    BY <1>1
  <1>11. QED
    BY <1>3, <1>6, <1>9, <1>10, Begun
-----------------------------------------------------------------------------
(* The other steps *)

\* What stays of the keystore and of the log when a step changes this little.
LEMMA KsKept ==
    ASSUME KsOK, UNCHANGED <<cutOff, licenses, generated>>, audit'.entries = audit.entries,
           mk' = mk \/ mk' = Torn,
           Effected' /\ KeyAction(cmd'.action) =>
               Effected /\ cmd'.action = cmd.action /\ cmd'.detail = cmd.detail
    PROVE  KsOK'
  <1>1. CASE mk' = Torn
    BY <1>1, FileFacts DEF KsOK
  <1>2. CASE mk' = mk
    <2>1. ASSUME NEW ks, Remembers(ks) PROVE Remembers(ks)'
      BY <2>1 DEF Remembers, KeyAction
    <2>2. Nothing => Nothing'
      BY DEF Nothing
    <2>3. ASSUME Readable(mk)' PROVE Remembers(Content(mk))'
      <3>1. PICK ks : ks = Content(mk)
        OBVIOUS
      <3>2. Remembers(ks)'
        BY <1>2, <2>1, <2>3, <3>1 DEF KsOK
      <3>3. QED
        BY <1>2, <3>1, <3>2 DEF Remembers
    <2>4. QED
      BY <1>2, <2>2, <2>3 DEF KsOK
  <1>3. QED
    BY <1>1, <1>2

LEMMA LogKept ==
    ASSUME LogOK, licenses \subseteq licenses', Known \subseteq Known',
           audit'.entries = audit.entries,
           Effected' /\ cmd'.action = "REVOKE" => cmd'.detail \in Known',
           cmd'.pc = "append" => cmd'.last = LastHash(audit.entries),
           cmd'.pc \in {"open", "append"} /\ cmd'.action = "ISSUE" =>
               \E l \in licenses' : l.payload.id = cmd'.detail
    PROVE  LogOK'
  <1>1. Chained(audit.entries)'
    BY DEF LogOK, Chained
  <1>2. cmd'.pc = "append" => cmd'.last = LastHash(audit'.entries)
    OBVIOUS
  <1>3. QED
    BY <1>1, <1>2 DEF LogOK

\* A step that changes neither of the first two files, no license, no entry and no key:
\* the command goes on after its write, or ends.
LEMMA Aftermath ==
    ASSUME Alone, VaultInv, UNCHANGED <<keystore, revoked, licenses, now, cutOff, generated>>,
           Readable(exported)' => \A k \in DOMAIN Content(exported').keys :
                                     k \in Keys /\ Content(exported').keys[k] \in Statuses,
           forgotten' \subseteq Ids, Known \subseteq Listed(revoked) \cup forgotten',
           audit'.entries = audit.entries,
           audit' = [entries |-> audit'.entries, end |-> audit'.end],
           audit'.end \in {"newline", "open", "torn"},
           DOMAIN cmds' = Terminals,
           \/ cmd' = Idle
           \/ \E last \in Nat :
                /\ cmd' = [pc |-> "append", file |-> cmd.file, content |-> cmd.content,
                           action |-> cmd.action, detail |-> cmd.detail, last |-> last]
                /\ cmd.pc = "open" /\ last = LastHash(audit.entries)
    PROVE  VaultInv'
  <1>2. /\ cmd' = [pc |-> cmd'.pc, file |-> cmd'.file, content |-> cmd'.content,
                   action |-> cmd'.action, detail |-> cmd'.detail, last |-> cmd'.last]
        /\ \/ cmd'.pc = "idle" /\ cmd'.file = "none"
           \/ /\ cmd'.pc = "append" /\ cmd.pc = "open" /\ cmd'.last \in Nat
              /\ cmd'.last = LastHash(audit.entries)
              /\ cmd'.file = cmd.file /\ cmd'.content = cmd.content
              /\ cmd'.action = cmd.action /\ cmd'.detail = cmd.detail
    <2>1. CASE cmd' = Idle
      BY <2>1 DEF Idle
    <2>2. ASSUME NEW last \in Nat,
                 cmd' = [pc |-> "append", file |-> cmd.file, content |-> cmd.content,
                         action |-> cmd.action, detail |-> cmd.detail, last |-> last],
                 cmd.pc = "open", last = LastHash(audit.entries)
          PROVE  <1>2!1 /\ <1>2!2
      <3>1. PICK f, x, a, d : f = cmd.file /\ x = cmd.content /\ a = cmd.action /\ d = cmd.detail
        OBVIOUS
      <3>2. cmd' = [pc |-> "append", file |-> f, content |-> x, action |-> a, detail |-> d, last |-> last]
        BY <2>2, <3>1
      <3>3. /\ cmd'.pc = "append" /\ cmd'.file = f /\ cmd'.content = x
            /\ cmd'.action = a /\ cmd'.detail = d /\ cmd'.last = last
        BY <3>2
      <3>4. cmd' = [pc |-> cmd'.pc, file |-> cmd'.file, content |-> cmd'.content,
                    action |-> cmd'.action, detail |-> cmd'.detail, last |-> cmd'.last]
        BY <3>2, <3>3
      <3>5. QED
        BY <2>2, <3>1, <3>3, <3>4
    <2>3. QED
      BY <2>1, <2>2
  <1>3. TInv'
    <2>1. AuthorityTypeOK' /\ IsFiniteSet(licenses')
      BY DEF VaultInv, TInv, AuthorityTypeOK
    <2>2. audit'.entries \in Seq(Entries)
      BY DEF VaultInv, TInv
    <2>3. generated' \in 0..MaxKeys
      BY DEF VaultInv, TInv
    <2>4. QED
      BY <1>2, <2>1, <2>2, <2>3 DEF VaultInv, TInv
  <1>4. CmdOK'
    BY <1>2 DEF VaultInv, CmdOK
  <1>5. mk' = keystore /\ (mk = keystore \/ keystore = Torn) /\ Known \subseteq Known'
    <2>1. mk' = keystore /\ Known' = Listed(revoked) \cup forgotten'
      BY <1>2 DEF mk, mr, Known
    <2>2. mk = keystore \/ keystore = Torn
      BY DEF VaultInv, CmdOK, InHand, Creates, Rotates, Issues, Revokes, Exports, mk
    <2>3. QED
      BY <2>1, <2>2
  <1>6. Effected' => Effected /\ cmd'.action = cmd.action /\ cmd'.detail = cmd.detail
    BY <1>2 DEF Effected
  <1>7. KsOK'
    BY <1>5, <1>6, KsKept DEF VaultInv
  <1>8. LogOK'
    BY <1>2, <1>5, <1>6, LogKept DEF VaultInv, LogOK
  <1>9. QED
    BY <1>3, <1>4, <1>7, <1>8 DEF VaultInv

\* A step that changes none of Authority's variables.
LEMMA SameFiles ==
    ASSUME VaultInv, UNCHANGED <<authorityVars, generated>>
    PROVE  /\ UNCHANGED <<keystore, revoked, licenses, now, cutOff, generated>>
           /\ Readable(exported)' => \A k \in DOMAIN Content(exported').keys :
                                        k \in Keys /\ Content(exported').keys[k] \in Statuses
           /\ forgotten \subseteq Ids
           /\ cmd.pc # "write" => Known = Listed(revoked) \cup forgotten
  <1>1. UNCHANGED <<keystore, revoked, exported, licenses, now, cutOff>>
    BY DEF authorityVars
  <1>2. cmd.pc # "write" => Known = Listed(revoked) \cup forgotten
    BY DEF Known, mr
  <1>3. QED
    BY <1>1, <1>2 DEF VaultInv, TInv, AuthorityTypeOK

\* The hash to chain to is a number.
LEMMA LastIsNat == ASSUME VaultInv PROVE LastHash(audit.entries) \in Nat
  <1>1. PICK es \in Seq(Entries) : es = audit.entries
    BY DEF VaultInv, TInv
  <1>2. es # <<>> => es[Len(es)] \in Entries
    BY <1>1
  <1>3. QED
    BY <1>1, <1>2 DEF LastHash, Entries

LEMMA OpenKeeps == ASSUME Alone, VaultInv, Open(Op) PROVE VaultInv'
  <1>1. cmd.pc = "open" /\ UNCHANGED <<authorityVars, audit, generated, forgotten>>
    BY DEF Open, At, cmd
  <1>2. audit = [entries |-> audit.entries, end |-> audit.end] /\ audit.end \in {"newline", "open", "torn"}
    BY DEF VaultInv, TInv
  <1>3. CASE audit.end = "torn"
    <2>1. Exit(Op)
      BY <1>3 DEF Open
    <2>2. DOMAIN cmds' = Terminals /\ cmd' = Idle
      BY <2>1, ExitIs DEF VaultInv
    <2>3. QED
      BY <1>1, <1>2, <2>2, SameFiles, Aftermath
  <1>4. CASE audit.end # "torn"
    <2>1. PICK last \in Nat : last = LastHash(audit.entries)
      BY LastIsNat
    <2>2. PICK f, x, a, d, l0, old : cmd = [pc |-> old, file |-> f, content |-> x,
                                            action |-> a, detail |-> d, last |-> l0]
      BY DEF VaultInv, CmdOK
    <2>3. PICK c : c = [pc |-> "append", file |-> f, content |-> x, action |-> a,
                        detail |-> d, last |-> last]
      OBVIOUS
    <2>4. [cmd EXCEPT !.pc = "append", !.last = last] = c
      <3>1. PICK mid : mid = [cmd EXCEPT !.pc = "append"]
        OBVIOUS
      <3>2. mid = [pc |-> "append", file |-> f, content |-> x, action |-> a, detail |-> d, last |-> l0]
        BY <2>2, <3>1
      <3>3. [mid EXCEPT !.last = last] = c
        BY <2>3, <3>2
      <3>4. QED
        BY <3>1, <3>3
    <2>5. cmds' = [cmds EXCEPT ![Op] = [cmd EXCEPT !.pc = "append", !.last = last]]
      BY <1>4, <2>1 DEF Open, cmd
    <2>6. cmds' = [cmds EXCEPT ![Op] = c]
      BY <2>4, <2>5
    <2>7. DOMAIN cmds' = Terminals /\ cmd' = c
      BY <2>6, Facts DEF VaultInv, CmdOK, cmd
    <2>8. cmd.file = f /\ cmd.content = x /\ cmd.action = a /\ cmd.detail = d
      BY <2>2
    <2>9. cmd' = [pc |-> "append", file |-> cmd.file, content |-> cmd.content,
                  action |-> cmd.action, detail |-> cmd.detail, last |-> last]
      BY <2>3, <2>7, <2>8
    <2>10. QED
      BY <1>1, <1>2, <2>1, <2>7, <2>9, SameFiles, Aftermath
  <1>5. QED
    BY <1>3, <1>4

LEMMA NewlineKeeps == ASSUME Alone, VaultInv, Newline(Op) PROVE VaultInv'
  <1>1. DOMAIN cmds' = Terminals /\ cmd' = Idle
    BY ExitIs DEF Newline, VaultInv
  <1>2. PICK es, e : es = audit.entries /\ e = audit.end
    OBVIOUS
  <1>3. audit = [entries |-> es, end |-> e] /\ e \in {"newline", "open", "torn"}
    BY <1>2 DEF VaultInv, TInv
  <1>4. PICK e1 : e1 = IF e = "open" THEN "newline" ELSE e
    OBVIOUS
  <1>5. audit' = [entries |-> es, end |-> e1]
    <2>1. [audit EXCEPT !.end = e1] = [entries |-> es, end |-> e1]
      BY <1>3
    <2>2. audit' = [audit EXCEPT !.end = e1]
      BY <1>2, <1>4 DEF Newline
    <2>3. QED
      BY <2>1, <2>2
  <1>6. /\ audit'.entries = audit.entries /\ audit' = [entries |-> audit'.entries, end |-> audit'.end]
        /\ audit'.end \in {"newline", "open", "torn"}
    BY <1>2, <1>3, <1>4, <1>5
  <1>7. UNCHANGED <<authorityVars, generated, forgotten>> /\ cmd.pc = "newline"
    BY DEF Newline, At, cmd
  <1>8. QED
    BY <1>1, <1>6, <1>7, SameFiles, Aftermath

LEMMA KillKeeps == ASSUME Alone, VaultInv, Kill(Op) PROVE VaultInv'
  <1>1. DOMAIN cmds' = Terminals /\ cmd' = Idle
    BY ExitIs DEF Kill, VaultInv
  <1>2. PICK es, e : es = audit.entries /\ e = audit.end
    OBVIOUS
  <1>3. audit = [entries |-> es, end |-> e] /\ e \in {"newline", "open", "torn"}
    BY <1>2 DEF VaultInv, TInv
  <1>4. audit' = audit \/ audit' = [entries |-> es, end |-> "torn"]
    <2>1. [audit EXCEPT !.end = "torn"] = [entries |-> es, end |-> "torn"]
      BY <1>3
    <2>2. audit' = audit \/ audit' = [audit EXCEPT !.end = "torn"]
      BY DEF Kill
    <2>3. QED
      BY <2>1, <2>2
  <1>5. /\ audit'.entries = audit.entries /\ audit' = [entries |-> audit'.entries, end |-> audit'.end]
        /\ audit'.end \in {"newline", "open", "torn"}
    BY <1>2, <1>3, <1>4
  <1>6. UNCHANGED <<authorityVars, generated>>
    BY DEF Kill
  <1>7. forgotten' \subseteq Ids /\ Known \subseteq Listed(revoked) \cup forgotten'
    <2>1. CASE cmd.pc = "write" /\ cmd.file = "revoked"
      <3>1. forgotten' = forgotten \cup cmd.content
        BY <2>1 DEF Kill, At, cmd
      <3>2. Known = cmd.content \cup forgotten
        BY <2>1, FileFacts DEF Known, mr, Listed
      <3>3. QED
        BY <2>1, <3>1, <3>2 DEF VaultInv, TInv
    <2>2. CASE ~(cmd.pc = "write" /\ cmd.file = "revoked")
      <3>1. forgotten' = forgotten
        BY <2>2 DEF Kill, At, cmd
      <3>2. Known = Listed(revoked) \cup forgotten
        BY <2>2 DEF Known, mr
      <3>3. QED
        BY <3>1, <3>2 DEF VaultInv, TInv
    <2>3. QED
      BY <2>1, <2>2
  <1>8. QED
    BY <1>1, <1>5, <1>6, <1>7, SameFiles, Aftermath

LEMMA AppendKeeps == ASSUME Alone, VaultInv, AppendLine(Op) PROVE VaultInv'
  <1>1. cmd.pc = "append" /\ Goto(Op, "newline") /\ UNCHANGED <<authorityVars, generated, forgotten>>
    BY DEF AppendLine, At, cmd
  <1>2. UNCHANGED <<keystore, revoked, exported, licenses, now, cutOff>>
    BY <1>1 DEF authorityVars
  <1>3. PICK f, x, a, d, l : f = cmd.file /\ x = cmd.content /\ a = cmd.action /\ d = cmd.detail /\ l = cmd.last
    OBVIOUS
  <1>4. /\ DOMAIN cmds' = Terminals
        /\ cmd' = [pc |-> "newline", file |-> f, content |-> x, action |-> a, detail |-> d, last |-> l]
    BY <1>1, <1>3, GotoIs DEF VaultInv
  <1>5. /\ cmd'.pc = "newline" /\ cmd'.file = f /\ cmd'.content = x
        /\ cmd'.action = a /\ cmd'.detail = d /\ cmd'.last = l
    BY <1>4
  <1>6. cmd' = [pc |-> cmd'.pc, file |-> cmd'.file, content |-> cmd'.content,
                action |-> cmd'.action, detail |-> cmd'.detail, last |-> cmd'.last]
    BY <1>4, <1>5
  <1>7. PICK es, e : es = audit.entries /\ e = audit.end
    OBVIOUS
  <1>8. /\ audit = [entries |-> es, end |-> e] /\ e \in {"newline", "open", "torn"}
        /\ es \in Seq(Entries)
    BY <1>7 DEF VaultInv, TInv
  <1>9. PICK new : new = [action |-> a, detail |-> d, prev |-> l, hash |-> Len(es) + 1]
    OBVIOUS
  <1>10. new \in Entries /\ new.action = a /\ new.detail = d /\ new.prev = l /\ new.hash = Len(es) + 1
    <2>1. a \in Actions /\ d \in Ids \cup Keys /\ l \in Nat
      BY <1>1, <1>3 DEF VaultInv, TInv, CmdOK
    <2>2. QED
      BY <1>8, <1>9, <2>1 DEF Entries
  <1>11. audit' = [entries |-> Append(es, new), end |-> "open"] \/ audit' = [entries |-> es, end |-> "torn"]
    <2>1. Entry(cmds[Op]) = new
      BY <1>3, <1>7, <1>9 DEF Entry, cmd
    <2>2. [audit EXCEPT !.end = "torn"] = [entries |-> es, end |-> "torn"]
      BY <1>8
    <2>3. audit' = [entries |-> Append(es, new), end |-> "open"] \/ audit' = [audit EXCEPT !.end = "torn"]
      BY <1>7, <2>1 DEF AppendLine
    <2>4. QED
      BY <2>2, <2>3
  <1>12. PICK es1 : es1 = audit'.entries
    OBVIOUS
  <1>13. es1 = es \/ es1 = Append(es, new)
    BY <1>11, <1>12
  <1>14. es1 \in Seq(Entries)
    BY <1>8, <1>10, <1>13
  <1>15. Len(es) \in Nat /\ DOMAIN es = 1..Len(es)
    BY <1>8
  <1>16. ASSUME NEW i \in DOMAIN es1
         PROVE  (i \in DOMAIN es /\ es1[i] = es[i]) \/ (i = Len(es) + 1 /\ es1[i] = new)
    <2>1. CASE es1 = es
      BY <1>16, <2>1
    <2>2. CASE es1 = Append(es, new)
      <3>1. Len(es1) = Len(es) + 1 /\ i \in 1..Len(es1)
        BY <1>8, <1>10, <1>14, <1>16, <2>2
      <3>2. es1[i] = IF i <= Len(es) THEN es[i] ELSE new
        BY <1>8, <1>10, <2>2, <3>1
      <3>3. QED
        BY <1>15, <3>1, <3>2
    <2>3. QED
      BY <1>13, <2>1, <2>2
  <1>17. TInv'
    <2>1. AuthorityTypeOK' /\ IsFiniteSet(licenses')
      BY <1>2 DEF VaultInv, TInv, AuthorityTypeOK
    <2>2. audit' = [entries |-> audit'.entries, end |-> audit'.end] /\ audit'.end \in {"newline", "open", "torn"}
      BY <1>11
    <2>3. generated' \in 0..MaxKeys
      BY <1>1 DEF VaultInv, TInv
    <2>4. QED
      BY <1>1, <1>3, <1>5, <1>12, <1>14, <2>1, <2>2, <2>3 DEF VaultInv, TInv
  <1>18. CmdOK'
    BY <1>1, <1>3, <1>4, <1>5, <1>6 DEF VaultInv, CmdOK
  <1>19. mk' = keystore /\ mk = keystore /\ Known' = Known /\ Effected /\ ~Effected'
    BY <1>1, <1>2, <1>5 DEF mk, mr, Known, Effected
  <1>20. KsOK'
    <2>1. ASSUME Readable(mk)' PROVE Remembers(Content(mk))'
      <3>1. PICK ks : ks = Content(keystore)
        OBVIOUS
      <3>2. Remembers(ks)
        BY <1>2, <1>19, <2>1, <3>1 DEF VaultInv, KsOK
      <3>3. \A i \in DOMAIN es1 : KeyAction(es1[i].action) => es1[i].detail \in DOMAIN ks.keys
        BY <1>3, <1>7, <1>10, <1>16, <1>19, <3>2 DEF Remembers
      <3>4. \A i \in DOMAIN es1 : es1[i].action = "ROTATE_HARD" => RetiredBefore(ks, es1[i].detail)
        BY <1>3, <1>7, <1>10, <1>16, <1>19, <3>2 DEF Remembers
      <3>5. Remembers(ks)'
        BY <1>1, <1>2, <1>12, <1>19, <3>2, <3>3, <3>4 DEF Remembers, RetiredBefore
      <3>6. QED
        BY <1>2, <1>19, <3>1, <3>5 DEF Remembers, RetiredBefore
    <2>2. ASSUME mk' = Absent PROVE Nothing'
      <3>1. Nothing
        BY <1>19, <2>2 DEF VaultInv, KsOK
      <3>2. \A i \in DOMAIN es1 : ~KeyAction(es1[i].action)
        BY <1>3, <1>7, <1>10, <1>16, <1>19, <3>1 DEF Nothing
      <3>3. QED
        BY <1>2, <1>12, <1>19, <3>1, <3>2 DEF Nothing
    <2>3. QED
      BY <2>1, <2>2 DEF KsOK
  <1>21. LogOK'
    <2>1. /\ Chained(es) /\ l = LastHash(es)
          /\ \A i \in DOMAIN es : es[i].hash = i
          /\ \A i \in DOMAIN es : es[i].action = "ISSUE" =>
                \E b \in licenses : b.payload.id = es[i].detail
          /\ a = "ISSUE" => \E b \in licenses : b.payload.id = d
          /\ \A i \in DOMAIN es : es[i].action = "REVOKE" => es[i].detail \in Known
          /\ a = "REVOKE" => d \in Known
      BY <1>1, <1>3, <1>7, <1>19 DEF VaultInv, LogOK
    <2>2. Chained(es1)
      <3>1. SUFFICES ASSUME NEW i \in DOMAIN es1
                     PROVE  es1[i].prev = IF i = 1 THEN 0 ELSE es1[i - 1].hash
        BY DEF Chained
      <3>2. i \in Nat /\ i >= 1 /\ i <= Len(es) + 1
        BY <1>14, <1>15, <1>16
      <3>3. i # 1 => i - 1 \in DOMAIN es1 /\ i - 1 \in DOMAIN es /\ es1[i - 1] = es[i - 1]
        BY <1>8, <1>10, <1>13, <1>14, <1>15, <1>16, <3>2
      <3>4. CASE i \in DOMAIN es /\ es1[i] = es[i]
        BY <2>1, <3>3, <3>4 DEF Chained
      <3>5. CASE i = Len(es) + 1 /\ es1[i] = new
        <4>1. CASE es = <<>>
          BY <1>10, <2>1, <3>5, <4>1 DEF LastHash
        <4>2. CASE es # <<>>
          <5>1. Len(es) # 0
            BY <1>8, <4>2
          <5>2. l = es[Len(es)].hash /\ i # 1 /\ i - 1 = Len(es)
            BY <1>14, <1>15, <1>16, <2>1, <3>5, <4>2, <5>1 DEF LastHash
          <5>3. QED
            BY <1>10, <3>3, <3>5, <5>2
        <4>3. QED
          BY <4>1, <4>2
      <3>6. QED
        BY <1>14, <1>15, <1>16, <3>4, <3>5
    <2>3. \A i \in DOMAIN es1 : es1[i].hash = i
      BY <1>10, <1>14, <1>15, <1>16, <2>1
    <2>4. \A i \in DOMAIN es1 : es1[i].action = "ISSUE" => \E b \in licenses : b.payload.id = es1[i].detail
      BY <1>10, <1>14, <1>15, <1>16, <2>1
    <2>5. \A i \in DOMAIN es1 : es1[i].action = "REVOKE" => es1[i].detail \in Known
      BY <1>10, <1>16, <2>1
    <2>6. QED
      BY <1>2, <1>5, <1>12, <1>19, <2>2, <2>3, <2>4, <2>5 DEF LogOK
  <1>22. QED
    BY <1>17, <1>18, <1>20, <1>21 DEF VaultInv

\* The clock's step, or none.
LEMMA ElsewhereKeeps ==
    ASSUME Alone, VaultInv, now' \in Nat, now' >= now,
           UNCHANGED <<keystore, revoked, exported, licenses, cutOff, audit, cmds, generated, forgotten>>
    PROVE  VaultInv'
  <1>1. cmd' = cmd /\ mk' = mk /\ Known' = Known /\ Bundle' = Bundle /\ (Effected' <=> Effected)
    BY BundleKept DEF cmd, mk, mr, Known, Effected
  <1>2. TInv'
    BY <1>1 DEF VaultInv, TInv, AuthorityTypeOK
  <1>3. CmdOK'
    <2>1. now \in Nat
      BY DEF VaultInv, TInv, AuthorityTypeOK
    <2>2. \A since \in 0..now : since \in 0..now'
      BY <2>1
    <2>3. Issues => Issues'
      BY <1>1, <2>2 DEF Issues
    <2>4. Creates => Creates'
      BY <1>1 DEF Creates
    <2>5. \A r \in BOOLEAN : Rotates(r) => Rotates(r)'
      BY <1>1 DEF Rotates
    <2>6. Revokes => Revokes'
      BY <1>1 DEF Revokes
    <2>7. Exports => Exports'
      BY <1>1 DEF Exports
    <2>8. InHand => InHand'
      BY <2>3, <2>4, <2>5, <2>6, <2>7 DEF InHand
    <2>9. QED
      BY <1>1, <2>8 DEF VaultInv, CmdOK
  <1>4. KsOK'
    BY <1>1, KsKept DEF VaultInv
  <1>5. LogOK'
    BY <1>1 DEF VaultInv, LogOK
  <1>6. QED
    BY <1>2, <1>3, <1>4, <1>5 DEF VaultInv

LEMMA TimeKeeps ==
    ASSUME Alone, VaultInv, TimePasses, UNCHANGED <<audit, cmds, generated, forgotten>>
    PROVE  VaultInv'
  <1>1. now \in Nat /\ now' = now + 1 /\ UNCHANGED <<keystore, revoked, exported, licenses, cutOff>>
    BY DEF TimePasses, VaultInv, TInv, AuthorityTypeOK
  <1>2. now' \in Nat /\ now' >= now
    BY <1>1
  <1>3. QED
    BY <1>1, <1>2, ElsewhereKeeps

\* fs::write has opened the file: what Authority sees is its new content.
LEMMA TruncateIs ==
    ASSUME Alone, VaultInv, Truncate(Op)
    PROVE  /\ cmd.pc = "truncate" /\ DOMAIN cmds' = Terminals
           /\ cmd' = [pc |-> cmd'.pc, file |-> cmd'.file, content |-> cmd'.content,
                      action |-> cmd'.action, detail |-> cmd'.detail, last |-> cmd'.last]
           /\ cmd'.pc = "write" /\ cmd'.file = cmd.file /\ cmd'.content = cmd.content
           /\ cmd'.action = cmd.action /\ cmd'.detail = cmd.detail /\ cmd'.last = cmd.last
           /\ UNCHANGED <<licenses, now, audit, generated, forgotten>>
           /\ keystore' = IF cmd.file = "keystore" THEN Torn ELSE keystore
           /\ revoked'  = IF cmd.file = "revoked" THEN Torn ELSE revoked
           /\ exported' = IF cmd.file = "bundle" THEN Torn ELSE exported
           /\ cutOff'   = IF cmd.action = "ROTATE_HARD" /\ Readable(keystore)
                          THEN cutOff \cup DOMAIN Content(keystore).keys ELSE cutOff
           /\ mk = keystore /\ mr = revoked /\ mx = exported
           /\ mk' = IF cmd.file = "keystore" THEN Holds(cmd.content) ELSE keystore
           /\ mr' = IF cmd.file = "revoked" THEN Holds(cmd.content) ELSE revoked
           /\ mx' = IF cmd.file = "bundle" THEN Holds(cmd.content) ELSE exported
  <1>1. cmd.pc = "truncate" /\ Goto(Op, "write")
    BY DEF Truncate, At, cmd
  <1>2. PICK f, x, a, d, l : f = cmd.file /\ x = cmd.content /\ a = cmd.action /\ d = cmd.detail /\ l = cmd.last
    OBVIOUS
  <1>3. /\ DOMAIN cmds' = Terminals
        /\ cmd' = [pc |-> "write", file |-> f, content |-> x, action |-> a, detail |-> d, last |-> l]
    BY <1>1, <1>2, GotoIs DEF VaultInv
  <1>4. /\ cmd'.pc = "write" /\ cmd'.file = f /\ cmd'.content = x
        /\ cmd'.action = a /\ cmd'.detail = d /\ cmd'.last = l
    BY <1>3
  <1>5. cmd' = [pc |-> cmd'.pc, file |-> cmd'.file, content |-> cmd'.content,
                action |-> cmd'.action, detail |-> cmd'.detail, last |-> cmd'.last]
    BY <1>3, <1>4
  <1>6. /\ UNCHANGED <<licenses, now, audit, generated, forgotten>>
        /\ keystore' = IF f = "keystore" THEN Torn ELSE keystore
        /\ revoked'  = IF f = "revoked" THEN Torn ELSE revoked
        /\ exported' = IF f = "bundle" THEN Torn ELSE exported
        /\ cutOff'   = IF a = "ROTATE_HARD" /\ Readable(keystore)
                       THEN cutOff \cup DOMAIN Content(keystore).keys ELSE cutOff
    BY <1>2 DEF Truncate, cmd
  <1>7. mk = keystore /\ mr = revoked /\ mx = exported
    BY <1>1 DEF mk, mr, mx
  <1>8. /\ mk' = IF f = "keystore" THEN Holds(x) ELSE keystore
        /\ mr' = IF f = "revoked" THEN Holds(x) ELSE revoked
        /\ mx' = IF f = "bundle" THEN Holds(x) ELSE exported
    BY <1>4, <1>6 DEF mk, mr, mx
  <1>9. QED
    BY <1>1, <1>2, <1>3, <1>4, <1>5, <1>6, <1>7, <1>8

\* A hard rotation retires every key but the new one; a soft one leaves them as they are.
LEMMA RotateRetires ==
    ASSUME NEW ks, NEW k, NEW retire_old \in BOOLEAN, NEW n \in DOMAIN ks.keys, n # k
    PROVE  rotate(ks, k, retire_old).keys[n] = IF retire_old THEN "Retired" ELSE ks.keys[n]
  BY DEF rotate

LEMMA TruncateKeeps == ASSUME Alone, VaultInv, Truncate(Op) PROVE VaultInv'
  <1>1. InHand
    BY TruncateIs DEF VaultInv, CmdOK
  <1>2. AuthorityTypeOK /\ IsFiniteSet(licenses)
    BY DEF VaultInv, TInv
  <1>3. cutOff' \subseteq Keys
    BY <1>2, TruncateIs DEF AuthorityTypeOK, IsKeystore
  <1>4. TInv'
    <2>1. AuthorityTypeOK'
      BY <1>2, <1>3, TruncateIs, FileFacts DEF AuthorityTypeOK
    <2>2. QED
      BY <1>2, <2>1, TruncateIs DEF VaultInv, TInv
  <1>5. LogOK'
    <2>1. CASE Revokes
      <3>1. /\ cmd.content = Listed(revoked) \cup {cmd.detail} /\ mr = revoked
            /\ mr' = Holds(cmd.content)
        BY <2>1, TruncateIs DEF Revokes
      <3>2. Listed(mr') = Listed(mr) \cup {cmd.detail}
        BY <3>1, FileFacts DEF Listed
      <3>3. Known' = Known \cup {cmd.detail}
        BY <3>2, TruncateIs DEF Known, Listed
      <3>4. QED
        BY <3>3, TruncateIs DEF VaultInv, LogOK
    <2>2. CASE ~Revokes
      <3>1. cmd.action # "REVOKE" /\ cmd.file # "revoked"
        BY <1>1, <2>2 DEF InHand, Creates, Rotates, Issues, Exports, Revokes
      <3>2. mr' = mr
        BY <3>1, TruncateIs
      <3>3. Known' = Known
        BY <3>2, TruncateIs DEF Known, Listed
      <3>4. QED
        BY <3>1, <3>3, TruncateIs DEF VaultInv, LogOK
    <2>3. QED
      BY <2>1, <2>2
  <1>6. CASE Creates
    <2>1. generated \in Nat /\ cmd.content = generate(generated) /\ mk = Absent
      BY <1>6, TruncateIs, AuthorityAssumption DEF Creates
    <2>2. /\ mk' = Holds(cmd.content) /\ keystore' = Torn /\ UNCHANGED <<licenses, cutOff, audit, generated>>
      BY <1>6, TruncateIs DEF Creates
    <2>3. CmdOK'
      <3>1. Creates'
        BY <1>6, <2>2, TruncateIs DEF Creates
      <3>2. QED
        BY <3>1, TruncateIs DEF CmdOK, InHand
    <2>4. PICK ks : ks = cmd.content
      OBVIOUS
    <2>5. IsKeystore(ks) /\ ks.active = generated /\ DOMAIN ks.keys = {generated} /\ is_trusted(ks.keys, generated)
      BY <2>1, <2>4, GenerateIsKeystore
    <2>6. Nothing /\ cmd.detail = generated
      BY <1>6, <2>1 DEF VaultInv, KsOK, Creates
    <2>7. Remembers(ks)'
      <3>1. \A i \in DOMAIN audit.entries : ~KeyAction(audit.entries[i].action)
        BY <2>6 DEF Nothing
      <3>2. \A i \in DOMAIN audit.entries : audit.entries[i].action # "ROTATE_HARD"
        BY <3>1 DEF KeyAction
      <3>3. cmd'.action # "ROTATE_HARD"
        BY <1>6, TruncateIs DEF Creates
      <3>4. QED
        BY <2>1, <2>2, <2>5, <2>6, <3>1, <3>2, <3>3, TruncateIs DEF Remembers, Nothing
    <2>8. KsOK'
      <3>1. Readable(mk') /\ mk' # Absent /\ Content(mk') = ks
        BY <2>2, <2>4, FileFacts
      <3>2. QED
        BY <2>7, <3>1 DEF KsOK, Remembers, RetiredBefore
    <2>9. QED
      BY <1>4, <1>5, <2>3, <2>8 DEF VaultInv
  <1>7. ASSUME NEW r \in BOOLEAN, Rotates(r) PROVE VaultInv'
    <2>1. PICK old : old = Content(keystore)
      OBVIOUS
    <2>2. /\ Readable(keystore) /\ cmd.content = rotate(old, generated, r)
          /\ \A k \in DOMAIN old.keys : k < generated
          /\ cmd.file = "keystore" /\ cmd.detail = generated
          /\ cmd.action = (IF r THEN "ROTATE_HARD" ELSE "ROTATE")
      BY <1>7, <2>1, TruncateIs DEF Rotates
    <2>3. /\ mk' = Holds(cmd.content) /\ keystore' = Torn /\ UNCHANGED <<licenses, audit, generated>>
          /\ cutOff' = IF r THEN cutOff \cup DOMAIN old.keys ELSE cutOff
      BY <2>1, <2>2, TruncateIs
    <2>4. CmdOK'
      <3>1. Rotates(r)'
        BY <2>2, <2>3, TruncateIs DEF Rotates
      <3>2. QED
        BY <3>1, TruncateIs DEF CmdOK, InHand
    <2>5. Remembers(old)
      BY <2>1, <2>2, TruncateIs DEF VaultInv, KsOK
    <2>6. generated \in Nat /\ \A k \in DOMAIN old.keys : k \in Nat
      BY <2>5, AuthorityAssumption DEF VaultInv, TInv, Remembers, IsKeystore, Keys
    <2>7. generated \notin DOMAIN old.keys
      BY <2>2, <2>6
    <2>8. PICK ks : ks = rotate(old, generated, r)
      OBVIOUS
    <2>9. /\ IsKeystore(ks) /\ ks.active = generated /\ DOMAIN ks.keys = DOMAIN old.keys \cup {generated}
          /\ is_trusted(ks.keys, generated)
          /\ \A n \in DOMAIN old.keys \ {generated} :
                is_trusted(ks.keys, n) <=> ~r /\ is_trusted(old.keys, n)
      BY <2>5, <2>6, <2>8, RotateIsKeystore DEF Remembers
    <2>10. \A k \in cutOff' : k \in DOMAIN ks.keys /\ ~is_trusted(ks.keys, k)
      BY <2>3, <2>5, <2>7, <2>9 DEF Remembers
    <2>11. \A k \in DOMAIN ks.keys : k <= generated
      BY <2>2, <2>6, <2>9
    <2>12. Remembers(ks)'
      <3>1. \A n \in DOMAIN old.keys : ks.keys[n] = IF r THEN "Retired" ELSE old.keys[n]
        BY <2>7, <2>8, RotateRetires
      <3>2. ASSUME NEW i \in DOMAIN audit.entries, audit.entries[i].action = "ROTATE_HARD"
            PROVE  RetiredBefore(ks, audit.entries[i].detail)
        <4>1. audit.entries[i].detail \in DOMAIN old.keys /\ RetiredBefore(old, audit.entries[i].detail)
          BY <2>5, <3>2 DEF Remembers, KeyAction
        <4>2. \A k \in DOMAIN ks.keys : k < audit.entries[i].detail => k \in DOMAIN old.keys
          BY <2>2, <2>6, <2>9, <4>1
        <4>3. QED
          BY <3>1, <4>1, <4>2 DEF RetiredBefore
      <3>3. r => RetiredBefore(ks, generated)
        BY <2>6, <2>9, <3>1 DEF RetiredBefore
      <3>4. cmd'.action = "ROTATE_HARD" => RetiredBefore(ks, cmd'.detail)
        BY <2>2, <3>3, TruncateIs
      <3>5. /\ IsKeystore(ks) /\ ks.active \in DOMAIN ks.keys /\ is_trusted(ks.keys, ks.active)
            /\ \A l \in licenses : l.payload.key \in DOMAIN ks.keys
            /\ \A i \in DOMAIN audit.entries :
                  KeyAction(audit.entries[i].action) => audit.entries[i].detail \in DOMAIN ks.keys
        BY <2>5, <2>9 DEF Remembers
      <3>6. QED
        BY <2>2, <2>3, <2>9, <2>10, <2>11, <3>2, <3>4, <3>5, TruncateIs DEF Remembers, RetiredBefore
    <2>13. KsOK'
      <3>1. Readable(mk') /\ mk' # Absent /\ Content(mk') = ks
        BY <2>2, <2>3, <2>8, FileFacts
      <3>2. QED
        BY <2>12, <3>1 DEF KsOK, Remembers, RetiredBefore
    <2>14. QED
      BY <1>4, <1>5, <2>4, <2>13 DEF VaultInv
  <1>8. CASE Issues \/ Revokes \/ Exports
    <2>1. /\ cmd.file # "keystore" /\ ~KeyAction(cmd.action) /\ cmd.action # "ROTATE_HARD"
          /\ keystore' = keystore /\ mk' = mk
          /\ UNCHANGED <<cutOff, licenses, generated, audit, now>>
      BY <1>8, TruncateIs DEF Issues, Revokes, Exports, KeyAction
    <2>2. CmdOK'
      <3>1. Issues => Issues'
        BY <2>1, TruncateIs DEF Issues
      <3>2. Revokes => Revokes'
        BY <2>1, TruncateIs DEF Revokes
      <3>3. Exports => Exports'
        BY <2>1, TruncateIs, BundleKept DEF Exports
      <3>4. QED
        BY <1>8, <3>1, <3>2, <3>3, TruncateIs DEF CmdOK, InHand
    <2>3. KsOK'
      BY <2>1, TruncateIs, KsKept DEF VaultInv
    <2>4. QED
      BY <1>4, <1>5, <2>2, <2>3 DEF VaultInv
  <1>9. QED
    BY <1>1, <1>6, <1>7, <1>8 DEF InHand

LEMMA WriteIs ==
    ASSUME Alone, VaultInv, Write(Op), cmd.file # "bundle"
    PROVE  /\ cmd.pc = "write" /\ DOMAIN cmds' = Terminals
           /\ cmd' = [pc |-> cmd'.pc, file |-> cmd'.file, content |-> cmd'.content,
                      action |-> cmd'.action, detail |-> cmd'.detail, last |-> cmd'.last]
           /\ cmd'.pc = "open" /\ cmd'.file = cmd.file /\ cmd'.content = cmd.content
           /\ cmd'.action = cmd.action /\ cmd'.detail = cmd.detail /\ cmd'.last = cmd.last
           /\ UNCHANGED <<exported, now, cutOff, audit, generated, forgotten>>
           /\ keystore' = mk /\ revoked' = mr
           /\ mk' = mk /\ mr' = mr /\ mx' = mx /\ Known' = Known /\ Effected /\ Effected'
           /\ licenses' = IF cmd.file = "license" THEN licenses \cup {cmd.content} ELSE licenses
  <1>1. cmd.pc = "write" /\ Goto(Op, "open")
    BY DEF Write, At, cmd
  <1>2. PICK f, x, a, d, l : f = cmd.file /\ x = cmd.content /\ a = cmd.action /\ d = cmd.detail /\ l = cmd.last
    OBVIOUS
  <1>3. /\ DOMAIN cmds' = Terminals
        /\ cmd' = [pc |-> "open", file |-> f, content |-> x, action |-> a, detail |-> d, last |-> l]
    BY <1>1, <1>2, GotoIs DEF VaultInv
  <1>4. /\ cmd'.pc = "open" /\ cmd'.file = f /\ cmd'.content = x
        /\ cmd'.action = a /\ cmd'.detail = d /\ cmd'.last = l
    BY <1>3
  <1>5. cmd' = [pc |-> cmd'.pc, file |-> cmd'.file, content |-> cmd'.content,
                action |-> cmd'.action, detail |-> cmd'.detail, last |-> cmd'.last]
    BY <1>3, <1>4
  <1>6. /\ UNCHANGED <<exported, now, cutOff, audit, generated, forgotten>>
        /\ keystore' = IF f = "keystore" THEN Holds(x) ELSE keystore
        /\ revoked'  = IF f = "revoked" THEN Holds(x) ELSE revoked
        /\ licenses' = IF f = "license" THEN licenses \cup {x} ELSE licenses
    BY <1>2 DEF Write, cmd
  <1>7. /\ mk = IF f = "keystore" THEN Holds(x) ELSE keystore
        /\ mr = IF f = "revoked" THEN Holds(x) ELSE revoked
    BY <1>1, <1>2 DEF mk, mr
  <1>8. mk' = keystore' /\ mr' = revoked' /\ mx' = mx /\ Effected /\ Effected'
    BY <1>1, <1>4, <1>6 DEF mk, mr, mx, Effected
  <1>9. Known' = Known
    <2>1. mr' = mr
      BY <1>6, <1>7, <1>8
    <2>2. QED
      BY <1>6, <2>1 DEF Known, Listed
  <1>10. QED
    BY <1>1, <1>2, <1>3, <1>4, <1>5, <1>6, <1>7, <1>8, <1>9

\* The write of a bundle is the last step of its command.
LEMMA WriteBundleIs ==
    ASSUME Alone, VaultInv, Write(Op), cmd.file = "bundle"
    PROVE  /\ cmd.pc = "write" /\ DOMAIN cmds' = Terminals /\ cmd' = Idle
           /\ UNCHANGED <<keystore, revoked, licenses, now, cutOff, audit, generated, forgotten>>
           /\ exported' = Holds(cmd.content)
           /\ mk = keystore /\ mr = revoked /\ mk' = mk /\ mr' = mr /\ mx' = mx
  <1>1. cmd.pc = "write" /\ Exit(Op)
    BY DEF Write, At, cmd
  <1>2. DOMAIN cmds' = Terminals /\ cmd' = Idle
    BY <1>1, ExitIs DEF VaultInv
  <1>3. /\ UNCHANGED <<keystore, revoked, licenses, now, cutOff, audit, generated, forgotten>>
        /\ exported' = Holds(cmd.content)
    BY DEF Write, cmd
  <1>4. mk = keystore /\ mr = revoked /\ mx = Holds(cmd.content)
    BY <1>1 DEF mk, mr, mx
  <1>5. mk' = keystore' /\ mr' = revoked' /\ mx' = exported'
    BY <1>2, Facts DEF mk, mr, mx
  <1>6. QED
    BY <1>1, <1>2, <1>3, <1>4, <1>5

LEMMA WriteBundleKeeps == ASSUME Alone, VaultInv, Write(Op), cmd.file = "bundle" PROVE VaultInv'
  <1>1. Readable(exported)' => \A k \in DOMAIN Content(exported').keys :
                                  k \in Keys /\ Content(exported').keys[k] \in Statuses
    <2>1. Content(exported') = cmd.content
      BY WriteBundleIs, FileFacts
    <2>2. QED
      BY <2>1 DEF VaultInv, TInv
  <1>2. forgotten' \subseteq Ids /\ Known \subseteq Listed(revoked) \cup forgotten'
    BY WriteBundleIs DEF Known, VaultInv, TInv
  <1>3. /\ audit'.entries = audit.entries /\ audit' = [entries |-> audit'.entries, end |-> audit'.end]
        /\ audit'.end \in {"newline", "open", "torn"}
    BY WriteBundleIs DEF VaultInv, TInv
  <1>4. QED
    BY <1>1, <1>2, <1>3, WriteBundleIs, Aftermath

LEMMA WriteKeeps == ASSUME Alone, VaultInv, Write(Op), cmd.file # "bundle" PROVE VaultInv'
  <1>1. Creates \/ (\E r \in BOOLEAN : Rotates(r)) \/ Issues \/ Revokes
    BY WriteIs DEF VaultInv, CmdOK, InHand, Exports
  <1>2. CmdOK'
    BY WriteIs DEF CmdOK
  <1>3. TInv'
    <2>1. IsFiniteSet(licenses')
      <3>1. PICK x : x = cmd.content
        OBVIOUS
      <3>2. IsFiniteSet(licenses) /\ (licenses' = licenses \/ licenses' = licenses \cup {x})
        BY <3>1, WriteIs DEF VaultInv, TInv
      <3>3. IsFiniteSet(licenses \cup {x})
        BY <3>2, FS_AddElement
      <3>4. QED
        BY <3>2, <3>3
    <2>2. Readable(keystore') => IsKeystore(Content(keystore'))
      BY WriteIs, FileFacts DEF VaultInv, TInv, AuthorityTypeOK, mk
    <2>3. Readable(revoked') => Content(revoked') \subseteq Ids
      BY WriteIs, FileFacts DEF VaultInv, TInv, AuthorityTypeOK, mr
    <2>4. licenses' \subseteq Envelopes
      BY WriteIs DEF VaultInv, TInv, AuthorityTypeOK
    <2>5. AuthorityTypeOK'
      BY <2>2, <2>3, <2>4, WriteIs DEF VaultInv, TInv, AuthorityTypeOK
    <2>6. QED
      BY <2>1, <2>5, WriteIs DEF VaultInv, TInv
  <1>4. CASE Issues
    <2>1. cmd.file = "license" /\ cmd.action = "ISSUE" /\ Readable(keystore) /\ mk = keystore
      BY <1>4 DEF Issues, mk
    <2>2. PICK x : x = cmd.content
      OBVIOUS
    <2>3. licenses' = licenses \cup {x}
      BY <2>1, <2>2, WriteIs
    <2>4. PICK ks : ks = Content(keystore)
      OBVIOUS
    <2>5. x.payload.key = ks.active /\ x.payload.id = cmd.detail
      <3>1. PICK id \in Ids, days \in Days, bound \in SUBSET Hwids, since \in 0..now :
               /\ x = issue_license(ks, [id |-> id, key |-> ks.active, not_before |-> since,
                                         expires_at |-> since + days, bound |-> bound])
               /\ cmd.detail = id
        BY <1>4, <2>2, <2>4 DEF Issues
      <3>2. PICK p : p = [id |-> id, key |-> ks.active, not_before |-> since,
                          expires_at |-> since + days, bound |-> bound]
        OBVIOUS
      <3>3. x.payload = p /\ p.key = ks.active /\ p.id = id
        BY <3>1, <3>2 DEF issue_license
      <3>4. QED
        BY <3>1, <3>3
    <2>6. Remembers(ks)
      BY <2>1, <2>4 DEF VaultInv, KsOK
    <2>7. Remembers(ks)'
      BY <2>1, <2>3, <2>5, <2>6, WriteIs DEF Remembers, KeyAction, RetiredBefore
    <2>8. KsOK'
      <3>1. mk' = keystore /\ mk' # Absent /\ Content(mk') = ks
        BY <2>1, <2>4, WriteIs, FileFacts
      <3>2. QED
        BY <2>7, <3>1 DEF KsOK, Remembers, RetiredBefore
    <2>9. LogOK'
      <3>1. \E l \in licenses' : l.payload.id = cmd'.detail
        BY <2>3, <2>5, WriteIs
      <3>2. QED
        BY <2>1, <2>3, <3>1, WriteIs, LogKept DEF VaultInv
    <2>10. QED
      BY <1>2, <1>3, <2>8, <2>9 DEF VaultInv
  <1>5. CASE Creates \/ (\E r \in BOOLEAN : Rotates(r)) \/ Revokes
    <2>1. cmd.action # "ISSUE" /\ licenses' = licenses
      BY <1>5, WriteIs DEF Creates, Rotates, Revokes
    <2>2. KsOK'
      BY <2>1, WriteIs, KsKept DEF VaultInv
    <2>3. LogOK'
      BY <2>1, WriteIs, LogKept DEF VaultInv, LogOK
    <2>4. QED
      BY <1>2, <1>3, <2>2, <2>3 DEF VaultInv
  <1>6. QED
    BY <1>1, <1>4, <1>5
-----------------------------------------------------------------------------
(* Each step is a step of Authority, or leaves it alone. *)

AStep == A!AuthorityNext \/ UNCHANGED <<mk, mr, mx, licenses, now, cutOff>>

LEMMA TruncateSimulates == ASSUME Alone, VaultInv, Truncate(Op) PROVE AStep
  <1>1. InHand
    BY TruncateIs DEF VaultInv, CmdOK
  <1>2. UNCHANGED <<licenses, now>> /\ (cmd.file # "bundle" => mx' = mx)
    BY TruncateIs
  <1>3. CASE Creates
    <2>1. /\ mk = Absent /\ mk' = Holds(generate(generated)) /\ generated \in 1..MaxKeys
          /\ mr' = mr /\ mx' = mx /\ cutOff' = cutOff
      BY <1>3, TruncateIs DEF Creates
    <2>2. A!InitKeystore
      BY <1>2, <2>1, MappingIs DEF A!InitKeystore, A!Absent, A!Holds, A!generate, Absent, Holds, generate
    <2>3. QED
      BY <2>2 DEF AStep, A!AuthorityNext, A!Steps
  <1>4. ASSUME NEW r \in BOOLEAN, Rotates(r) PROVE AStep
    <2>1. PICK ks : ks = Content(mk)
      OBVIOUS
    <2>2. PICK k : k = generated
      OBVIOUS
    <2>3. /\ Readable(mk) /\ mk' = Holds(rotate(ks, k, r)) /\ mr' = mr /\ mx' = mx
          /\ cutOff' = IF r THEN cutOff \cup DOMAIN ks.keys ELSE cutOff
          /\ \A n \in DOMAIN ks.keys : n < k
      BY <1>4, <2>1, <2>2, TruncateIs DEF Rotates
    <2>4. k \in (ks.active + 1)..MaxKeys
      <3>1. Remembers(ks) /\ k \in 0..MaxKeys
        BY <2>1, <2>2, <2>3 DEF VaultInv, KsOK, TInv
      <3>2. ks.active \in Nat /\ ks.active < k
        BY <2>3, <3>1 DEF Remembers, IsKeystore, Keys
      <3>3. QED
        BY <3>1, <3>2, AuthorityAssumption
    <2>5. PICK new : new = rotate(ks, k, r)
      OBVIOUS
    <2>6. A!rotate(ks, k, r) = new
      BY <2>5 DEF A!rotate, rotate
    <2>7. A!Readable(mk) /\ A!Content(mk) = ks /\ mk' = A!Holds(new)
      BY <2>1, <2>3, <2>5 DEF A!Readable, A!Content, A!Holds, Readable, Content, Holds
    <2>8. A!Rotate(r)
      BY <1>2, <2>3, <2>4, <2>6, <2>7, MappingIs DEF A!Rotate
    <2>9. QED
      BY <2>8 DEF AStep, A!AuthorityNext, A!Steps
  <1>5. CASE Issues
    BY <1>5, TruncateIs DEF Issues, AStep
  <1>6. CASE Revokes
    <2>1. PICK id \in Ids : cmd.content = Listed(mr) \cup {id}
      BY <1>6, TruncateIs DEF Revokes
    <2>2. mr' = Holds(Listed(mr) \cup {id}) /\ UNCHANGED <<mk, mx, cutOff>>
      BY <1>6, <2>1, TruncateIs DEF Revokes
    <2>3. A!Revoke
      BY <1>2, <2>2, MappingIs DEF A!Revoke, A!Holds, A!Listed, A!Readable, A!Content,
         Holds, Listed, Readable, Content
    <2>4. QED
      BY <2>3 DEF AStep, A!AuthorityNext, A!Steps
  <1>7. CASE Exports
    <2>1. PICK b : b = Bundle
      OBVIOUS
    <2>2. Readable(mk) /\ mx' = Holds(b) /\ UNCHANGED <<mk, mr, cutOff>>
      BY <1>7, <2>1, TruncateIs DEF Exports
    <2>3. PICK ks : ks = Content(mk)
      OBVIOUS
    <2>4. A!Content(mk) = ks /\ A!Readable(mk) /\ mx' = A!Holds(b)
      BY <2>2, <2>3 DEF A!Content, A!Readable, A!Holds, Content, Readable, Holds
    <2>5. Content(keystore) = ks
      BY <2>3, TruncateIs
    <2>6. A!Content(Replaced(keystore, "keystore")) = ks
      BY <2>4, MappingIs
    <2>7. A!Bundle = b
      BY <2>1, <2>5, <2>6 DEF A!Bundle, Bundle, A!from_keystore, from_keystore
    <2>8. A!Export
      BY <1>2, <2>2, <2>4, <2>7, MappingIs DEF A!Export
    <2>9. QED
      BY <2>8 DEF AStep, A!AuthorityNext, A!Steps
  <1>8. QED
    BY <1>1, <1>3, <1>4, <1>5, <1>6, <1>7 DEF InHand

LEMMA WriteSimulates == ASSUME Alone, VaultInv, Write(Op) PROVE AStep
  <1>1. UNCHANGED <<mk, mr, mx, now, cutOff>> /\ (licenses' # licenses => cmd.file # "bundle")
    BY WriteIs, WriteBundleIs
  <1>2. CASE licenses' = licenses
    BY <1>1, <1>2 DEF AStep
  <1>3. CASE licenses' # licenses
    <2>1. cmd.file = "license"
      BY <1>1, <1>3, WriteIs
    <2>2. Issues /\ mk = keystore
      BY <2>1, WriteIs DEF VaultInv, CmdOK, InHand, Creates, Rotates, Revokes, Exports, mk
    <2>3. PICK ks : ks = Content(mk)
      OBVIOUS
    <2>4. PICK id \in Ids, days \in Days, bound \in SUBSET Hwids, since \in 0..now :
             LET p == [id |-> id, key |-> ks.active, not_before |-> since,
                       expires_at |-> since + days, bound |-> bound]
             IN  /\ validate_schema(p) /\ cmd.content = issue_license(ks, p)
      BY <2>2, <2>3 DEF Issues
    <2>5. PICK p : p = [id |-> id, key |-> ks.active, not_before |-> since,
                        expires_at |-> since + days, bound |-> bound]
      OBVIOUS
    <2>6. validate_schema(p) /\ licenses' = licenses \cup {issue_license(ks, p)}
      BY <2>1, <2>4, <2>5, WriteIs
    <2>7. Cardinality(licenses') <= MaxLicenses
      <3>1. PICK x : x = cmd.content
        OBVIOUS
      <3>2. licenses' = licenses \cup {x} /\ x \notin licenses
        BY <1>3, <2>1, <3>1, WriteIs
      <3>3. IsFiniteSet(licenses) /\ Cardinality(licenses) < MaxLicenses
        BY <2>2 DEF VaultInv, TInv, Issues
      <3>4. Cardinality(licenses) \in Nat /\ Cardinality(licenses \cup {x}) = Cardinality(licenses) + 1
        BY <3>2, <3>3, FS_AddElement, FS_CardinalityType
      <3>5. QED
        BY <3>2, <3>3, <3>4, AuthorityAssumption
    <2>8. A!Readable(mk) /\ A!Content(mk) = ks
      BY <2>2, <2>3 DEF Issues, A!Readable, A!Content, Readable, Content
    <2>9. A!validate_schema(p) /\ licenses' = licenses \cup {A!issue_license(ks, p)}
      BY <2>6 DEF A!validate_schema, A!issue_license, validate_schema, issue_license
    <2>10. A!Issue(since)
      <3>1. /\ Replaced(keystore, "keystore") = mk /\ A!Content(Replaced(keystore, "keystore")) = ks
            /\ UNCHANGED <<Replaced(keystore, "keystore"), Replaced(revoked, "revoked"),
                           Replaced(exported, "bundle")>>
        BY <1>1, <2>8, MappingIs
      <3>2. p = [id |-> id, key |-> A!Content(Replaced(keystore, "keystore")).active,
                 not_before |-> since, expires_at |-> since + days, bound |-> bound]
        BY <2>5, <3>1
      <3>3. \E i \in Ids, n \in Days, h \in SUBSET Hwids :
               LET q == [id |-> i, key |-> A!Content(Replaced(keystore, "keystore")).active,
                         not_before |-> since, expires_at |-> since + n, bound |-> h]
               IN  /\ A!validate_schema(q)
                   /\ licenses' = licenses
                          \cup {A!issue_license(A!Content(Replaced(keystore, "keystore")), q)}
        <4>1. A!Content(Replaced(keystore, "keystore")) = ks
          BY <3>1
        <4>2. LET q == [id |-> id, key |-> A!Content(Replaced(keystore, "keystore")).active,
                        not_before |-> since, expires_at |-> since + days, bound |-> bound]
              IN  /\ A!validate_schema(q)
                  /\ licenses' = licenses
                         \cup {A!issue_license(A!Content(Replaced(keystore, "keystore")), q)}
          BY <2>9, <3>2, <4>1
        <4>3. QED
          BY <4>2, Zenon
      <3>4. A!Readable(Replaced(keystore, "keystore"))
        BY <2>8, <3>1
      <3>5. UNCHANGED <<Replaced(keystore, "keystore"), Replaced(revoked, "revoked"),
                        Replaced(exported, "bundle"), now, cutOff>>
        BY <1>1, <3>1
      <3>6. A!Cardinality(licenses') <= MaxLicenses
        BY <2>7 DEF A!Cardinality, Cardinality
      <3>7. QED
        BY <3>3, <3>4, <3>5, <3>6, Zenon DEF A!Issue
    <2>11. QED
      BY <2>10 DEF AStep, A!AuthorityNext, A!Steps
  <1>4. QED
    BY <1>2, <1>3

LEMMA KillSimulates == ASSUME Alone, VaultInv, Kill(Op) PROVE AStep
  <1>1. DOMAIN cmds' = Terminals /\ cmd' = Idle /\ UNCHANGED <<authorityVars, generated>>
    BY ExitIs DEF Kill, VaultInv
  <1>2. UNCHANGED <<keystore, revoked, exported, licenses, now, cutOff>>
    BY <1>1 DEF authorityVars
  <1>3. mk' = keystore /\ mr' = revoked /\ mx' = exported
    BY <1>1, <1>2, Facts DEF mk, mr, mx
  <1>4. CASE cmd.pc = "write" /\ cmd.file = "keystore"
    <2>1. mk' = Torn /\ mr' = mr /\ mx' = mx
      BY <1>3, <1>4 DEF VaultInv, CmdOK, InHand, Creates, Rotates, Issues, Revokes, Exports, mr, mx
    <2>2. A!Lose
      BY <1>2, <2>1, MappingIs DEF A!Lose, A!Torn, Torn
    <2>3. QED
      BY <2>2 DEF AStep, A!AuthorityNext, A!Steps
  <1>5. CASE cmd.pc = "write" /\ cmd.file = "revoked"
    <2>1. mr' = Torn /\ mk' = mk /\ mx' = mx
      BY <1>3, <1>5 DEF VaultInv, CmdOK, InHand, Creates, Rotates, Issues, Revokes, Exports, mk, mx
    <2>2. A!Lose
      BY <1>2, <2>1, MappingIs DEF A!Lose, A!Torn, Torn
    <2>3. QED
      BY <2>2 DEF AStep, A!AuthorityNext, A!Steps
  <1>6. CASE cmd.pc = "write" /\ cmd.file = "bundle"
    <2>1. mx' = Torn /\ mk' = mk /\ mr' = mr
      BY <1>3, <1>6 DEF VaultInv, CmdOK, InHand, Creates, Rotates, Issues, Revokes, Exports, mk, mr
    <2>2. A!Lose
      BY <1>2, <2>1, MappingIs DEF A!Lose, A!Torn, Torn
    <2>3. QED
      BY <2>2 DEF AStep, A!AuthorityNext, A!Steps
  <1>7. CASE ~(cmd.pc = "write" /\ cmd.file \in {"keystore", "revoked", "bundle"})
    <2>1. mk = keystore /\ mr = revoked /\ mx = exported
      BY <1>7 DEF mk, mr, mx
    <2>2. QED
      BY <1>2, <1>3, <2>1 DEF AStep
  <1>8. QED
    BY <1>4, <1>5, <1>6, <1>7

\* The other steps of a command change no file and are not about to.
LEMMA QuietSimulates ==
    ASSUME Alone, UNCHANGED authorityVars, cmd.pc # "write", cmd'.pc # "write" PROVE AStep
  BY DEF AStep, mk, mr, mx, authorityVars

LEMMA TimeSimulates == ASSUME Alone, TimePasses, UNCHANGED cmds PROVE AStep
  <1>1. UNCHANGED <<keystore, revoked, exported>>
    BY DEF TimePasses
  <1>2. mk' = mk /\ mr' = mr /\ mx' = mx
    BY <1>1 DEF mk, mr, mx, cmd
  <1>3. A!TimePasses
    BY <1>2, MappingIs DEF A!TimePasses, TimePasses
  <1>4. QED
    BY <1>3 DEF AStep, A!AuthorityNext, A!Steps
-----------------------------------------------------------------------------
LEMMA CommandOf == ASSUME Alone, Next
                   PROVE  Command(Op) \/ (TimePasses /\ UNCHANGED <<audit, cmds, generated, forgotten>>)
  BY DEF Next, Alone

LEMMA VaultInvNext == ASSUME Alone PROVE VaultInv /\ [Next]_vars => VaultInv'
  <1> SUFFICES ASSUME VaultInv, [Next]_vars PROVE VaultInv'
    OBVIOUS
  <1>1. CASE Command(Op)
    BY <1>1, InitBegins, RotateBegins, IssueBegins, RevokeBegins, ExportBegins, TruncateKeeps,
       WriteKeeps, WriteBundleKeeps, OpenKeeps, AppendKeeps, NewlineKeeps, KillKeeps DEF Command
  <1>2. CASE TimePasses /\ UNCHANGED <<audit, cmds, generated, forgotten>>
    BY <1>2, TimeKeeps
  <1>3. CASE UNCHANGED vars
    <2>1. UNCHANGED <<keystore, revoked, exported, licenses, now, cutOff, audit, cmds, generated, forgotten>>
      BY <1>3 DEF vars, authorityVars
    <2>2. now \in Nat
      BY DEF VaultInv, TInv, AuthorityTypeOK
    <2>3. QED
      BY <2>1, <2>2, ElsewhereKeeps
  <1>4. QED
    BY <1>1, <1>2, <1>3, CommandOf

LEMMA VaultInvInit == ASSUME Alone, Init PROVE VaultInv
  <1>1. /\ AuthorityInit /\ audit = [entries |-> <<>>, end |-> "newline"]
        /\ cmds = [t \in Terminals |-> Idle] /\ generated = 0 /\ forgotten = {}
    BY DEF Init
  <1>2. AuthorityTypeOK /\ IsFiniteSet(licenses)
    BY <1>1, FileFacts, FS_EmptySet DEF AuthorityInit, AuthorityTypeOK
  <1>3. cmd = Idle /\ DOMAIN cmds = Terminals
    BY <1>1, Facts DEF cmd
  <1>4. /\ cmd.pc = "idle" /\ cmd.file = "none"
        /\ cmd = [pc |-> cmd.pc, file |-> cmd.file, content |-> cmd.content,
                  action |-> cmd.action, detail |-> cmd.detail, last |-> cmd.last]
    BY <1>3 DEF Idle
  <1>5. audit.entries = <<>> /\ audit.end = "newline" /\ audit = [entries |-> audit.entries, end |-> audit.end]
    BY <1>1
  <1>6. DOMAIN audit.entries = {} /\ audit.entries \in Seq(Entries)
    BY <1>5
  <1>7. TInv
    BY <1>1, <1>2, <1>4, <1>5, <1>6, AuthorityAssumption DEF TInv
  <1>8. CmdOK
    BY <1>3, <1>4 DEF CmdOK
  <1>9. mk = Absent
    BY <1>1, <1>4 DEF mk, AuthorityInit
  <1>10. Nothing
    BY <1>1, <1>4, <1>6 DEF Nothing, AuthorityInit, Effected
  <1>11. KsOK
    BY <1>9, <1>10, FileFacts DEF KsOK
  <1>12. LogOK
    BY <1>4, <1>6 DEF LogOK, Chained, Effected
  <1>13. QED
    BY <1>7, <1>8, <1>11, <1>12 DEF VaultInv

\* The invariant of a vault with one operator: what the command at the terminal is about
\* to write was computed from the files as they are.
THEOREM VaultInvariance == ASSUME Alone PROVE Spec => []VaultInv
  <1>1. Init => VaultInv
    BY VaultInvInit
  <1>2. VaultInv /\ [Next]_vars => VaultInv'
    BY VaultInvNext
  <1>3. QED
    BY <1>1, <1>2, PTL DEF Spec

\* Every file and every command has its type, for any number of keys and entries.
THEOREM VaultTypeCorrect == ASSUME Alone PROVE Spec => []TypeOK
  <1>1. VaultInv => TypeOK
    BY TypesFollow DEF VaultInv
  <1>2. QED
    BY <1>1, VaultInvariance, PTL

\* The log of one operator is one chain, wherever a command is killed: audit.rs's
\* append reads the hash that it chains to before it writes.
THEOREM OneChain == ASSUME Alone PROVE Spec => []AuditNeverForks
  <1>1. VaultInv => AuditNeverForks
    BY DEF VaultInv, LogOK, AuditNeverForks
  <1>2. QED
    BY <1>1, VaultInvariance, PTL

\* What the log of one operator says was done was done and is still so, for all five
\* actions: main.rs writes an entry after its effect, no later command takes a key, a
\* license or a revoked id away, and no rotation revives a key that a hard one retired.
THEOREM AuditIsTrue == ASSUME Alone PROVE Spec => []AuditedIsDone
  <1>1. VaultInv => AuditedIsDone
    <2>1. SUFFICES ASSUME VaultInv, NEW i \in DOMAIN audit.entries
                   PROVE  LET e == audit.entries[i]
                          IN  /\ e.action = "ISSUE" => \E l \in licenses : l.payload.id = e.detail
                              /\ e.action = "REVOKE" => e.detail \in Known
                              /\ e.action \in {"INIT_KEYSTORE", "ROTATE", "ROTATE_HARD"} /\ Readable(mk)
                                    => e.detail \in DOMAIN Content(mk).keys
                              /\ e.action = "ROTATE_HARD" /\ Readable(mk)
                                    => RetiredBefore(Content(mk), e.detail)
      BY MappingIs DEF AuditedIsDone, Known, RetiredBefore
    <2>2. Readable(mk) => Remembers(Content(mk))
      BY <2>1 DEF VaultInv, KsOK
    <2>3. QED
      BY <2>1, <2>2 DEF Remembers, KeyAction, VaultInv, LogOK
  <1>2. QED
    BY <1>1, VaultInvariance, PTL

\* A keystore that can be read has every key a license was signed with, and trusts its
\* signing key and none that was cut off: for commands that may be killed anywhere.
THEOREM VaultKeepsKeys == ASSUME Alone PROVE Spec => [](KeyHistoryKept /\ CutOffStaysRetired)
  <1>1. VaultInv => KeyHistoryKept /\ CutOffStaysRetired
    <2>1. ASSUME VaultInv, Readable(keystore) PROVE Remembers(Content(keystore))
      <3>1. mk = keystore
        BY <2>1, FileFacts DEF VaultInv, CmdOK, InHand, Creates, Rotates, Issues, Revokes, Exports, mk
      <3>2. QED
        BY <2>1, <3>1 DEF VaultInv, KsOK
    <2>2. QED
      BY <2>1 DEF Remembers, KeyHistoryKept, CutOffStaysRetired
  <1>2. QED
    BY <1>1, VaultInvariance, PTL

\* The vault of one operator implements Authority: its commands are done whole or not at
\* all, but for the file that a killed command was replacing.
THEOREM Refinement == ASSUME Alone PROVE Spec => ImplementsAuthority
  <1>1. Init => A!AuthorityInit
    <2>1. SUFFICES ASSUME Init PROVE A!AuthorityInit
      OBVIOUS
    <2>2. cmd = Idle /\ AuthorityInit
      <3>1. cmds = [t \in Terminals |-> Idle] /\ AuthorityInit
        BY <2>1 DEF Init
      <3>2. QED
        BY <3>1, Facts DEF cmd
    <2>3. mk = keystore /\ mr = revoked /\ mx = exported
      BY <2>2, Facts DEF mk, mr, mx
    <2>4. QED
      BY <2>2, <2>3, MappingIs DEF A!AuthorityInit, AuthorityInit, A!Absent, Absent
  <1>2. VaultInv /\ [Next]_vars => [A!AuthorityNext]_(A!authorityVars)
    <2>1. SUFFICES ASSUME VaultInv, [Next]_vars PROVE AStep
      BY MappingIs DEF AStep, A!authorityVars
    <2>2. CASE UNCHANGED vars
      BY <2>2 DEF vars, authorityVars, AStep, mk, mr, mx, cmd
    <2>3. CASE TimePasses /\ UNCHANGED <<audit, cmds, generated, forgotten>>
      BY <2>3, TimeSimulates
    <2>4. ASSUME NEW c, Begin(Op, c), c.pc = "truncate" PROVE AStep
      <3>1. cmd.pc = "idle" /\ cmd'.pc = "truncate" /\ UNCHANGED authorityVars
        BY <2>1, <2>4, Facts DEF Begin, cmd, VaultInv, CmdOK
      <3>2. QED
        BY <3>1, QuietSimulates
    <2>5. \A f, x, a, d : Running(f, x, a, d).pc = "truncate"
      BY DEF Running
    <2>6. CASE init_keystore(Op) \/ (\E r \in BOOLEAN : rotate_keystore(Op, r)) \/ issue(Op)
             \/ revoke(Op) \/ export_public(Op)
      BY <2>4, <2>5, <2>6 DEF init_keystore, rotate_keystore, issue, revoke, export_public
    <2>7. CASE Open(Op)
      <3>1. cmd.pc = "open" /\ UNCHANGED <<authorityVars, audit, generated>>
        BY <2>7 DEF Open, At, cmd
      <3>2. cmd'.pc # "write"
        <4>1. CASE audit.end = "torn"
          BY <2>1, <2>7, <4>1, ExitIs, Facts DEF Open, VaultInv
        <4>2. CASE audit.end # "torn"
          BY <2>1, <2>7, <4>2, Facts DEF Open, VaultInv, CmdOK, cmd
        <4>3. QED
          BY <4>1, <4>2
      <3>3. QED
        BY <3>1, <3>2, QuietSimulates
    <2>8. CASE AppendLine(Op)
      <3>1. /\ cmd.pc = "append" /\ UNCHANGED authorityVars
            /\ cmd' = [pc |-> "newline", file |-> cmd.file, content |-> cmd.content,
                       action |-> cmd.action, detail |-> cmd.detail, last |-> cmd.last]
        <4>1. Goto(Op, "newline") /\ cmds[Op].pc = "append" /\ UNCHANGED authorityVars
          BY <2>8 DEF AppendLine, At
        <4>2. QED
          BY <2>1, <4>1, GotoIs DEF cmd, VaultInv
      <3>2. cmd'.pc = "newline"
        BY <3>1
      <3>3. QED
        BY <3>1, <3>2, QuietSimulates
    <2>9. CASE Newline(Op)
      <3>1. cmd.pc = "newline" /\ cmd'.pc = "idle" /\ UNCHANGED authorityVars
        BY <2>1, <2>9, ExitIs, Facts DEF Newline, At, cmd, VaultInv
      <3>2. QED
        BY <3>1, QuietSimulates
    <2>10. CASE Truncate(Op) \/ Write(Op) \/ Kill(Op)
      BY <2>1, <2>10, TruncateSimulates, WriteSimulates, KillSimulates
    <2>11. QED
      BY <2>1, <2>2, <2>3, <2>6, <2>7, <2>8, <2>9, <2>10, CommandOf DEF Command
  <1>3. QED
    BY <1>1, <1>2, VaultInvariance, PTL DEF Spec, ImplementsAuthority, A!AuthoritySpec
=============================================================================

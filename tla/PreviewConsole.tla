---------------------------- MODULE PreviewConsole ----------------------------
(***************************************************************************)
(* One browser tab of the preview: the manager console (ManagerView.tsx),    *)
(* which issues, binds and revokes licenses, the license gate                *)
(* (LicenseGate.tsx) and the part of the client's store that decides what is *)
(* activated (store.ts), over one localStorage.                              *)
(*                                                                         *)
(* The console works on React state: it is filled from the disk by a timer   *)
(* of its mount, and every handler writes whole lists back from memory.  A   *)
(* handler and the render it causes are one step: React flushes a click      *)
(* before the next event.  Within the step one thing is open.  setAudit      *)
(* (prev => ...) runs its updater at once when the component has no update   *)
(* left over, else at the render, which is after a reload() of the handler   *)
(* has read the disk; which of the two is React's affair (UpdaterRuns).      *)
(*                                                                         *)
(* Time is in seconds, of which the code reads the clock; the durations are  *)
(* small.  A verification timer of the gate fires at any time (its 550 ms    *)
(* are VorStore's), in any view.  Abstracted: org, metadata, tier and        *)
(* max_devices (kept with a record and compared with nothing), the text of   *)
(* reports and log lines, which section of the console is open.              *)
(***************************************************************************)
EXTENDS PreviewLicense, FiniteSets

CONSTANTS
    Device,      \* this browser's machineHwid()
    DemoId,      \* the license id the demo forgery writes into a document
    None,        \* null
    Days,        \* what the duration field may say, in the unit of time
    MaxKeys,     \* bound: key pairs ever generated
    MaxIssued,   \* bound: envelopes ever signed for a customer
    MaxEntries,  \* bound: entries of the ledger
    Forms,       \* bound: the device lists the issue form is filled with
    Clock        \* bound: the moments anything happens at

ASSUME ConsoleAssumption ==
    /\ Device \in Hwids /\ DemoId \notin Ids /\ DemoId # Missing
    /\ Days \subseteq Int /\ {MaxKeys, MaxIssued, MaxEntries} \subseteq Nat
    /\ Forms \subseteq SUBSET DOMAIN Typed /\ Clock \subseteq Nat /\ 0 \in Clock

VARIABLES
    disk,    \* localStorage: keystore, trusted, licenses, audit, revoked, activated
    con,     \* the mounted console's React state, and whether its mount timer has fired
    client,  \* the store: view, managerUnlocked, activated; the gate's checks, boot
    now,     \* nowSecs()
    made,    \* key pairs generated so far: a new one is a number not used before
    issued,  \* history: the envelopes the console has signed for customers
    cutOff,  \* history: keys replaced by a hard rotation, or whose keystore is lost
    revokedEver  \* history: the ids the operator has revoked

history == <<made, issued, cutOff, revokedEver>>
vars    == <<disk, con, client, now, history>>
-----------------------------------------------------------------------------
NoMap == [x \in {} |-> x]

\* lsGet's fallbacks for keys that are not there; `trusted` falls back to null, which
\* isTrusted takes for no key.
EmptyDisk == [keystore |-> None, trusted |-> NoMap, licenses |-> NoMap, audit |-> <<>>,
              revoked |-> {}, activated |-> None]

\* The useState of a console that has not loaded; also of one that is not mounted.
Unloaded == [loaded |-> FALSE, ks |-> None, licenses |-> NoMap, audit |-> <<>>, revoked |-> {}]

loadManagerData(d) == [loaded |-> con.loaded, ks |-> d.keystore, licenses |-> d.licenses,
                       audit |-> d.audit, revoked |-> d.revoked]

StartOfPage == [view |-> "gate", unlocked |-> FALSE, activated |-> None, pending |-> {},
                booting |-> TRUE]

Mounted     == client.view = "manager" /\ client.unlocked
GateShown   == client.view = "gate" \/ (client.view = "client" /\ client.activated = None)
ClientShown == client.view = "client" /\ client.activated # None

Init ==
    /\ disk = EmptyDisk /\ con = Unloaded /\ client = StartOfPage
    /\ now = 0 /\ made = 0 /\ issued = {} /\ cutOff = {} /\ revokedEver = {}
-----------------------------------------------------------------------------
(* The shell and the console's mount *)

\* The header's CLIENT and MANAGER buttons; a console that leaves the screen is gone.
setView(v) ==
    /\ client.view # v
    /\ client' = [client EXCEPT !.view = v] /\ con' = Unloaded
    /\ UNCHANGED <<disk, now, history>>

setManagerUnlocked ==
    /\ client.view = "manager" /\ ~client.unlocked
    /\ client' = [client EXCEPT !.unlocked = TRUE] /\ con' = Unloaded
    /\ UNCHANGED <<disk, now, history>>

\* The mount effect's setTimeout(reload, 0).
Load ==
    /\ Mounted /\ ~con.loaded
    /\ con' = [loadManagerData(disk) EXCEPT !.loaded = TRUE]
    /\ UNCHANGED <<disk, client, now, history>>
-----------------------------------------------------------------------------
(* The console's handlers *)

\* The ledger in memory with one more entry; the handler writes it to the disk.
Pushed(action, about) == Append(con.audit, appendAudit(con.audit, action, about))

pushAudit(d, c, action, about) ==
    /\ Len(con.audit) < MaxEntries
    /\ con'  = [c EXCEPT !.audit = Pushed(action, about)]
    /\ disk' = [d EXCEPT !.audit = Pushed(action, about)]

\* pushAudit(...); reload(): what reload has read overrides what the updater returned.
UpdaterRuns == {"at once", "at the render"}
pushAuditAndReload(d, action, about) ==
    /\ Len(con.audit) < MaxEntries
    /\ disk' = [d EXCEPT !.audit = Pushed(action, about)]
    /\ \E runs \in UpdaterRuns :
          con' = loadManagerData(IF runs = "at once" THEN disk' ELSE d)

\* The NO KEYSTORE screen's button: it shows while ks is null, which it also is between
\* a mount and its timer.
GenerateKeystore ==
    /\ Mounted /\ con.ks = None /\ made < MaxKeys
    /\ LET store == generateKeystore(made + 1)
       IN  pushAuditAndReload([disk EXCEPT !.keystore = store, !.trusted = trustedFromKeystore(store)],
                              "KEYGEN", store.active)
    /\ made' = made + 1 /\ cutOff' = cutOff \cup DOMAIN disk.trusted
    /\ UNCHANGED <<client, now, issued, revokedEver>>

rotate_Mutant(retireOld) ==    \* shows the keystore it had
    /\ Mounted /\ con.ks # None /\ made < MaxKeys
    /\ LET next == rotateKeystore(con.ks, made + 1, retireOld)
       IN  pushAudit([disk EXCEPT !.keystore = next, !.trusted = trustedFromKeystore(next)], con,
                     "ROTATE", next.active)
    /\ made' = made + 1
    /\ cutOff' = IF retireOld THEN cutOff \cup DOMAIN con.ks.keys ELSE cutOff
    /\ UNCHANGED <<client, now, issued, revokedEver>>

rotate(retireOld) ==
    /\ Mounted /\ con.ks # None /\ made < MaxKeys
    /\ LET next == rotateKeystore(con.ks, made + 1, retireOld)
       IN  pushAuditAndReload([disk EXCEPT !.keystore = next, !.trusted = trustedFromKeystore(next)],
                              "ROTATE", next.active)
    /\ made' = made + 1
    /\ cutOff' = IF retireOld THEN cutOff \cup DOMAIN con.ks.keys ELSE cutOff
    /\ UNCHANGED <<client, now, issued, revokedEver>>

\* setLicenses(prev => ...) writes the list it returns.
setLicenses(list, action, about) ==
    pushAudit([disk EXCEPT !.licenses = list], [con EXCEPT !.licenses = list], action, about)

\* The issue modal.  The form refuses a duration of zero; a negative one it lets
\* through, and the schema refuses it.
submit ==
    /\ Mounted /\ con.ks # None /\ Cardinality(issued) < MaxIssued
    /\ \E id \in Ids \ {e.doc.id : e \in issued}, days \in Days \ {0}, bound \in Forms :
          LET p   == buildPayload(now, days, con.ks, id, bound)
              env == issueLicense(con.ks, p)
              summary == [env |-> env, expires_at |-> p.expires_at, bound |-> p.bound, revoked |-> FALSE]
          IN  /\ Issuable(p)
              /\ setLicenses([n \in DOMAIN con.licenses \cup {id} |->
                                 IF n = id THEN summary ELSE con.licenses[n]], "SIG_ISSUED", id)
              /\ issued' = issued \cup {env}
    /\ UNCHANGED <<client, now, made, cutOff, revokedEver>>

revoke_Mutant(id) ==           \* marks the record, forgets the list
    /\ Mounted /\ con.ks # None /\ id \in DOMAIN con.licenses /\ ~con.licenses[id].revoked
    /\ setLicenses([con.licenses EXCEPT ![id].revoked = TRUE], "REVOKE_EVENT", id)
    /\ revokedEver' = revokedEver \cup {id}
    /\ UNCHANGED <<client, now, made, issued, cutOff>>

revoke(id) ==
    /\ Mounted /\ con.ks # None /\ id \in DOMAIN con.licenses /\ ~con.licenses[id].revoked
    /\ LET list == [con.licenses EXCEPT ![id].revoked = TRUE]
           ids  == con.revoked \cup {id}
       IN  pushAudit([disk EXCEPT !.licenses = list, !.revoked = ids],
                     [con EXCEPT !.licenses = list, !.revoked = ids], "REVOKE_EVENT", id)
    /\ revokedEver' = revokedEver \cup {id}
    /\ UNCHANGED <<client, now, made, issued, cutOff>>

bindHwid_Mutant(id, typed) ==   \* the list keeps the envelope it had
    /\ Mounted /\ con.ks # None /\ id \in DOMAIN con.licenses
    /\ Cardinality(issued) < MaxIssued
    /\ LET l == con.licenses[id]
           p == [buildPayload(now, l.expires_at - now, con.ks, id, {typed}) EXCEPT !.bound = @ \cup l.bound]
       IN  /\ Issuable(p)
           /\ setLicenses([con.licenses EXCEPT ![id].bound = p.bound], "HWID_BIND", id)
           /\ issued' = issued \cup {issueLicense(con.ks, p)}
    /\ UNCHANGED <<client, now, made, cutOff, revokedEver>>

\* The bind modal re-signs the license, a revoked one too, for its devices (which are in
\* normal form already) and the one that was typed.  The clock is read twice,
\* for the new issue date and for the days that are left of the old duration: when it
\* moves on between the two, the new envelope ends that much earlier than the list says.
bindHwid(id, typed) ==
    /\ Mounted /\ con.ks # None /\ id \in DOMAIN con.licenses
    /\ Cardinality(issued) < MaxIssued
    /\ now' \in Clock \cap {now, now + 1}
    /\ LET l   == con.licenses[id]
           p   == [buildPayload(now, l.expires_at - now', con.ks, id, {typed}) EXCEPT !.bound = @ \cup l.bound]
           env == issueLicense(con.ks, p)
       IN  /\ Issuable(p)
           /\ setLicenses([con.licenses EXCEPT ![id].env = env, ![id].bound = p.bound],
                          "HWID_BIND", id)
           /\ issued' = issued \cup {env}
    /\ UNCHANGED <<client, made, cutOff, revokedEver>>

\* The key section's buttons: publish the trust store, export the revocation list, and
\* cache a forgery that nothing reads.  The backup changes nothing.
KeySection ==
    /\ Mounted /\ con.ks # None
    /\ \E d \in {disk, [disk EXCEPT !.trusted = trustedFromKeystore(con.ks)]} :
          pushAudit(d, con, "EXPORT", con.ks.active)
    /\ UNCHANGED <<client, now, history>>
-----------------------------------------------------------------------------
(* What the console's panels say *)

Status(l) == IF l.revoked THEN "revoked" ELSE IF l.expires_at <= now THEN "expired" ELSE "active"
Nodes(list) == {node \in (DOMAIN list) \X Hwids : node[2] \in list[node[1]].bound}
chainBroken == ~verifyAuditChain(con.audit)
-----------------------------------------------------------------------------
(* The gate *)

Verdict(env) == verifyLicense(env, disk.trusted, now, Device, disk.revoked)

\* runVerify, by the button, a file or a paste: any license that was ever handed out, or
\* text that is none.
runVerify(env) ==
    /\ GateShown /\ client.pending = {}
    /\ client' = [client EXCEPT !.pending = {env}]
    /\ UNCHANGED <<disk, con, now, history>>

\* A browser without a keystore gets one, without an entry in the ledger.
Authority == IF disk.keystore = None THEN generateKeystore(made + 1) ELSE disk.keystore
ensureDemoAuthority ==
    /\ disk.keystore = None => made < MaxKeys
    /\ made' = IF disk.keystore = None THEN made + 1 ELSE made
    /\ disk' = [disk EXCEPT !.keystore = Authority, !.trusted = trustedFromKeystore(Authority)]
    /\ UNCHANGED <<con, now, issued, cutOff, revokedEver>>

\* A document whose id is not the one that was signed.
demoTampered ==
    /\ GateShown /\ client.pending = {}
    /\ ensureDemoAuthority
    /\ \E id \in Ids, days \in Days :
          LET env == issueLicense(Authority, buildPayload(now, days, Authority, id, {}))
          IN  /\ Issuable(env.doc)
              /\ client' = [client EXCEPT !.pending = {[env EXCEPT !.doc.id = DemoId]}]

\* It asks for a license of minus three days, which issueLicense refuses to sign: the
\* handler throws when it has seen to the authority.
demoExpired ==
    /\ GateShown
    /\ ensureDemoAuthority
    /\ UNCHANGED client

\* verifyAndActivate on the store; on the disk only success shows.
Activated(c, env) ==
    IF Verdict(env) = "ok"
    THEN [c EXCEPT !.activated = env.doc, !.view = "client"]
    ELSE [c EXCEPT !.activated = None]

\* The timer of a pending check calls it, in whatever view that finds.
verifyAndActivate(env) ==
    /\ env \in client.pending
    /\ client' = Activated([client EXCEPT !.pending = @ \ {env}], env)
    /\ disk' = IF Verdict(env) = "ok" THEN [disk EXCEPT !.activated = env] ELSE disk
    /\ con'  = IF Verdict(env) = "ok" THEN Unloaded ELSE con
    /\ UNCHANGED <<now, history>>

\* The tail of boot(): the stored activation is verified again, and dropped if it fails.
boot ==
    /\ client.booting
    /\ LET quiet == [client EXCEPT !.booting = FALSE]
           env   == disk.activated
           kept  == env # None /\ Verdict(env) = "ok"
       IN  /\ client' = IF env = None THEN quiet ELSE Activated(quiet, env)
           /\ disk' = IF kept THEN disk ELSE [disk EXCEPT !.activated = None]
           /\ con'  = IF kept THEN Unloaded ELSE con
    /\ UNCHANGED <<now, history>>

deactivate ==
    /\ ClientShown
    /\ client' = [client EXCEPT !.activated = None, !.view = "gate"]
    /\ disk' = [disk EXCEPT !.activated = None]
    /\ UNCHANGED <<con, now, history>>

ReloadPage ==
    /\ client' = StartOfPage /\ con' = Unloaded
    /\ UNCHANGED <<disk, now, history>>

\* The settings' danger zone empties localStorage and reloads; the keys are lost with it.
resetAll ==
    /\ ClientShown
    /\ disk' = EmptyDisk /\ client' = StartOfPage /\ con' = Unloaded
    /\ cutOff' = cutOff \cup DOMAIN disk.trusted
    /\ UNCHANGED <<now, made, issued, revokedEver>>

TimePasses ==
    /\ now' \in {t \in Clock : t > now}
    /\ UNCHANGED <<disk, con, client, history>>
-----------------------------------------------------------------------------
Next ==
    \/ \E v \in {"client", "manager"} : setView(v)
    \/ setManagerUnlocked \/ Load
    \/ GenerateKeystore \/ (\E retireOld \in BOOLEAN : rotate(retireOld)) \/ submit
    \/ \E id \in Ids : revoke(id) \/ \E typed \in DOMAIN Typed : bindHwid(id, typed)
    \/ KeySection
    \/ (\E env \in issued \cup {Garbage} : runVerify(env)) \/ demoTampered \/ demoExpired
    \/ (\E env \in client.pending : verifyAndActivate(env)) \/ boot \/ deactivate
    \/ ReloadPage \/ resetAll \/ TimePasses

Spec == Init /\ [][Next]_vars
-----------------------------------------------------------------------------
(* Properties *)

Keys == 1..MaxKeys
KeyMaps == UNION {[K -> {"active", "retired"}] : K \in SUBSET Keys}
Documents == [version : {2}, id : Ids \cup {DemoId}, product : {"VOR"}, key : Keys, issued_at : Nat,
              not_before : Nat, expires_at : Int, tier : Tiers, entitlements : SUBSET Entitlements,
              bound : SUBSET Hwids]
IsEnvelope(env) ==
    /\ DOMAIN env = {"doc", "spelled", "sig", "pk"} /\ DOMAIN env.sig = {"by", "over"}
    /\ {env.pk, env.sig.by} \subseteq Keys /\ env.doc \in Documents /\ env.spelled \in Spellings
    /\ env.sig.over.doc \in Documents

\* A keystore's active key is one of its keys, and active.
IsKeystore(ks) == ks.keys \in KeyMaps /\ isTrusted(ks.keys, ks.active)

IsRecordMap(list) ==
    DOMAIN list \subseteq Ids /\ \A id \in DOMAIN list :
        /\ IsEnvelope(list[id].env) /\ list[id].expires_at \in Int
        /\ list[id].bound \subseteq Hwids /\ list[id].revoked \in BOOLEAN
IsLedger(entries) == \A i \in DOMAIN entries : entries[i].seq = i - 1

\* Everything in storage, in memory and in the store has its type.
TypeOK ==
    /\ disk.keystore # None => IsKeystore(disk.keystore)
    /\ disk.trusted \in KeyMaps /\ IsRecordMap(disk.licenses) /\ IsLedger(disk.audit)
    /\ disk.revoked \subseteq Ids /\ (disk.activated # None => IsEnvelope(disk.activated))
    /\ con.loaded \in BOOLEAN /\ IsRecordMap(con.licenses) /\ IsLedger(con.audit)
    /\ client.view \in {"gate", "client", "manager"} /\ {client.unlocked, client.booting} \subseteq BOOLEAN
    /\ client.activated # None => client.activated \in Documents
    /\ now \in Clock /\ made \in 0..MaxKeys /\ cutOff \subseteq Keys /\ revokedEver \subseteq Ids

\* A console that shows a keystore has in memory what is on the disk: the handlers write
\* whole lists back, so anything else would be an update lost.  (Not so the ledger.)
MemoryIsDisk ==
    con.ks # None =>
        /\ con.ks = disk.keystore /\ con.licenses = disk.licenses /\ con.revoked = disk.revoked
        /\ disk.trusted = disk.keystore.keys

\* The console's list tells the truth about the licenses handed out: each record's envelope
\* was signed for that id and those devices and ends when the record says, or the second
\* earlier that a re-signing may cost; the records marked revoked are the revocation list;
\* and a license that the gate would still accept on some device is shown active, or ended
\* within the skew, and that device is among the nodes shown.
RecordsAreTrue ==
    /\ \A id \in DOMAIN disk.licenses :
          LET l == disk.licenses[id]
          IN  /\ l.env \in issued /\ l.env.doc.id = id /\ l.env.doc.bound = l.bound
              /\ l.env.doc.expires_at \in {l.expires_at, l.expires_at - 1}
    /\ disk.revoked = {id \in DOMAIN disk.licenses : disk.licenses[id].revoked}
    /\ \A id \in DOMAIN con.licenses, hwid \in Hwids :
          LET l == con.licenses[id]
          IN  verifyLicense(l.env, disk.trusted, now, hwid, disk.revoked) = "ok" =>
                  /\ Status(l) = "active" \/ (Status(l) = "expired" /\ now <= l.expires_at + Skew)
                  /\ l.bound = {} \/ <<id, hwid>> \in Nodes(con.licenses)

\* What the ledger on the disk says was done, was done: its chain verifies, as the ledger
\* panel says of the copy in memory; the licenses it says were issued or bound are listed,
\* those it says were revoked are on the revocation list, and the keys it names were made.
LedgerNeverLies ==
    /\ verifyAuditChain(disk.audit) /\ ~chainBroken
    /\ \A i \in DOMAIN disk.audit :
          LET e == disk.audit[i]
          IN  /\ e.action \in {"SIG_ISSUED", "HWID_BIND", "REVOKE_EVENT"} => e.about \in DOMAIN disk.licenses
              /\ e.action = "REVOKE_EVENT" => e.about \in disk.revoked
              /\ e.action \in {"KEYGEN", "ROTATE"} => e.about \in 1..made

\* What a license is worth by its history, wherever a copy of it is kept: it was signed by
\* the console as it stands, its key was not cut off, its id never revoked, this is a
\* device of it, and the clock is within its window, give or take the skew.
Due(env) ==
    /\ env \in issued /\ env.pk \notin cutOff /\ env.doc.id \notin revokedEver
    /\ env.doc.bound = {} \/ Device \in env.doc.bound
    /\ env.doc.not_before - Skew <= now /\ now <= env.doc.expires_at + Skew

\* A check, by a timer of the gate or by boot, activates exactly the licenses that are due,
\* however the operator's work and the check interleaved.
VerdictIsDue ==
    [][ /\ \A env \in client.pending :
              verifyAndActivate(env) => (client'.activated # None <=> Due(env))
        /\ boot => (client'.activated # None <=> disk.activated # None /\ Due(disk.activated)) ]_vars

\* What the gate has been given, and what becomes of it when it is spelled another way, a
\* field is edited or the public key exchanged.
Tampered ==
    UNION {{env, [env EXCEPT !.spelled = "other"], [env EXCEPT !.doc.id = DemoId], [env EXCEPT !.doc.expires_at = @ + 1],
            [env EXCEPT !.doc.expires_at = env.doc.not_before]}
              \cup {[env EXCEPT !.pk = k] : k \in 1..made}
              \cup {[env EXCEPT !.pk = k, !.doc.key = k] : k \in 1..made} : env \in client.pending \ {Garbage}}

\* What the preview's verifier and the Rust core's say of what the gate is given, at any
\* time.  Of a document in its canonical spelling both say the same, with the same code.  Of
\* one that is spelled otherwise the core says what the preview says as long as neither has
\* got to the signature, then that the signature is not over this text: it accepts none.
MirrorsCore ==
    \A env \in {e \in Tampered : InCore(e)} :
        LET preview == Verdict(env)
            core    == CoreVerdict(env, disk.trusted, now, Device, disk.revoked)
        IN  IF env.spelled = "canonical" THEN core = preview
            ELSE core \in {preview, "E_SIGNATURE"} \ {"ok"}

\* The root that the ledger panel shows tells which ledger it is: the disk's, if it is the
\* disk's root.
RootTells == auditRoot(con.audit) = auditRoot(disk.audit) => con.audit = disk.audit

(* What a document says and the console does not do. *)

\* keystore.ts: "mirror of vor-license keys.rs"; for a document in any spelling.
MirrorsEverySpelling ==
    \A env \in {e \in Tampered : InCore(e)} :
        Verdict(env) = CoreVerdict(env, disk.trusted, now, Device, disk.revoked)

\* audit.ts: "Tamper-evident append-only audit log"; of a console that has loaded.
LedgerOnlyGrows ==
    [][ con.loaded /\ disk' # EmptyDisk =>
            SubSeq(disk'.audit, 1, Len(disk.audit)) = disk.audit ]_vars
=============================================================================

-------------------------------- MODULE Vault --------------------------------
(***************************************************************************)
(* The operator's vault and the tool that works on it (core/vor-cli, over    *)
(* core/vor-license): a directory with keystore.json, revoked.json and       *)
(* audit.jsonl, and the license files and trusted-key bundles written from   *)
(* it.                                                                      *)
(*                                                                         *)
(* A command reads what it needs, computes, replaces one file and appends to *)
(* the log, and takes no lock.  fs::write truncates before it writes and     *)
(* writeln! writes the line before its newline, so a command that is killed  *)
(* (a panic, Ctrl-C, a power cut) may leave a torn file or a log without its *)
(* last newline.  A command that fails before it has changed anything is     *)
(* left out.                                                                *)
(***************************************************************************)
EXTENDS Authority, Sequences

CONSTANTS
    Terminals,   \* the shells commands run in; one for an operator alone
    MaxEntries   \* bound: lines of the log

ASSUME VaultAssumption == MaxEntries \in Nat

VARIABLES
    audit,     \* audit.jsonl: its entries, and how its last line ends
    cmds,      \* terminal -> the command that runs there
    generated, \* history: the keys generated so far are 1..generated
    forgotten  \* history: the ids on the revocation lists that killed commands tore

vars == <<authorityVars, audit, cmds, generated, forgotten>>
-----------------------------------------------------------------------------
\* `last` is the hash of the entry to chain to.
Idle == [pc |-> "idle", file |-> "none", content |-> {}, action |-> "none", detail |-> 0, last |-> 0]

\* A command that will replace `file` by `content` and then log its action.
Running(file, content, action, detail) ==
    [pc |-> "truncate", file |-> file, content |-> content, action |-> action,
     detail |-> detail, last |-> 0]

LastHash_Mutant(entries) ==    \* of the entry before the last
    IF Len(entries) < 2 THEN 0 ELSE entries[Len(entries) - 1].hash

LastHash(entries) == IF entries = <<>> THEN 0 ELSE entries[Len(entries)].hash

Chained(entries) ==      \* verify_chain
    \A i \in DOMAIN entries :
        entries[i].prev = IF i = 1 THEN 0 ELSE entries[i - 1].hash

Init ==
    /\ AuthorityInit
    /\ audit = [entries |-> <<>>, end |-> "newline"]
    /\ cmds = [t \in Terminals |-> Idle]
    /\ generated = 0 /\ forgotten = {}
-----------------------------------------------------------------------------
(* The first step of a command: what it reads and computes. *)

Begin(t, cmd) ==
    /\ cmds[t] = Idle /\ Len(audit.entries) < MaxEntries
    /\ cmds' = [cmds EXCEPT ![t] = cmd]
    /\ UNCHANGED <<authorityVars, audit, forgotten>>

\* A new key pair differs from every other.
NewKey == generated < MaxKeys /\ generated' = generated + 1

init_keystore_Mutant(t) ==     \* does not look for a keystore
    /\ NewKey
    /\ Begin(t, Running("keystore", generate(generated'), "INIT_KEYSTORE", generated'))

init_keystore(t) ==
    /\ keystore = Absent
    /\ NewKey
    /\ Begin(t, Running("keystore", generate(generated'), "INIT_KEYSTORE", generated'))

rotate_keystore(t, retire_old) ==
    /\ Readable(keystore)
    /\ NewKey
    /\ Begin(t, Running("keystore", rotate(Content(keystore), generated', retire_old),
                        IF retire_old THEN "ROTATE_HARD" ELSE "ROTATE", generated'))

issue(t) ==
    /\ Readable(keystore) /\ Cardinality(licenses) < MaxLicenses
    /\ \E id \in Ids, days \in Days, bound \in SUBSET Hwids :
          LET p == [id |-> id, key |-> Content(keystore).active, not_before |-> now,
                    expires_at |-> now + days, bound |-> bound]
          IN  /\ validate_schema(p)
              /\ Begin(t, Running("license", issue_license(Content(keystore), p), "ISSUE", id))
    /\ UNCHANGED generated

revoke_Mutant(t) ==            \* a list of the one id
    /\ \E id \in Ids : Begin(t, Running("revoked", {id}, "REVOKE", id))
    /\ UNCHANGED generated

revoke(t) ==
    /\ \E id \in Ids : Begin(t, Running("revoked", Listed(revoked) \cup {id}, "REVOKE", id))
    /\ UNCHANGED generated

\* The bundle goes to a file of its own, and nothing to the log.
export_public(t) ==
    /\ Readable(keystore)
    /\ Begin(t, Running("bundle", Bundle, "none", 0))
    /\ UNCHANGED generated

(* The other steps. *)

At(t, pc)   == cmds[t].pc = pc
Goto(t, pc) == cmds' = [cmds EXCEPT ![t].pc = pc]
Exit(t)     == cmds' = [cmds EXCEPT ![t] = Idle]

\* fs::write opens the file.  (A license file cut short is no license.)
Truncate(t) ==
    /\ At(t, "truncate") /\ Goto(t, "write")
    /\ keystore' = IF cmds[t].file = "keystore" THEN Torn ELSE keystore
    /\ revoked'  = IF cmds[t].file = "revoked" THEN Torn ELSE revoked
    /\ exported' = IF cmds[t].file = "bundle" THEN Torn ELSE exported
    /\ cutOff'   = IF cmds[t].action = "ROTATE_HARD" /\ Readable(keystore)
                   THEN cutOff \cup DOMAIN Content(keystore).keys ELSE cutOff
    /\ UNCHANGED <<licenses, now, audit, generated, forgotten>>

\* fs::write writes it; with the bundle the command is over.
Write(t) ==
    /\ At(t, "write")
    /\ LET c == cmds[t]
       IN  /\ IF c.file = "bundle" THEN Exit(t) ELSE Goto(t, "open")
           /\ keystore' = IF c.file = "keystore" THEN Holds(c.content) ELSE keystore
           /\ revoked'  = IF c.file = "revoked" THEN Holds(c.content) ELSE revoked
           /\ exported' = IF c.file = "bundle" THEN Holds(c.content) ELSE exported
           /\ licenses' = IF c.file = "license" THEN licenses \cup {c.content} ELSE licenses
    /\ UNCHANGED <<now, cutOff, audit, generated, forgotten>>

\* AuditLog::open; the command dies of a log it cannot parse, its effect done.
Open(t) ==
    /\ At(t, "open")
    /\ IF audit.end = "torn" THEN Exit(t)
       ELSE cmds' = [cmds EXCEPT ![t].pc = "append", ![t].last = LastHash(audit.entries)]
    /\ UNCHANGED <<authorityVars, audit, generated, forgotten>>

\* The entry of a command.  Its hash is unique, as its place in the file is.
Entry_Mutant(c) ==             \* chains to the entry before the last
    [action |-> c.action, detail |-> c.detail, prev |-> c.last - 1, hash |-> Len(audit.entries) + 1]

Entry(c) == [action |-> c.action, detail |-> c.detail, prev |-> c.last,
             hash |-> Len(audit.entries) + 1]

\* AuditLog::append, up to the newline; two entries on one line cannot be parsed.
AppendLine(t) ==
    /\ At(t, "append") /\ Goto(t, "newline")
    /\ audit' = IF audit.end = "newline"
                THEN [entries |-> Append(audit.entries, Entry(cmds[t])), end |-> "open"]
                ELSE [audit EXCEPT !.end = "torn"]
    /\ UNCHANGED <<authorityVars, generated, forgotten>>

Newline(t) ==
    /\ At(t, "newline") /\ Exit(t)
    /\ audit' = [audit EXCEPT !.end = IF @ = "open" THEN "newline" ELSE @]
    /\ UNCHANGED <<authorityVars, generated, forgotten>>

\* Killed between two steps, or within the write of a line.
Kill(t) ==
    /\ cmds[t] # Idle /\ Exit(t)
    /\ \/ UNCHANGED audit
       \/ At(t, "append") /\ audit' = [audit EXCEPT !.end = "torn"]
    /\ forgotten' = IF At(t, "write") /\ cmds[t].file = "revoked"
                    THEN forgotten \cup cmds[t].content ELSE forgotten
    /\ UNCHANGED <<authorityVars, generated>>

Command(t) ==
    \/ init_keystore(t) \/ (\E r \in BOOLEAN : rotate_keystore(t, r)) \/ issue(t) \/ revoke(t)
    \/ export_public(t) \/ Truncate(t) \/ Write(t) \/ Open(t) \/ AppendLine(t) \/ Newline(t)
    \/ Kill(t)

Next == \/ \E t \in Terminals : Command(t)
        \/ TimePasses /\ UNCHANGED <<audit, cmds, generated, forgotten>>

Spec == Init /\ [][Next]_vars
-----------------------------------------------------------------------------
(* Properties *)

Actions == {"INIT_KEYSTORE", "ROTATE", "ROTATE_HARD", "ISSUE", "REVOKE"}
Entries == [action : Actions, detail : Ids \cup Keys, prev : Nat, hash : Nat]

\* Every file and every command has its type.
TypeOK ==
    /\ AuthorityTypeOK
    /\ audit.entries \in Seq(Entries) /\ audit.end \in {"newline", "open", "torn"}
    /\ generated \in 0..MaxKeys /\ forgotten \subseteq Ids
    /\ \A t \in Terminals :
          LET c == cmds[t]
          IN  /\ c.pc \in {"idle", "truncate", "write", "open", "append", "newline"}
              /\ c.pc # "idle" /\ c.file # "bundle" =>
                    c.action \in Actions /\ c.detail \in Ids \cup Keys /\ c.last \in Nat
              /\ c.file = "keystore" => IsKeystore(c.content)
              /\ c.file = "revoked" => c.content \subseteq Ids
              /\ c.file = "license" => c.content \in Envelopes
              /\ c.file = "bundle" => \A k \in DOMAIN c.content.keys :
                                         k \in Keys /\ c.content.keys[k] \in Statuses

\* A log that can be read is one chain: a killed command may tear it, never fork it.
AuditNeverForks == audit.end # "torn" => Chained(audit.entries)

\* A file that a command is replacing has its new content from the moment it is truncated,
\* and is lost if the command does not live to write it.
Replacing(file) == \E t \in Terminals : At(t, "write") /\ cmds[t].file = file
Replaced(f, file) ==
    IF Replacing(file)
    THEN Holds(cmds[CHOOSE t \in Terminals : At(t, "write") /\ cmds[t].file = file].content)
    ELSE f

\* What the log says was done, was done and is still so: a license issued was written; an id
\* revoked is on the list, unless a command that was killed tore the list it was on; the
\* keystore, unless one tore it, has the keys made, and the keys that came before a hard
\* rotation's are retired.
AuditedIsDone ==
    LET file == Replaced(keystore, "keystore")
        keys == Content(file).keys
    IN  \A i \in DOMAIN audit.entries :
            LET e == audit.entries[i]
            IN  /\ e.action = "ISSUE" => \E l \in licenses : l.payload.id = e.detail
                /\ e.action = "REVOKE" =>
                      e.detail \in Listed(Replaced(revoked, "revoked")) \cup forgotten
                /\ e.action \in {"INIT_KEYSTORE", "ROTATE", "ROTATE_HARD"} /\ Readable(file) =>
                      e.detail \in DOMAIN keys
                /\ e.action = "ROTATE_HARD" /\ Readable(file) =>
                      \A k \in DOMAIN keys : k < e.detail => keys[k] = "Retired"

\* The vault implements Authority.
A == INSTANCE Authority WITH keystore <- Replaced(keystore, "keystore"),
                             revoked <- Replaced(revoked, "revoked"),
                             exported <- Replaced(exported, "bundle")

\* Every step of the vault is a step of Authority or leaves it alone.
ImplementsAuthority == A!AuthoritySpec
=============================================================================

---------------------------- MODULE LicenseSystem ----------------------------
(***************************************************************************)
(* Licensing from the vault to a device: the operator's vault (Authority,    *)
(* which Vault implements), the client releases built from what it exports,  *)
(* and the license controller of one Flutter client                          *)
(* (apps/vor_client/lib/core/license_controller.dart) with the boot code     *)
(* (app.dart), the gate and the settings screen that call it.                *)
(*                                                                         *)
(* Their calls are coroutines and overlap.  Operations on the secure storage *)
(* end in the order they were started, as messages of one platform channel   *)
(* do.  Abstracted: the report beyond its verdict, files picked in the gate, *)
(* the transition during which the gate left is still mounted.               *)
(***************************************************************************)
EXTENDS Authority, Sequences

CONSTANTS
    Device,     \* this client's hardware id
    Drift,      \* how far its clock may be from the operator's
    None,       \* no envelope
    MaxReleases \* bound: client releases

ASSUME SystemAssumption == /\ Device \in Hwids /\ MaxReleases \in Nat
                           /\ Drift \subseteq (-Skew)..Skew

VARIABLES
    release,   \* the latest client release: its number, bundle and revocation list
    installed, \* the release on this device
    drift,     \* this device's clock, relative to the operator's
    stored,    \* the envelope in the secure storage
    activated, gateRoute,
    calls,     \* caller -> where its call waits
    storage    \* the callers whose storage operation is under way, in order

clientVars == <<installed, drift, stored, activated, gateRoute, calls, storage>>
vars == <<authorityVars, release, clientVars>>
-----------------------------------------------------------------------------
Callers == {"boot", "gate", "settings"}

\* A call waits for a read, a write or a delete of the storage, or for the bundle or the
\* boot's revocation list to load.  Its screen may be gone when it is over (`mounted`).
NoCall  == [pc |-> "done", env |-> None, mounted |-> FALSE]
Waiting(pc, env) == [pc |-> pc, env |-> env, mounted |-> TRUE]

\* An envelope a customer holds: a license as it was written, or a damaged copy.
Held == licenses \cup {[l EXCEPT !.intact = FALSE] : l \in licenses}

NoRelease == [number |-> 0, bundle |-> Absent, revoked |-> {}]

\* The FFI call passes no revocation list: the controller's own is never used.
verifyLicense(env) == verify_license(env, Content(installed.bundle).keys, now + drift, Device, {})

Init ==
    /\ AuthorityInit
    /\ release = NoRelease
    /\ installed = NoRelease /\ drift \in Drift
    /\ stored = None /\ activated = FALSE /\ gateRoute = TRUE
    /\ calls = [c \in Callers |-> NoCall] /\ storage = <<>>
-----------------------------------------------------------------------------
\* A client is built with the exported bundle and the vault's revocation list.
BuildRelease ==
    /\ Readable(exported) /\ release.number < MaxReleases
    /\ release' = [number |-> release.number + 1, bundle |-> exported, revoked |-> Listed(revoked)]
    /\ UNCHANGED <<authorityVars, clientVars>>

(* The client *)

\* The app starts: the same release again or the latest one; _VorAppState.initState.
StartApp ==
    /\ release # NoRelease
    /\ installed' \in {installed, release} \ {NoRelease}
    /\ activated' = FALSE /\ gateRoute' = TRUE
    /\ calls' = [c \in Callers |-> IF c = "boot" THEN Waiting("list", None) ELSE NoCall]
    /\ storage' = <<>>
    /\ UNCHANGED <<drift, stored>>

Answered(c) == storage # <<>> /\ Head(storage) = c /\ storage' = Tail(storage)

\* The call c goes on to wait, or ends and leaves the gate on screen or not.  Leaving
\* the gate unmounts it.
Wait(c, call) == calls' = [calls EXCEPT ![c] = call] /\ UNCHANGED gateRoute
End(c, gate) ==
    /\ gateRoute' = gate
    /\ calls' = [calls EXCEPT ![c] = NoCall, !["gate"].mounted = @ /\ gate /\ c # "gate"]

\* What the caller does with the verdict: the boot routes by it, the gate leaves on
\* success if it is still mounted.
Routed(c, ok) == IF c = "boot" THEN ~ok ELSE gateRoute /\ ~(ok /\ calls[c].mounted)

\* loadRevocationList is over, with the list or without, and restoreSession reads the storage.
ListLoaded ==
    /\ calls["boot"].pc = "list"
    /\ storage' = Append(storage, "boot") /\ Wait("boot", Waiting("read", None))
    /\ UNCHANGED <<installed, drift, stored, activated>>

\* The storage has answered; restoreSession calls activate, which awaits the bundle.
Restored ==
    /\ calls["boot"].pc = "read" /\ Answered("boot")
    /\ IF stored = None THEN End("boot", TRUE) ELSE Wait("boot", Waiting("load", stored))
    /\ UNCHANGED <<installed, drift, stored, activated>>

\* The gate's _activate.
activate(env) ==
    /\ installed # NoRelease /\ gateRoute /\ calls["gate"].pc = "done"
    /\ Wait("gate", Waiting("load", env))
    /\ UNCHANGED <<installed, drift, stored, activated, storage>>

\* activate() has the bundle and verifies.
Accept_Mutant(c) ==       \* the write is not awaited
    /\ calls[c].pc = "load" /\ verifyLicense(calls[c].env) = "ok"
    /\ storage' = Append(storage, c) /\ activated' = TRUE /\ End(c, Routed(c, TRUE))
    /\ UNCHANGED <<installed, drift, stored>>

Accept(c) ==
    /\ calls[c].pc = "load" /\ verifyLicense(calls[c].env) = "ok"
    /\ storage' = Append(storage, c) /\ Wait(c, [calls[c] EXCEPT !.pc = "write"])
    /\ UNCHANGED <<installed, drift, stored, activated>>

Reject(c) ==
    /\ calls[c].pc = "load" /\ verifyLicense(calls[c].env) # "ok"
    /\ activated' = FALSE /\ End(c, Routed(c, FALSE))
    /\ UNCHANGED <<installed, drift, stored, storage>>

Written(c) ==
    /\ calls[c].pc = "write" /\ Answered(c)
    /\ stored' = calls[c].env
    /\ activated' = TRUE /\ End(c, Routed(c, TRUE))
    /\ UNCHANGED <<installed, drift>>

\* The settings screen's button, and deactivate() after the storage has answered.  (The
\* button pressed again meanwhile deletes what is being deleted.)
Deactivate ==
    /\ ~gateRoute /\ calls["settings"].pc = "done"
    /\ storage' = Append(storage, "settings") /\ Wait("settings", Waiting("delete", None))
    /\ UNCHANGED <<installed, drift, stored, activated>>

Deleted ==
    /\ calls["settings"].pc = "delete" /\ Answered("settings")
    /\ stored' = None /\ activated' = FALSE /\ End("settings", TRUE)
    /\ UNCHANGED <<installed, drift>>

Client ==
    /\ \/ StartApp \/ ListLoaded \/ Restored \/ Deactivate \/ Deleted
       \/ \E c \in Callers : Accept(c) \/ Reject(c) \/ Written(c)
       \/ \E env \in Held : activate(env)
    /\ UNCHANGED <<authorityVars, release>>

\* The vault's commands are short: an issue reads the clock when it is done.
Operator == Steps({now}) /\ UNCHANGED <<release, clientVars>>

Next == Operator \/ BuildRelease \/ Client

Spec == Init /\ [][Next]_vars
-----------------------------------------------------------------------------
(* Properties *)

\* Whether the license behind an envelope is good on this device with this release,
\* judged by what happened and not by what the files say: it is as issued, its key was
\* in use by the export, and no hard rotation before the export had cut the key off.
Good(env) ==
    LET p == env.payload
        b == Content(installed.bundle)
    IN  /\ env \in licenses /\ p.key \in b.served \ b.cutOff
        /\ p.bound = {} \/ Device \in p.bound

\* By the operator's clock, the days it covers, and those with two skews' grace: one the
\* verifier grants, one the device's own clock may be off by.
Covered(env, grace) ==
    now \in (env.payload.not_before - grace)..(env.payload.expires_at + grace)

\* Across rotations, exports and releases, a device whose clock is within the skew
\* accepts every good license in its days, and no license that is not good or is
\* outside its days by more than two skews.
VerdictIsDue ==
    [][ \A c \in Callers :
          /\ Reject(c) => ~(Good(calls[c].env) /\ Covered(calls[c].env, 0))
          /\ Accept(c) => Good(calls[c].env) /\ Covered(calls[c].env, 2 * Skew) ]_vars

\* However the boot's, the gate's and the settings' calls overlap, home is reached only
\* with the license that opens it in the storage, as it was issued: the next boot finds it.
HomeHasLicense == [][ gateRoute /\ ~gateRoute' => stored' \in licenses ]_vars

\* A license on the revocation list of the installed release is not accepted.
RevokedIsRejected ==
    [][ \A c \in Callers : Accept(c) => calls[c].env.payload.id \notin installed.revoked ]_vars
=============================================================================

------------------------------ MODULE VorStore ------------------------------
(***************************************************************************)
(* The connection orchestrator of the preview client                       *)
(* (apps/preview/src/lib/vor/store.ts): connect(), disconnect() and         *)
(* runConnectFor() over one shared zustand store, the RST-burst timer of    *)
(* the 1 Hz engine loop, scenario switches, and the license gate that       *)
(* decides whether connect() may run at all.                                *)
(*                                                                         *)
(* Every `await sleepChecked(ms, token)` of runConnectFor is a suspension   *)
(* point: the coroutine sleeps with its token, other handlers run, and when *)
(* it wakes it compares its token with connectTokenRef.  Each action below  *)
(* is the synchronous code between two suspensions.                         *)
(*                                                                         *)
(* Time is relative: a sleeping coroutine and a pending timer carry the     *)
(* milliseconds they still wait.  Elapse lets time pass, never past a timer *)
(* that is due, so timers fire in the order of their due times, as the      *)
(* browser's timer queue fires them.  The delays are the code's own.        *)
(*                                                                         *)
(* A definition named d_Mutant is d with a plausible slip in it; the        *)
(* properties must notice it when it takes the place of d.                  *)
(*                                                                         *)
(* Abstracted: endpoint scores (any candidate may be picked), Math.random() *)
(* (a handshake may fail or succeed in every scenario: failChance is never  *)
(* 0 or 1), telemetry, log lines, and the verification of an envelope,      *)
(* whose verdict is membership in the set `valid`.                          *)
(***************************************************************************)
EXTENDS Integers, Sequences, FiniteSets

CONSTANTS
    Endpoints, NoEndpoint,
    Fleet,        \* the endpoints, in the order of BASE_ENDPOINTS
    Cdn,          \* those of them that are CDN-routed
    Envelopes,    \* license envelopes a user may submit
    NoEnvelope,   \* localStorage holds no activation
    MAX_ATTEMPTS, \* the retry budget (5 in the code)
    Quanta,       \* the amounts of milliseconds time may pass by
    MaxTokens,    \* bound: connect tokens handed out between two page loads
    MaxPending    \* bound: license checks pending in the gate at a time

ASSUME FleetAssumption    == Fleet \in Seq(Endpoints) /\ Cdn \subseteq Endpoints
ASSUME EnvelopeAssumption == NoEnvelope \notin Envelopes
ASSUME BoundAssumption    == /\ MAX_ATTEMPTS \in Nat \ {0}
                             /\ MaxTokens \in Nat
                             /\ MaxPending \in Nat
ASSUME QuantaAssumption   == Quanta \subseteq Nat \ {0}

VARIABLES
    token,        \* connectToken = connectTokenRef (always written together)
    runs,         \* token -> the runConnectFor coroutine that carries it
    tunnel, attempt, transport, selected,
    sessionStart, \* 0 for null, else the token whose run set it
    rst,          \* pending 1500 ms timers of the RST burst
    scenario,
    split,        \* "client_hello_split" is among activeCms
    activated,    \* activated # null
    saved,        \* localStorage: the stored activation
    valid,        \* envelopes the verifier accepts now
    gate,         \* the gate's pending 550 ms verification timers
    booting,      \* boot() is awaiting the model manifest
    autoFired     \* history: how often auto-connect fired since page load (2: or more)

connVars    == <<token, runs, tunnel, attempt, transport, selected, sessionStart>>
licenseVars == <<activated, saved, valid, gate, booting>>
vars == <<connVars, rst, scenario, split, licenseVars, autoFired>>
-----------------------------------------------------------------------------
Tokens    == 0..MaxTokens
Scenarios == {"calm", "active_dpi", "blackout"}  \* "throttling" behaves as "calm"

TRANSPORT_LADDER == <<"reality_direct", "ws_tls_cdn", "grpc_tls",
                      "httpupgrade_cdn", "ss2022">>
Transports == {TRANSPORT_LADDER[i] : i \in 1..5}

Busy == {"preparing", "checking_network", "connecting", "handshake",
         "reconnecting", "switching_transport"}
TunnelStates == Busy \cup {"idle", "connected", "license_required", "config_error"}

Least(a, b) == IF a <= b THEN a ELSE b

\* Where a coroutine sleeps, and the tunnel state it set before it slept.
Pcs   == {"prepare", "probe", "dial", "handshake", "switch", "backoff"}
Stage == [prepare   |-> "preparing",  probe     |-> "checking_network",
          dial      |-> "connecting", handshake |-> "handshake",
          switch    |-> "switching_transport",
          backoff   |-> "reconnecting"]
Done == [pc |-> "done", wait |-> 0, att |-> 0]

PREPARE_MS   == 650
PROBE_MS     == 750
DIAL_MS      == 850
HANDSHAKE_MS == 700
SWITCH_MS    == 500
RST_MS_Mutant == 3500          \* longer than any dial takes
RST_MS       == 1500
VERIFY_MS    == 550

\* min(8000, 500 * 2^min(4, attempt)), of which runConnectFor sleeps at most 2200.
Pow2 == [i \in 0..4 |-> CASE i = 0 -> 1 [] i = 1 -> 2 [] i = 2 -> 4
                          [] i = 3 -> 8 [] i = 4 -> 16]
backoffMs(a) == Least(8000, 500 * Pow2[Least(4, a)])

\* The candidates pickBest is given: in a blackout the CDN-routed endpoints over
\* WS, otherwise each endpoint over the transport at its own place on the ladder.
Candidates(s) ==
    LET All == {<<Fleet[i], TRANSPORT_LADDER[Least(i, 5)]>> : i \in DOMAIN Fleet}
    IN  IF s = "blackout" THEN {<<c[1], "ws_tls_cdn">> : c \in {a \in All : a[1] \in Cdn}}
                          ELSE All

\* The transport below t on the ladder; the last one stays.
NextTransport(t) ==
    LET idx == CHOOSE i \in 1..5 : TRANSPORT_LADDER[i] = t
    IN  TRANSPORT_LADDER[Least(idx + 1, 5)]

LiveRun == runs[token].pc # "done"
-----------------------------------------------------------------------------
Init ==
    /\ token = 0 /\ runs = [t \in Tokens |-> Done]
    /\ tunnel = "idle" /\ attempt = 0
    /\ transport = "reality_direct" /\ selected = NoEndpoint /\ sessionStart = 0
    /\ rst = {} /\ scenario = "calm" /\ split = FALSE
    /\ activated = FALSE /\ saved \in Envelopes \cup {NoEnvelope}
    /\ valid \in SUBSET Envelopes
    /\ gate = {} /\ booting = TRUE /\ autoFired = 0
-----------------------------------------------------------------------------
(* connect(), disconnect() and the handlers that call them *)

Sleep(t, pc, ms, a) == runs' = [runs EXCEPT ![t] = [pc |-> pc, wait |-> ms, att |-> a]]
Finish(t)           == runs' = [runs EXCEPT ![t] = Done]

NewToken == token < MaxTokens /\ token' = token + 1

connect ==
    /\ NewToken
    /\ IF activated
       THEN /\ attempt' = 0 /\ tunnel' = "preparing" /\ sessionStart' = 0
            /\ Sleep(token + 1, "prepare", PREPARE_MS, 0)
       ELSE /\ tunnel' = "license_required"
            /\ UNCHANGED <<attempt, sessionStart, runs>>
    /\ UNCHANGED <<transport, selected>>

disconnect ==
    /\ NewToken
    /\ tunnel' = "idle" /\ sessionStart' = 0
    /\ UNCHANGED <<runs, attempt, transport, selected>>

\* The dial button; the tunnel tab is on screen only for an activated license, so
\* connect()'s own refusal is the second of two locks.
onDial ==
    /\ activated
    /\ IF tunnel \in Busy \cup {"connected"} THEN disconnect ELSE connect
    /\ UNCHANGED <<rst, scenario, split, licenseVars, autoFired>>

\* The mount effect of the tunnel tab under settings.autoConnect; the tab is mounted
\* each time it is opened.
AutoConnect ==
    /\ activated /\ tunnel = "idle"
    /\ connect
    /\ autoFired' = Least(autoFired + 1, 2)
    /\ UNCHANGED <<rst, scenario, split, licenseVars>>

deactivate_Mutant ==           \* cancels the run but leaves the tunnel state
    /\ activated
    /\ activated' = FALSE /\ saved' = NoEnvelope
    /\ NewToken /\ sessionStart' = 0
    /\ UNCHANGED <<runs, tunnel, attempt, transport, selected, rst, scenario, split,
                   valid, gate, booting, autoFired>>

deactivate ==
    /\ activated
    /\ activated' = FALSE /\ saved' = NoEnvelope
    /\ disconnect
    /\ UNCHANGED <<rst, scenario, split, valid, gate, booting, autoFired>>

setScenario(s) ==
    /\ scenario' = s /\ split' = FALSE
    /\ IF s = "blackout" /\ tunnel = "connected" THEN disconnect ELSE UNCHANGED connVars
    /\ UNCHANGED <<rst, licenseVars, autoFired>>

\* toggleCm and applyPlan, as far as the one countermeasure the RST burst asks for.
toggleCm ==
    /\ split' = ~split
    /\ UNCHANGED <<connVars, rst, scenario, licenseVars, autoFired>>
-----------------------------------------------------------------------------
(* runConnectFor, from one suspension to the next *)

\* Endpoint selection for attempt a, and the dial that follows it in the same turn.
Select(t, a) ==
    IF Candidates(scenario) = {}
    THEN /\ tunnel' = "config_error" /\ Finish(t)
         /\ UNCHANGED <<selected, transport>>
    ELSE \E c \in Candidates(scenario) :
            /\ selected' = c[1] /\ transport' = c[2]
            /\ tunnel' = "connecting"
            /\ Sleep(t, "dial", DIAL_MS, a)

InBudget_Mutant(a) == a <= MAX_ATTEMPTS
InBudget(a) == a < MAX_ATTEMPTS

NextAttempt_Mutant(t) ==       \* the attempt is not counted
    /\ tunnel' = "reconnecting"
    /\ Sleep(t, "backoff", Least(backoffMs(runs[t].att), 2200), runs[t].att)
    /\ UNCHANGED attempt

NextAttempt_Mutant2(t) ==      \* sleeps the whole backoff
    LET a == runs[t].att + 1
    IN  IF InBudget(a)
        THEN /\ attempt' = a /\ tunnel' = "reconnecting"
             /\ Sleep(t, "backoff", backoffMs(a), a)
        ELSE /\ tunnel' = "config_error" /\ Finish(t)
             /\ UNCHANGED attempt

\* The head of the for loop for every attempt after the first, and its exit.
NextAttempt(t) ==
    LET a == runs[t].att + 1
    IN  IF InBudget(a)
        THEN /\ attempt' = a /\ tunnel' = "reconnecting"
             /\ Sleep(t, "backoff", Least(backoffMs(a), 2200), a)
        ELSE /\ tunnel' = "config_error" /\ Finish(t)
             /\ UNCHANGED attempt

Wakes_Mutant(t, pc) == runs[t].pc = pc /\ runs[t].wait = 0

\* What sleepChecked resolves to true for: the run is due and still current.
Wakes(t, pc) == runs[t].pc = pc /\ runs[t].wait = 0 /\ t = token

Prepared(t) ==
    /\ Wakes(t, "prepare")
    /\ tunnel' = "checking_network"
    /\ Sleep(t, "probe", PROBE_MS, 0)
    /\ UNCHANGED <<attempt, transport, selected, sessionStart>>

Probed(t) ==
    /\ Wakes(t, "probe")
    /\ attempt' = 0
    /\ Select(t, 0)
    /\ UNCHANGED sessionStart

BackedOff(t) ==
    /\ Wakes(t, "backoff")
    /\ Select(t, runs[t].att)
    /\ UNCHANGED <<attempt, sessionStart>>

Dialed(t) ==
    /\ Wakes(t, "dial")
    /\ tunnel' = "handshake"
    /\ Sleep(t, "handshake", HANDSHAKE_MS, runs[t].att)
    /\ UNCHANGED <<attempt, transport, selected, sessionStart>>

Established(t) ==
    /\ Wakes(t, "handshake")
    /\ tunnel' = "connected" /\ sessionStart' = t
    /\ Finish(t)
    /\ UNCHANGED <<attempt, transport, selected>>

HandshakeFailed(t) ==
    /\ Wakes(t, "handshake")
    /\ IF NextTransport(transport) # transport
       THEN /\ transport' = NextTransport(transport)
            /\ tunnel' = "switching_transport"
            /\ Sleep(t, "switch", SWITCH_MS, runs[t].att)
            /\ UNCHANGED attempt
       ELSE /\ NextAttempt(t)
            /\ UNCHANGED transport
    /\ UNCHANGED <<selected, sessionStart>>

Switched(t) ==
    /\ Wakes(t, "switch")
    /\ NextAttempt(t)
    /\ UNCHANGED <<transport, selected, sessionStart>>

Cancelled_Mutant(t) == FALSE   \* sleepChecked resolves for the current token only

\* sleepChecked resolves to false: the run returns without touching the store.
Cancelled(t) ==
    /\ runs[t].pc # "done" /\ runs[t].wait = 0 /\ t # token
    /\ Finish(t)
    /\ UNCHANGED <<tunnel, attempt, transport, selected, sessionStart>>

RunStep(t) ==
    /\ \/ Prepared(t) \/ Probed(t) \/ BackedOff(t) \/ Dialed(t)
       \/ Established(t) \/ HandshakeFailed(t) \/ Switched(t) \/ Cancelled(t)
    /\ UNCHANGED <<token, rst, scenario, split, licenseVars, autoFired>>
-----------------------------------------------------------------------------
(* The engine tick's RST burst *)

RstBurst ==
    /\ tunnel = "connected" /\ scenario = "active_dpi" /\ ~split
    /\ tunnel' = "reconnecting"
    /\ rst' = rst \cup {RST_MS}
    /\ UNCHANGED <<token, runs, attempt, transport, selected, sessionStart,
                   scenario, split, licenseVars, autoFired>>

RstTimer_Mutant ==             \* restores without looking at the state
    /\ 0 \in rst
    /\ rst' = rst \ {0} /\ tunnel' = "connected"
    /\ UNCHANGED <<token, runs, attempt, transport, selected, sessionStart,
                   scenario, split, licenseVars, autoFired>>

RstTimer ==
    /\ 0 \in rst
    /\ rst' = rst \ {0}
    /\ tunnel' = IF tunnel = "reconnecting" THEN "connected" ELSE tunnel
    /\ UNCHANGED <<token, runs, attempt, transport, selected, sessionStart,
                   scenario, split, licenseVars, autoFired>>
-----------------------------------------------------------------------------
(* The license gate *)

\* runVerify: the demo and file inputs of the gate stay live while a check is pending.
runVerify(e) ==
    /\ ~activated /\ Cardinality(gate) < MaxPending
    /\ gate' = gate \cup {[env |-> e, wait |-> VERIFY_MS]}
    /\ UNCHANGED <<connVars, rst, scenario, split, activated, saved, valid,
                   booting, autoFired>>

\* The timer calls verifyAndActivate(envelope).
VerifyTimer(g) ==
    /\ g.wait = 0
    /\ gate' = gate \ {g}
    /\ activated' = (g.env \in valid)
    /\ saved' = IF g.env \in valid THEN g.env ELSE saved
    /\ UNCHANGED <<connVars, rst, scenario, split, valid, booting, autoFired>>

boot_Mutant ==                 \* drops the stored activation, not the one in memory
    /\ booting /\ booting' = FALSE
    /\ saved' = IF saved \in valid THEN saved ELSE NoEnvelope
    /\ activated' = (activated \/ saved \in valid)
    /\ UNCHANGED <<connVars, rst, scenario, split, valid, gate, autoFired>>

boot_Mutant2 ==                \* a failed model manifest ends boot() early
    /\ booting /\ booting' = FALSE
    /\ UNCHANGED <<connVars, rst, scenario, split, activated, saved, valid, gate,
                   autoFired>>

\* The tail of boot(): silent re-verification of the stored activation.
boot ==
    /\ booting
    /\ booting' = FALSE
    /\ IF saved = NoEnvelope
       THEN UNCHANGED <<activated, saved>>
       ELSE /\ activated' = (saved \in valid)
            /\ saved' = IF saved \in valid THEN saved ELSE NoEnvelope
    /\ UNCHANGED <<connVars, rst, scenario, split, valid, gate, autoFired>>

\* Expiry, revocation in the manager view, a rotated or newly trusted key.
VerdictChanges(e) ==
    /\ valid' = IF e \in valid THEN valid \ {e} ELSE valid \cup {e}
    /\ UNCHANGED <<connVars, rst, scenario, split, activated, saved, gate,
                   booting, autoFired>>
-----------------------------------------------------------------------------
(* Time, and a reload of the page *)

Pending == {runs[t].wait : t \in {u \in Tokens : runs[u].pc # "done"}}
              \cup rst \cup {g.wait : g \in gate}

Elapse(d) ==
    /\ Pending # {}
    /\ \A w \in Pending : d <= w
    /\ runs' = [t \in Tokens |-> IF runs[t].pc = "done" THEN runs[t]
                                 ELSE [runs[t] EXCEPT !.wait = @ - d]]
    /\ rst'  = {r - d : r \in rst}
    /\ gate' = {[g EXCEPT !.wait = @ - d] : g \in gate}
    /\ UNCHANGED <<token, tunnel, attempt, transport, selected, sessionStart,
                   scenario, split, activated, saved, valid, booting, autoFired>>

Reload ==
    /\ token' = 0 /\ runs' = [t \in Tokens |-> Done]
    /\ tunnel' = "idle" /\ attempt' = 0
    /\ transport' = "reality_direct" /\ selected' = NoEndpoint /\ sessionStart' = 0
    /\ rst' = {} /\ scenario' = "calm" /\ split' = FALSE
    /\ activated' = FALSE /\ gate' = {} /\ booting' = TRUE /\ autoFired' = 0
    /\ UNCHANGED <<saved, valid>>
-----------------------------------------------------------------------------
Next ==
    \/ onDial \/ AutoConnect \/ deactivate \/ toggleCm
    \/ \E s \in Scenarios : setScenario(s)
    \/ \E t \in Tokens : RunStep(t)
    \/ RstBurst \/ RstTimer
    \/ \E e \in Envelopes : runVerify(e) \/ VerdictChanges(e)
    \/ \E g \in gate : VerifyTimer(g)
    \/ boot \/ Reload
    \/ \E d \in Quanta : Elapse(d)

\* A turn of the event loop that a timer asks for, or the wait for the next one.
TimerTurn == \/ \E d \in Quanta : Elapse(d)
             \/ \E t \in Tokens : RunStep(t)
             \/ RstTimer \/ \E g \in gate : VerifyTimer(g)

\* The event loop keeps serving its timers, and the model manifest's fetch ends;
\* users, networks and reloads owe nothing.
Fairness == WF_vars(TimerTurn) /\ WF_vars(boot)

Spec == Init /\ [][Next]_vars /\ Fairness
-----------------------------------------------------------------------------
(* Properties *)

Runs == [Tokens -> [pc : Pcs \cup {"done"}, wait : Nat, att : 0..(MAX_ATTEMPTS - 1)]]

ConnTypeOK ==
    /\ token \in Tokens /\ runs \in Runs
    /\ tunnel \in TunnelStates
    /\ attempt \in 0..(MAX_ATTEMPTS - 1)
    /\ transport \in Transports /\ selected \in Endpoints \cup {NoEndpoint}
    /\ sessionStart \in Tokens

\* Every variable of the store, and of the timers and coroutines around it, has its type.
TypeOK ==
    /\ ConnTypeOK
    /\ rst \subseteq Nat
    /\ scenario \in Scenarios /\ split \in BOOLEAN
    /\ activated \in BOOLEAN /\ valid \subseteq Envelopes
    /\ saved \in Envelopes \cup {NoEnvelope}
    /\ gate \subseteq [env : Envelopes, wait : Nat]
    /\ booting \in BOOLEAN /\ autoFired \in 0..2

\* The tunnel state and the attempt the user reads are those of the coroutine that
\* carries the current token, for as long as that coroutine lives: neither a
\* cancelled coroutine that wakes late nor an RST timer left over from an earlier
\* session writes over it.
StateIsOfTheLiveRun ==
    LiveRun => tunnel = Stage[runs[token].pc] /\ attempt = runs[token].att

\* A tunnel reported up belongs to the last connect request, has its session, and
\* nothing is still working on it: no dialling coroutine, no pending RST timer.
ConnectedIsSettled ==
    tunnel = "connected" => /\ token > 0 /\ sessionStart = token
                            /\ ~LiveRun /\ rst = {}

\* A state the dial shows as "linking" is always somebody's work in progress: the
\* current coroutine's, or that of the RST timer that will restore the session.
BusyIsDriven ==
    tunnel \in Busy => LiveRun \/ (tunnel = "reconnecting" /\ rst # {} /\ sessionStart = token)

\* A session start time is never left behind by a tunnel that is gone, and never
\* shown while the next one is being dialled.  (ImplementsSession says it too.)
NoSessionWhenDown ==
    LiveRun \/ tunnel \notin {"connected", "reconnecting"} => sessionStart = 0

\* An activated client has the activation it would restore after a reload.
ActivatedIsStored == activated => saved # NoEnvelope

\* A request once made is worked off: every busy state is left, by success, by the
\* exhausted budget, by the user, or by the RST timer.
BusySettles == (tunnel \in Busy) ~> (tunnel \notin Busy)

\* No coroutine sleeps for ever: each ends, cancelled or not.
RunsEnd == \A t \in Tokens : (runs[t].pc # "done") ~> (runs[t].pc = "done")

\* A stored activation the verifier goes on accepting is restored after every reload
\* unless the user removes or replaces it.
StoredActivationRestored ==
    \A e \in Envelopes :
        (booting /\ saved = e) ~> (activated \/ saved # e \/ e \notin valid)

\* The milliseconds a coroutine may sleep after the present sleep, in this attempt and in
\* all that may follow.
Attempt_MS == DIAL_MS + HANDSHAKE_MS + SWITCH_MS
Later(r) ==
    (MAX_ATTEMPTS - 1 - r.att) * (2200 + Attempt_MS)
    + [prepare   |-> PROBE_MS + Attempt_MS,   probe  |-> Attempt_MS, backoff |-> Attempt_MS,
       dial      |-> HANDSHAKE_MS + SWITCH_MS, handshake |-> SWITCH_MS, switch |-> 0][r.pc]
Owed(r) == IF r.pc = "done" THEN 0 ELSE r.wait + Later(r)

\* What the budget of MAX_ATTEMPTS attempts comes to: 20450 ms for the code's five.
Budget_MS == PREPARE_MS + PROBE_MS + MAX_ATTEMPTS * Attempt_MS + (MAX_ATTEMPTS - 1) * 2200

\* A request is answered within its budget of time: no coroutine owes more than the budget,
\* whatever happens only shortens what it owes, and time works it off.
RequestsAreTimely ==
    /\ [](\A t \in Tokens : Owed(runs[t]) \in 0..Budget_MS)
    /\ [][ \A t \in Tokens : runs[t].pc # "done" =>
              /\ Owed(runs'[t]) <= Owed(runs[t])
              /\ \A d \in Quanta : Elapse(d) => Owed(runs'[t]) = Owed(runs[t]) - d ]_vars

(* The orchestrator implements the session of TunnelSession. *)
Phase == IF LiveRun THEN "dialing"
         ELSE IF tunnel = "connected" THEN "up"
         ELSE IF tunnel = "reconnecting" THEN "recovering"
         ELSE "down"

Session == INSTANCE TunnelSession WITH
    MaxAttempts <- MAX_ATTEMPTS, phase <- Phase, session <- sessionStart,
    tries <- attempt, last <- token

\* Every step of the orchestrator is a step of TunnelSession or leaves it alone.
ImplementsSession == Session!Spec

(* What the code and its documents say and the orchestrator does not do. *)

\* store.ts refuses to connect without a license "(fail-closed)".
TunnelIsLicensed == tunnel = "connected" => activated

\* In blackout mode the tunnel is CDN-only.
BlackoutTunnelIsCdn ==
    tunnel = "connected" /\ scenario = "blackout" => selected \in Cdn

\* The auto-connect effect "fires once per session when idle".
AutoConnectOnce == autoFired <= 1
=============================================================================

--------------------------- MODULE VorStoreProofs ---------------------------
(***************************************************************************)
(* Theorems about VorStore, for every fleet, retry budget, number of        *)
(* requests and granularity of time.                                        *)
(*                                                                         *)
(* The argument is about time: an RST timer of 1500 ms that outlives its    *)
(* session must have fired before the next coroutine reaches the state      *)
(* "reconnecting", which it looks for, and that takes at least              *)
(* 650 + 750 + 850 + 700 ms.  Slack is how long the live coroutine still    *)
(* needs at least; RstOutrun says that every pending RST timer is shorter.  *)
(***************************************************************************)
EXTENDS VorStore, TLAPS

\* What a coroutine still has to sleep after the sleep it is in.
Rest == [prepare   |-> PROBE_MS + DIAL_MS + HANDSHAKE_MS,
         probe     |-> DIAL_MS + HANDSHAKE_MS,
         dial      |-> HANDSHAKE_MS,
         handshake |-> 0]
Slack(r) == IF r.pc \in {"prepare", "probe", "dial", "handshake"}
            THEN r.wait + Rest[r.pc] ELSE 0

\* Every pending RST timer fires before the live coroutine has an outcome.
RstOutrun == LiveRun => \A r \in rst : r < Slack(runs[token])

\* Two sessions never have a burst pending at once.
OneRst == /\ \A r \in rst : r <= RST_MS
          /\ \A r, q \in rst : r = q

\* Tokens not yet handed out carry no coroutine; token 0 is never handed out.
FreshTokens == \A t \in Tokens : t = 0 \/ t > token => runs[t].pc = "done"

\* A recovery under way belongs to the current token's session.
Recovering == tunnel = "reconnecting" /\ ~LiveRun =>
                rst # {} /\ token > 0 /\ sessionStart = token

\* Before its first dial the live coroutine is at attempt 0.
FirstAttempt == LiveRun /\ runs[token].pc \in {"prepare", "probe"} => runs[token].att = 0

CInv == /\ StateIsOfTheLiveRun /\ ConnectedIsSettled
        /\ BusyIsDriven /\ NoSessionWhenDown
        /\ RstOutrun /\ OneRst /\ FreshTokens /\ Recovering /\ FirstAttempt

IInv == TypeOK /\ CInv
-----------------------------------------------------------------------------
\* The ladder: the next transport is a transport.
LEMMA NextTransportType ==
    ASSUME NEW t \in Transports
    PROVE  NextTransport(t) \in Transports
  <1>1. PICK i \in 1..5 : TRANSPORT_LADDER[i] = t
    BY DEF Transports
  <1>2. (CHOOSE k \in 1..5 : TRANSPORT_LADDER[k] = t) \in 1..5
    BY <1>1
  <1>3. \A k \in 1..5 : Least(k + 1, 5) \in 1..5
    BY DEF Least
  <1>4. QED
    BY <1>2, <1>3 DEF NextTransport, Transports

\* Candidates are pairs of an endpoint's name and a transport.
LEMMA CandidateType ==
    ASSUME NEW s, NEW c \in Candidates(s)
    PROVE  c[1] \in Endpoints /\ c[2] \in Transports
  <1>1. \A i \in DOMAIN Fleet : Fleet[i] \in Endpoints /\ Least(i, 5) \in 1..5
    BY FleetAssumption DEF Least
  <1>2. \A k \in 1..5 : TRANSPORT_LADDER[k] \in Transports
    BY DEF Transports
  <1>3. "ws_tls_cdn" \in Transports
    <2>1. TRANSPORT_LADDER[2] = "ws_tls_cdn"
      BY DEF TRANSPORT_LADDER
    <2>2. QED
      BY <2>1, <1>2
  <1>4. QED
    BY <1>1, <1>2, <1>3 DEF Candidates

\* Every backoff is a number of milliseconds.
LEMMA BackoffType ==
    ASSUME NEW a \in Nat
    PROVE  Least(backoffMs(a), 2200) \in Nat
  <1>1. Least(4, a) \in 0..4
    BY DEF Least
  <1>2. \A i \in 0..4 : Pow2[i] \in Nat
    BY DEF Pow2
  <1>3. QED
    BY <1>1, <1>2 DEF backoffMs, Least
-----------------------------------------------------------------------------
LEMMA DoneType == Done \in [pc : Pcs \cup {"done"}, wait : Nat, att : 0..(MAX_ATTEMPTS - 1)]
  BY BoundAssumption DEF Done

LEMMA SleepType ==
    ASSUME NEW t \in Tokens, NEW pc \in Pcs, NEW ms \in Nat,
           NEW a \in 0..(MAX_ATTEMPTS - 1), ConnTypeOK, Sleep(t, pc, ms, a)
    PROVE  runs' \in Runs
  BY DEF Sleep, ConnTypeOK, Runs

LEMMA FinishType ==
    ASSUME NEW t \in Tokens, ConnTypeOK, Finish(t)
    PROVE  runs' \in Runs
  BY DoneType DEF Finish, ConnTypeOK, Runs

LEMMA ConnectType ==
    ASSUME ConnTypeOK, connect
    PROVE  ConnTypeOK'
  <1>1. token + 1 \in Tokens /\ token' = token + 1 /\ 0 \in Tokens
    BY BoundAssumption DEF connect, NewToken, ConnTypeOK, Tokens
  <1>2. UNCHANGED <<transport, selected>>
    BY DEF connect
  <1>3. CASE activated
    <2>1. runs' \in Runs
      <3>1. Sleep(token + 1, "prepare", PREPARE_MS, 0)
        BY <1>3 DEF connect
      <3>2. 0 \in 0..(MAX_ATTEMPTS - 1) /\ PREPARE_MS \in Nat /\ "prepare" \in Pcs
        BY BoundAssumption DEF PREPARE_MS, Pcs
      <3>3. QED
        BY <1>1, <3>1, <3>2, SleepType
    <2>2. QED
      BY <1>1, <1>2, <1>3, <2>1, BoundAssumption DEF connect, ConnTypeOK, TunnelStates, Busy
  <1>4. CASE ~activated
    BY <1>1, <1>2, <1>4 DEF connect, ConnTypeOK, TunnelStates
  <1>5. QED
    BY <1>3, <1>4

LEMMA DisconnectType ==
    ASSUME ConnTypeOK, disconnect
    PROVE  ConnTypeOK'
  BY BoundAssumption DEF ConnTypeOK, disconnect, NewToken, Tokens, TunnelStates

LEMMA SelectType ==
    ASSUME NEW t \in Tokens, NEW a \in 0..(MAX_ATTEMPTS - 1), ConnTypeOK, Select(t, a)
    PROVE  /\ runs' \in Runs
           /\ tunnel' \in TunnelStates /\ transport' \in Transports
           /\ selected' \in Endpoints \cup {NoEndpoint}
  <1>1. CASE Candidates(scenario) = {}
    BY <1>1, FinishType DEF Select, ConnTypeOK, TunnelStates
  <1>2. CASE Candidates(scenario) # {}
    <2>1. PICK c \in Candidates(scenario) :
              /\ selected' = c[1] /\ transport' = c[2] /\ tunnel' = "connecting"
              /\ Sleep(t, "dial", DIAL_MS, a)
      BY <1>2 DEF Select
    <2>2. DIAL_MS \in Nat /\ "dial" \in Pcs
      BY DEF DIAL_MS, Pcs
    <2>3. runs' \in Runs
      BY <2>1, <2>2, SleepType
    <2>4. QED
      BY <2>1, <2>3, CandidateType DEF TunnelStates, Busy
  <1>3. QED
    BY <1>1, <1>2

LEMMA NextAttemptType ==
    ASSUME NEW t \in Tokens, ConnTypeOK, NextAttempt(t)
    PROVE  /\ runs' \in Runs
           /\ tunnel' \in TunnelStates /\ attempt' \in 0..(MAX_ATTEMPTS - 1)
  <1> DEFINE a == runs[t].att + 1
  <1>1. a \in Nat
    BY BoundAssumption DEF ConnTypeOK, Runs
  <1>2. CASE a < MAX_ATTEMPTS
    <2>1. /\ attempt' = a /\ tunnel' = "reconnecting"
          /\ Sleep(t, "backoff", Least(backoffMs(a), 2200), a)
      BY <1>2 DEF NextAttempt, InBudget
    <2>2. a \in 0..(MAX_ATTEMPTS - 1)
      BY <1>1, <1>2, BoundAssumption
    <2>3. Least(backoffMs(a), 2200) \in Nat
      BY <1>1, BackoffType
    <2>4. "backoff" \in Pcs
      BY DEF Pcs
    <2>5. runs' \in Runs
      BY <2>1, <2>2, <2>3, <2>4, SleepType
    <2>6. QED
      BY <2>1, <2>2, <2>5 DEF TunnelStates, Busy
  <1>3. CASE ~(a < MAX_ATTEMPTS)
    <2>1. tunnel' = "config_error" /\ Finish(t) /\ UNCHANGED attempt
      BY <1>3 DEF NextAttempt, InBudget
    <2>2. QED
      BY <2>1, FinishType DEF TunnelStates, ConnTypeOK
  <1>4. QED
    BY <1>2, <1>3

LEMMA RunStepType ==
    ASSUME NEW t \in Tokens, ConnTypeOK, RunStep(t)
    PROVE  ConnTypeOK'
  <1>0. /\ token' = token
        /\ runs[t].att \in 0..(MAX_ATTEMPTS - 1) /\ 0 \in 0..(MAX_ATTEMPTS - 1)
    BY BoundAssumption DEF RunStep, ConnTypeOK, Runs
  <1>1. CASE Prepared(t)
    <2>1. runs' \in Runs
      <3>1. Sleep(t, "probe", PROBE_MS, 0)
        BY <1>1 DEF Prepared
      <3>2. PROBE_MS \in Nat /\ "probe" \in Pcs
        BY DEF PROBE_MS, Pcs
      <3>3. QED
        BY <1>0, <3>1, <3>2, SleepType
    <2>2. QED
      BY <1>0, <1>1, <2>1 DEF Prepared, ConnTypeOK, TunnelStates, Busy
  <1>2. CASE Probed(t)
    BY <1>0, <1>2, SelectType DEF Probed, ConnTypeOK
  <1>3. CASE BackedOff(t)
    BY <1>0, <1>3, SelectType DEF BackedOff, ConnTypeOK
  <1>4. CASE Dialed(t)
    <2>1. runs' \in Runs
      <3>1. Sleep(t, "handshake", HANDSHAKE_MS, runs[t].att)
        BY <1>4 DEF Dialed
      <3>2. HANDSHAKE_MS \in Nat /\ "handshake" \in Pcs
        BY DEF HANDSHAKE_MS, Pcs
      <3>3. QED
        BY <1>0, <3>1, <3>2, SleepType
    <2>2. QED
      BY <1>0, <1>4, <2>1 DEF Dialed, ConnTypeOK, TunnelStates, Busy
  <1>5. CASE Established(t)
    BY <1>0, <1>5, FinishType DEF Established, ConnTypeOK, TunnelStates
  <1>6. CASE HandshakeFailed(t)
    <2>1. CASE NextTransport(transport) # transport
      <3>1. /\ transport' = NextTransport(transport) /\ tunnel' = "switching_transport"
            /\ Sleep(t, "switch", SWITCH_MS, runs[t].att)
            /\ UNCHANGED <<attempt, selected, sessionStart>>
        BY <1>6, <2>1 DEF HandshakeFailed
      <3>2. runs' \in Runs
        <4>1. SWITCH_MS \in Nat /\ "switch" \in Pcs
          BY DEF SWITCH_MS, Pcs
        <4>2. QED
          BY <1>0, <3>1, <4>1, SleepType
      <3>3. QED
        BY <1>0, <3>1, <3>2, NextTransportType DEF ConnTypeOK, TunnelStates, Busy
    <2>2. CASE NextTransport(transport) = transport
      BY <1>0, <1>6, <2>2, NextAttemptType DEF HandshakeFailed, ConnTypeOK
    <2>3. QED
      BY <2>1, <2>2
  <1>7. CASE Switched(t)
    BY <1>0, <1>7, NextAttemptType DEF Switched, ConnTypeOK
  <1>8. CASE Cancelled(t)
    BY <1>0, <1>8, FinishType DEF Cancelled, ConnTypeOK
  <1>9. QED
    BY <1>1, <1>2, <1>3, <1>4, <1>5, <1>6, <1>7, <1>8 DEF RunStep

-----------------------------------------------------------------------------
LEMMA InitType == Init => TypeOK
  <1> SUFFICES ASSUME Init PROVE TypeOK
    OBVIOUS
  <1>1. runs \in Runs
    BY DoneType DEF Init, Runs
  <1>2. "reality_direct" \in Transports
    <2>1. TRANSPORT_LADDER[1] = "reality_direct"
      BY DEF TRANSPORT_LADDER
    <2>2. QED
      BY <2>1 DEF Transports
  <1>3. 0 \in Tokens /\ 0 \in 0..(MAX_ATTEMPTS - 1)
    BY BoundAssumption DEF Tokens
  <1>4. /\ token = 0 /\ tunnel = "idle" /\ attempt = 0
        /\ transport = "reality_direct" /\ selected = NoEndpoint /\ sessionStart = 0
    BY DEF Init
  <1>5. ConnTypeOK
    BY <1>1, <1>2, <1>3, <1>4 DEF ConnTypeOK, TunnelStates
  <1>6. rst = {} /\ scenario = "calm" /\ gate = {} /\ autoFired = 0
    BY DEF Init
  <1>7. valid \subseteq Envelopes /\ saved \in Envelopes \cup {NoEnvelope}
    BY DEF Init
  <1>8. split \in BOOLEAN /\ activated \in BOOLEAN /\ booting \in BOOLEAN
    BY DEF Init
  <1>9. QED
    BY <1>5, <1>6, <1>7, <1>8 DEF TypeOK, Scenarios

LEMMA ElapseType ==
    ASSUME TypeOK, NEW d \in Quanta, Elapse(d)
    PROVE  TypeOK'
  <1>0. d \in Nat
    BY QuantaAssumption
  <1>1. \A t \in Tokens : runs[t].pc # "done" => d <= runs[t].wait
    BY DEF Elapse, Pending
  <1>2. \A r \in rst : d <= r
    BY DEF Elapse, Pending
  <1>3. \A g \in gate : d <= g.wait
    BY DEF Elapse, Pending
  <1>4. runs' \in Runs
    <2>1. ASSUME NEW t \in Tokens, runs[t].pc # "done"
          PROVE  [runs[t] EXCEPT !.wait = @ - d]
                    \in [pc : Pcs \cup {"done"}, wait : Nat, att : 0..(MAX_ATTEMPTS - 1)]
      BY <1>0, <1>1, <2>1 DEF TypeOK, ConnTypeOK, Runs
    <2>2. QED
      BY <2>1 DEF TypeOK, ConnTypeOK, Runs, Elapse
  <1>5. rst' \subseteq Nat
    BY <1>0, <1>2 DEF TypeOK, Elapse
  <1>6. gate' \subseteq [env : Envelopes, wait : Nat]
    <2>1. ASSUME NEW g \in gate
          PROVE  [g EXCEPT !.wait = @ - d] \in [env : Envelopes, wait : Nat]
      BY <1>0, <1>3 DEF TypeOK
    <2>2. QED
      BY <2>1 DEF Elapse
  <1>7. QED
    BY <1>4, <1>5, <1>6 DEF TypeOK, ConnTypeOK, Elapse

LEMMA NextType == TypeOK /\ [Next]_vars => TypeOK'
  <1> SUFFICES ASSUME TypeOK, [Next]_vars PROVE TypeOK'
    OBVIOUS
  <1>1. CASE onDial
    BY <1>1, ConnectType, DisconnectType DEF onDial, licenseVars, TypeOK
  <1>2. CASE AutoConnect
    <2>1. autoFired' \in 0..2
      BY <1>2 DEF AutoConnect, Least, TypeOK
    <2>2. QED
      BY <1>2, <2>1, ConnectType DEF AutoConnect, licenseVars, TypeOK
  <1>3. CASE deactivate
    BY <1>3, DisconnectType DEF deactivate, TypeOK
  <1>4. CASE toggleCm
    BY <1>4 DEF toggleCm, TypeOK, ConnTypeOK, connVars, licenseVars
  <1>5. ASSUME NEW s \in Scenarios, setScenario(s) PROVE TypeOK'
    <2>1. ConnTypeOK'
      <3>0. ConnTypeOK
        BY DEF TypeOK
      <3>1. CASE disconnect
        BY <3>0, <3>1, DisconnectType
      <3>2. CASE UNCHANGED connVars
        BY <3>0, <3>2 DEF connVars, ConnTypeOK
      <3>3. QED
        BY <1>5, <3>1, <3>2 DEF setScenario
    <2>2. QED
      BY <1>5, <2>1 DEF setScenario, licenseVars, TypeOK
  <1>6. ASSUME NEW t \in Tokens, RunStep(t) PROVE TypeOK'
    BY <1>6, RunStepType DEF RunStep, licenseVars, TypeOK
  <1>7. CASE RstBurst
    BY <1>7 DEF RstBurst, licenseVars, TypeOK, ConnTypeOK, TunnelStates, Busy, RST_MS
  <1>8. CASE RstTimer
    BY <1>8 DEF RstTimer, licenseVars, TypeOK, ConnTypeOK, TunnelStates
  <1>9. ASSUME NEW e \in Envelopes, runVerify(e) PROVE TypeOK'
    BY <1>9 DEF runVerify, connVars, TypeOK, ConnTypeOK, VERIFY_MS
  <1>10. ASSUME NEW e \in Envelopes, VerdictChanges(e) PROVE TypeOK'
    BY <1>10 DEF VerdictChanges, connVars, TypeOK, ConnTypeOK
  <1>11. ASSUME NEW g \in gate, VerifyTimer(g) PROVE TypeOK'
    BY <1>11 DEF VerifyTimer, connVars, TypeOK, ConnTypeOK
  <1>12. CASE boot
    <2>1. ConnTypeOK'
      BY <1>12 DEF boot, connVars, TypeOK, ConnTypeOK
    <2>2. saved' \in Envelopes \cup {NoEnvelope}
      BY <1>12 DEF boot, TypeOK
    <2>3. activated' \in BOOLEAN /\ booting' \in BOOLEAN
      <3>1. CASE saved = NoEnvelope
        BY <1>12, <3>1 DEF boot, TypeOK
      <3>2. CASE saved # NoEnvelope
        <4>1. activated' = (saved \in valid)
          BY <1>12, <3>2 DEF boot
        <4>2. booting' = FALSE
          BY <1>12 DEF boot
        <4>3. (saved \in valid) \in BOOLEAN
          OBVIOUS
        <4>4. activated' \in BOOLEAN
          BY <4>1, <4>3, Zenon
        <4>5. booting' \in BOOLEAN
          BY <4>2
        <4>6. QED
          BY <4>4, <4>5
      <3>3. QED
        BY <3>1, <3>2
    <2>4. UNCHANGED <<rst, scenario, split, valid, gate, autoFired>>
      BY <1>12 DEF boot
    <2>5. QED
      BY <2>1, <2>2, <2>3, <2>4 DEF TypeOK
  <1>13. CASE Reload
    <2>1. runs' \in Runs
      BY <1>13, DoneType DEF Reload, Runs
    <2>2. TRANSPORT_LADDER[1] = "reality_direct"
      BY DEF TRANSPORT_LADDER
    <2>3. "reality_direct" \in Transports
      BY <2>2 DEF Transports
    <2>4. 0 \in Tokens /\ 0 \in 0..(MAX_ATTEMPTS - 1)
      BY BoundAssumption DEF Tokens
    <2>5. /\ token' = 0 /\ tunnel' = "idle" /\ attempt' = 0
          /\ transport' = "reality_direct" /\ selected' = NoEndpoint /\ sessionStart' = 0
      BY <1>13 DEF Reload
    <2>6. ConnTypeOK'
      BY <2>1, <2>3, <2>4, <2>5 DEF ConnTypeOK, TunnelStates
    <2>7. /\ rst' = {} /\ scenario' = "calm" /\ gate' = {} /\ autoFired' = 0
          /\ UNCHANGED <<saved, valid>>
      BY <1>13 DEF Reload
    <2>8. split' \in BOOLEAN /\ activated' \in BOOLEAN /\ booting' \in BOOLEAN
      BY <1>13 DEF Reload
    <2>9. QED
      BY <2>6, <2>7, <2>8 DEF TypeOK, Scenarios
  <1>14. ASSUME NEW d \in Quanta, Elapse(d) PROVE TypeOK'
    BY <1>14, ElapseType
  <1>15. CASE UNCHANGED vars
    BY <1>15 DEF vars, connVars, licenseVars, TypeOK, ConnTypeOK
  <1>16. QED
    BY <1>1, <1>2, <1>3, <1>4, <1>5, <1>6, <1>7, <1>8, <1>9, <1>10, <1>11,
       <1>12, <1>13, <1>14, <1>15 DEF Next

\* Every variable of the store keeps its type.
THEOREM TypeCorrect == Spec => []TypeOK
  BY InitType, NextType, PTL DEF Spec

-----------------------------------------------------------------------------
(* CInv, handler by handler *)

\* What the requests write: a new token, whose coroutine is new or none.
LEMMA RequestTokens ==
    ASSUME TypeOK, CInv, NewToken
    PROVE  /\ token' = token + 1 /\ token + 1 \in Tokens /\ token \in Nat
           /\ runs[token + 1].pc = "done"
           /\ \A t \in Tokens : t = 0 \/ t > token + 1 => runs[t].pc = "done"
  BY BoundAssumption DEF NewToken, TypeOK, ConnTypeOK, CInv, FreshTokens, Tokens

LEMMA DisconnectInv ==
    ASSUME TypeOK, CInv, disconnect, UNCHANGED rst
    PROVE  CInv'
  <1>1. /\ token' = token + 1 /\ token \in Nat /\ token + 1 \in Tokens
        /\ runs' = runs /\ tunnel' = "idle" /\ sessionStart' = 0 /\ rst' = rst
        /\ runs[token + 1].pc = "done"
        /\ \A t \in Tokens : t = 0 \/ t > token + 1 => runs[t].pc = "done"
    BY RequestTokens DEF disconnect
  <1>2. ~LiveRun'
    BY <1>1 DEF LiveRun
  <1>3. (ConnectedIsSettled /\ BusyIsDriven /\ Recovering)'
    BY <1>1 DEF ConnectedIsSettled, BusyIsDriven, Recovering, Busy
  <1>4. (StateIsOfTheLiveRun /\ NoSessionWhenDown /\ RstOutrun /\ FirstAttempt)'
    BY <1>1, <1>2 DEF StateIsOfTheLiveRun, NoSessionWhenDown, RstOutrun, FirstAttempt
  <1>5. (OneRst /\ FreshTokens)'
    BY <1>1 DEF CInv, OneRst, FreshTokens
  <1>6. QED
    BY <1>3, <1>4, <1>5 DEF CInv

LEMMA ConnectInv ==
    ASSUME TypeOK, CInv, activated, connect, UNCHANGED rst
    PROVE  CInv'
  <1> DEFINE run == [pc |-> "prepare", wait |-> PREPARE_MS, att |-> 0]
  <1>1. /\ token' = token + 1 /\ token \in Nat /\ token + 1 \in Tokens
        /\ tunnel' = "preparing" /\ attempt' = 0 /\ sessionStart' = 0 /\ rst' = rst
        /\ \A t \in Tokens : t = 0 \/ t > token + 1 => runs[t].pc = "done"
    BY RequestTokens DEF connect
  <1>2. runs' = [runs EXCEPT ![token + 1] = run]
    BY DEF connect, Sleep
  <1>3. /\ runs'[token + 1] = run
        /\ \A t \in Tokens : t # token + 1 => runs'[t] = runs[t]
    BY <1>1, <1>2 DEF TypeOK, ConnTypeOK, Runs
  <1> HIDE DEF run
  <1>4. run.pc = "prepare" /\ run.wait = 650 /\ run.att = 0
    BY DEF run, PREPARE_MS
  <1>5. LiveRun'
    BY <1>1, <1>3, <1>4 DEF LiveRun
  <1>6. (ConnectedIsSettled /\ BusyIsDriven /\ Recovering /\ NoSessionWhenDown)'
    BY <1>1, <1>5 DEF ConnectedIsSettled, BusyIsDriven, Recovering, NoSessionWhenDown, Busy
  <1>7. (StateIsOfTheLiveRun /\ FirstAttempt)'
    BY <1>1, <1>3, <1>4 DEF StateIsOfTheLiveRun, FirstAttempt, Stage
  <1>8. RstOutrun'
    <2>1. Slack(run) = 2950
      BY <1>4 DEF Slack, Rest, PROBE_MS, DIAL_MS, HANDSHAKE_MS
    <2>2. \A r \in rst : r \in Nat /\ r <= 1500
      BY DEF TypeOK, CInv, OneRst, RST_MS
    <2>3. \A r \in rst' : r < Slack(runs'[token'])
      BY <1>1, <1>3, <2>1, <2>2
    <2>4. QED
      BY <2>3 DEF RstOutrun, Slack
  <1>9. (OneRst /\ FreshTokens)'
    <2>1. OneRst'
      BY <1>1 DEF CInv, OneRst
    <2>2. \A t \in Tokens : t = 0 \/ t > token + 1 => runs'[t].pc = "done"
      <3>1. SUFFICES ASSUME NEW t \in Tokens, t = 0 \/ t > token + 1 PROVE runs'[t].pc = "done"
        OBVIOUS
      <3>2. t # token + 1
        BY <1>1, <3>1 DEF Tokens
      <3>3. QED
        BY <1>1, <1>3, <3>1, <3>2
    <2>3. QED
      BY <1>1, <2>1, <2>2 DEF FreshTokens
  <1>10. QED
    BY <1>6, <1>7, <1>8, <1>9 DEF CInv

\* A step of the live coroutine that puts it to sleep in a later stage.
LEMMA SleepInv ==
    ASSUME TypeOK, CInv, NEW t \in Tokens, t = token, LiveRun,
           NEW pc \in Pcs, NEW ms \in Nat, NEW a \in Nat,
           pc \in {"prepare", "probe"} => a = 0, Sleep(t, pc, ms, a), UNCHANGED <<token, rst, sessionStart>>,
           tunnel' = Stage[pc], attempt' = a,
           \A r \in rst : r < Slack([pc |-> pc, wait |-> ms, att |-> a])
    PROVE  CInv'
  <1> DEFINE run == [pc |-> pc, wait |-> ms, att |-> a]
  <1>1. /\ token' = token /\ rst' = rst /\ sessionStart' = sessionStart
        /\ sessionStart = 0
    BY DEF CInv, NoSessionWhenDown
  <1>2. /\ runs'[t] = run
        /\ \A u \in Tokens : u # t => runs'[u] = runs[u]
    BY DEF Sleep, TypeOK, ConnTypeOK, Runs
  <1>3. \A r \in rst : r < Slack(run)
    OBVIOUS
  <1>4. run.pc = pc /\ run.att = a /\ pc # "done"
    BY DEF Pcs
  <1> HIDE DEF run
  <1>5. LiveRun'
    BY <1>1, <1>2, <1>4 DEF LiveRun
  <1>6. Stage[pc] \in Busy
    BY DEF Pcs, Stage, Busy
  <1>7. (ConnectedIsSettled /\ BusyIsDriven /\ Recovering /\ NoSessionWhenDown)'
    BY <1>1, <1>5, <1>6 DEF ConnectedIsSettled, BusyIsDriven, Recovering, NoSessionWhenDown, Busy
  <1>8. (StateIsOfTheLiveRun /\ FirstAttempt)'
    BY <1>1, <1>2, <1>4 DEF StateIsOfTheLiveRun, FirstAttempt
  <1>9. RstOutrun'
    <2>1. \A r \in rst' : r < Slack(runs'[token'])
      BY <1>1, <1>2, <1>3
    <2>2. QED
      BY <2>1 DEF RstOutrun, Slack
  <1>10. OneRst'
    BY <1>1 DEF CInv, OneRst
  <1>11. FreshTokens'
    <2>1. SUFFICES ASSUME NEW u \in Tokens, u = 0 \/ u > token PROVE runs'[u].pc = "done"
      BY <1>1 DEF FreshTokens
    <2>2. u # t
      BY <2>1 DEF Tokens, TypeOK, ConnTypeOK, CInv, FreshTokens, LiveRun
    <2>3. QED
      BY <1>2, <2>1, <2>2 DEF CInv, FreshTokens
  <1>12. QED
    BY <1>7, <1>8, <1>9, <1>10, <1>11 DEF CInv

\* The live coroutine ends: established, or out of candidates or attempts.
LEMMA FinishInv ==
    ASSUME TypeOK, CInv, NEW t \in Tokens, t = token, LiveRun, Finish(t),
           UNCHANGED <<token, rst>>,
           \/ tunnel' = "config_error" /\ sessionStart' = sessionStart
           \/ tunnel' = "connected" /\ sessionStart' = t /\ rst = {}
    PROVE  CInv'
  <1>1. token' = token /\ rst' = rst /\ sessionStart = 0 /\ t > 0
    BY DEF CInv, NoSessionWhenDown, FreshTokens, LiveRun, Tokens
  <1>2. /\ runs'[t].pc = "done"
        /\ \A u \in Tokens : u # t => runs'[u] = runs[u]
    BY DEF Finish, Done, TypeOK, ConnTypeOK, Runs
  <1>3. ~LiveRun'
    BY <1>1, <1>2 DEF LiveRun
  <1>4. (ConnectedIsSettled /\ BusyIsDriven /\ Recovering /\ NoSessionWhenDown)'
    BY <1>1, <1>3 DEF ConnectedIsSettled, BusyIsDriven, Recovering, NoSessionWhenDown, Busy
  <1>5. (StateIsOfTheLiveRun /\ RstOutrun /\ FirstAttempt)'
    BY <1>3 DEF StateIsOfTheLiveRun, RstOutrun, FirstAttempt
  <1>6. OneRst'
    BY <1>1 DEF CInv, OneRst
  <1>7. FreshTokens'
    <2>1. \A u \in Tokens : u = 0 \/ u > token => runs[u].pc = "done"
      BY DEF CInv, FreshTokens
    <2>2. QED
      BY <1>1, <1>2, <2>1 DEF FreshTokens
  <1>8. QED
    BY <1>4, <1>5, <1>6, <1>7 DEF CInv

\* A due coroutine whose stage precedes an outcome has outlived every RST timer.
LEMMA NoRstAtOutcome ==
    ASSUME TypeOK, CInv, LiveRun, runs[token].wait = 0,
           runs[token].pc \in {"handshake", "switch", "backoff"}
    PROVE  rst = {}
  <1>1. Slack(runs[token]) = 0
    BY DEF Slack, Rest
  <1>2. \A r \in rst : r < 0
    BY <1>1 DEF CInv, RstOutrun
  <1>3. QED
    BY <1>2 DEF TypeOK

LEMMA SelectInv ==
    ASSUME TypeOK, CInv, NEW t \in Tokens, NEW a \in Nat, t = token, LiveRun,
           Select(t, a), attempt' = a, UNCHANGED <<token, rst, sessionStart>>,
           \A r \in rst : r < DIAL_MS + HANDSHAKE_MS
    PROVE  CInv'
  <1>1. CASE Candidates(scenario) = {}
    BY <1>1, FinishInv DEF Select
  <1>2. CASE Candidates(scenario) # {}
    <2>1. tunnel' = Stage["dial"] /\ Sleep(t, "dial", DIAL_MS, a)
      BY <1>2 DEF Select, Stage
    <2>2. Slack([pc |-> "dial", wait |-> DIAL_MS, att |-> a]) = DIAL_MS + HANDSHAKE_MS
      BY DEF Slack, Rest
    <2>3. DIAL_MS \in Nat /\ "dial" \in Pcs
      BY DEF DIAL_MS, Pcs
    <2>4. QED
      BY <2>1, <2>2, <2>3, SleepInv
  <1>3. QED
    BY <1>1, <1>2

LEMMA NextAttemptInv ==
    ASSUME TypeOK, CInv, NEW t \in Tokens, t = token, LiveRun, rst = {},
           NextAttempt(t), UNCHANGED <<token, rst, sessionStart>>
    PROVE  CInv'
  <1> DEFINE a == runs[t].att + 1
  <1>1. a \in Nat
    BY BoundAssumption DEF TypeOK, ConnTypeOK, Runs
  <1>2. CASE a < MAX_ATTEMPTS
    <2>1. /\ attempt' = a /\ tunnel' = Stage["backoff"]
          /\ Sleep(t, "backoff", Least(backoffMs(a), 2200), a)
      BY <1>2 DEF NextAttempt, InBudget, Stage
    <2>2. Least(backoffMs(a), 2200) \in Nat /\ "backoff" \in Pcs
      BY <1>1, BackoffType DEF Pcs
    <2>3. QED
      BY <1>1, <2>1, <2>2, SleepInv
  <1>3. CASE ~(a < MAX_ATTEMPTS)
    BY <1>3, FinishInv DEF NextAttempt, InBudget
  <1>4. QED
    BY <1>2, <1>3

LEMMA RunStepInv ==
    ASSUME TypeOK, CInv, NEW t \in Tokens, RunStep(t)
    PROVE  CInv'
  <1>0. UNCHANGED <<token, rst>> /\ 0 \in Nat
    BY DEF RunStep
  <1>1. ASSUME NEW pc \in Pcs, Wakes(t, pc)
        PROVE  /\ t = token /\ LiveRun /\ runs[token].pc = pc /\ runs[token].wait = 0
               /\ runs[t].att \in Nat
               /\ \A r \in rst : r < Slack(runs[token])
    BY <1>1, BoundAssumption DEF Wakes, LiveRun, Pcs, TypeOK, ConnTypeOK, Runs, CInv, RstOutrun
  <1>2. CASE Prepared(t)
    <2>1. /\ t = token /\ LiveRun /\ runs[token].pc = "prepare" /\ runs[token].wait = 0
          /\ \A r \in rst : r < Slack(runs[token])
      BY <1>1, <1>2 DEF Prepared, Pcs
    <2>2. /\ tunnel' = Stage["probe"] /\ Sleep(t, "probe", PROBE_MS, 0)
          /\ UNCHANGED <<attempt, sessionStart>>
      BY <1>2 DEF Prepared, Stage
    <2>3. runs[token].att = 0 /\ attempt' = 0
      BY <2>1, <2>2 DEF CInv, StateIsOfTheLiveRun, FirstAttempt
    <2>4. Slack([pc |-> "probe", wait |-> PROBE_MS, att |-> 0]) = Slack(runs[token])
      BY <2>1 DEF Slack, Rest, PROBE_MS, DIAL_MS, HANDSHAKE_MS
    <2>5. PROBE_MS \in Nat /\ "probe" \in Pcs
      BY DEF PROBE_MS, Pcs
    <2>6. QED
      BY <1>0, <2>1, <2>2, <2>3, <2>4, <2>5, SleepInv
  <1>3. CASE Probed(t)
    <2>1. /\ t = token /\ LiveRun /\ runs[token].pc = "probe" /\ runs[token].wait = 0
          /\ \A r \in rst : r < Slack(runs[token])
      BY <1>1, <1>3 DEF Probed, Pcs
    <2>2. Slack(runs[token]) = DIAL_MS + HANDSHAKE_MS
      BY <2>1 DEF Slack, Rest, DIAL_MS, HANDSHAKE_MS
    <2>3. QED
      BY <1>0, <1>3, <2>1, <2>2, SelectInv DEF Probed
  <1>4. CASE BackedOff(t)
    <2>1. /\ t = token /\ LiveRun /\ runs[token].pc = "backoff" /\ runs[token].wait = 0
          /\ runs[t].att \in Nat
      BY <1>1, <1>4 DEF BackedOff, Pcs
    <2>2. rst = {}
      BY <2>1, NoRstAtOutcome
    <2>3. attempt' = runs[t].att /\ Select(t, runs[t].att) /\ UNCHANGED sessionStart
      BY <1>4, <2>1 DEF BackedOff, CInv, StateIsOfTheLiveRun
    <2>4. QED
      BY <1>0, <2>1, <2>2, <2>3, SelectInv
  <1>5. CASE Dialed(t)
    <2>1. /\ t = token /\ LiveRun /\ runs[token].pc = "dial" /\ runs[token].wait = 0
          /\ runs[t].att \in Nat
          /\ \A r \in rst : r < Slack(runs[token])
      BY <1>1, <1>5 DEF Dialed, Pcs
    <2>2. /\ tunnel' = Stage["handshake"] /\ UNCHANGED sessionStart
          /\ Sleep(t, "handshake", HANDSHAKE_MS, runs[t].att)
          /\ attempt' = runs[t].att
      BY <1>5, <2>1 DEF Dialed, Stage, CInv, StateIsOfTheLiveRun
    <2>3. Slack([pc |-> "handshake", wait |-> HANDSHAKE_MS, att |-> runs[t].att])
            = Slack(runs[token])
      BY <2>1 DEF Slack, Rest, HANDSHAKE_MS
    <2>4. HANDSHAKE_MS \in Nat /\ "handshake" \in Pcs
      BY DEF HANDSHAKE_MS, Pcs
    <2>5. QED
      BY <1>0, <2>1, <2>2, <2>3, <2>4, SleepInv
  <1>6. CASE Established(t)
    <2>1. /\ t = token /\ LiveRun /\ runs[token].pc = "handshake" /\ runs[token].wait = 0
      BY <1>1, <1>6 DEF Established, Pcs
    <2>2. rst = {}
      BY <2>1, NoRstAtOutcome
    <2>3. QED
      BY <1>0, <1>6, <2>1, <2>2, FinishInv DEF Established
  <1>7. CASE HandshakeFailed(t)
    <2>1. /\ t = token /\ LiveRun /\ runs[token].pc = "handshake" /\ runs[token].wait = 0
          /\ runs[t].att \in Nat
      BY <1>1, <1>7 DEF HandshakeFailed, Pcs
    <2>2. rst = {}
      BY <2>1, NoRstAtOutcome
    <2>3. CASE NextTransport(transport) # transport
      <3>1. /\ tunnel' = Stage["switch"] /\ UNCHANGED sessionStart
            /\ Sleep(t, "switch", SWITCH_MS, runs[t].att)
            /\ attempt' = runs[t].att
        BY <1>7, <2>1, <2>3 DEF HandshakeFailed, Stage, CInv, StateIsOfTheLiveRun
      <3>2. SWITCH_MS \in Nat /\ "switch" \in Pcs
        BY DEF SWITCH_MS, Pcs
      <3>3. QED
        BY <1>0, <2>1, <2>2, <3>1, <3>2, SleepInv
    <2>4. CASE NextTransport(transport) = transport
      BY <1>0, <1>7, <2>1, <2>2, <2>4, NextAttemptInv DEF HandshakeFailed
    <2>5. QED
      BY <2>3, <2>4
  <1>8. CASE Switched(t)
    <2>1. /\ t = token /\ LiveRun /\ runs[token].pc = "switch" /\ runs[token].wait = 0
      BY <1>1, <1>8 DEF Switched, Pcs
    <2>2. rst = {}
      BY <2>1, NoRstAtOutcome
    <2>3. QED
      BY <1>0, <1>8, <2>1, <2>2, NextAttemptInv DEF Switched
  <1>9. CASE Cancelled(t)
    <2>1. /\ token' = token /\ rst' = rst /\ tunnel' = tunnel /\ attempt' = attempt
          /\ sessionStart' = sessionStart /\ t # token
      BY <1>0, <1>9 DEF Cancelled
    <2>2. /\ runs'[t].pc = "done"
          /\ \A u \in Tokens : u # t => runs'[u] = runs[u]
      BY <1>9 DEF Cancelled, Finish, Done, TypeOK, ConnTypeOK, Runs
    <2>3. runs'[token] = runs[token]
      BY <2>1, <2>2 DEF TypeOK, ConnTypeOK
    <2>4. LiveRun' <=> LiveRun
      BY <2>1, <2>3 DEF LiveRun
    <2>5. FreshTokens'
      BY <2>1, <2>2 DEF CInv, FreshTokens
    <2>6. QED
      BY <2>1, <2>3, <2>4, <2>5
         DEF CInv, StateIsOfTheLiveRun, ConnectedIsSettled, BusyIsDriven, NoSessionWhenDown,
             RstOutrun, OneRst, Recovering, FirstAttempt
  <1>10. QED
    BY <1>2, <1>3, <1>4, <1>5, <1>6, <1>7, <1>8, <1>9 DEF RunStep

\* The handlers of scenarios, countermeasures and licenses leave the connection alone.
LEMMA FrameInv ==
    ASSUME CInv, UNCHANGED <<token, runs, tunnel, attempt, sessionStart, rst>>
    PROVE  CInv'
  BY DEF CInv, StateIsOfTheLiveRun, ConnectedIsSettled, BusyIsDriven, NoSessionWhenDown,
         RstOutrun, OneRst, FreshTokens, Recovering, FirstAttempt, LiveRun, Slack

LEMMA RstBurstInv ==
    ASSUME TypeOK, CInv, RstBurst
    PROVE  CInv'
  <1>1. /\ tunnel = "connected" /\ tunnel' = "reconnecting" /\ rst' = rst \cup {RST_MS}
        /\ UNCHANGED <<token, runs, attempt, sessionStart>>
    BY DEF RstBurst
  <1>2. token > 0 /\ sessionStart = token /\ ~LiveRun /\ rst = {}
    BY <1>1 DEF CInv, ConnectedIsSettled
  <1>3. rst' = {RST_MS}
    BY <1>1, <1>2
  <1>4. ~LiveRun'
    BY <1>1, <1>2 DEF LiveRun
  <1>5. (StateIsOfTheLiveRun /\ RstOutrun /\ FirstAttempt)'
    BY <1>4 DEF StateIsOfTheLiveRun, RstOutrun, FirstAttempt
  <1>6. (ConnectedIsSettled /\ BusyIsDriven /\ NoSessionWhenDown /\ Recovering)'
    BY <1>1, <1>2, <1>3, <1>4 DEF ConnectedIsSettled, BusyIsDriven, NoSessionWhenDown, Recovering
  <1>7. OneRst'
    BY <1>3 DEF OneRst, RST_MS
  <1>8. FreshTokens'
    BY <1>1 DEF CInv, FreshTokens
  <1>9. QED
    BY <1>5, <1>6, <1>7, <1>8 DEF CInv

\* When the timer finds "reconnecting" no coroutine is live: a live one in its
\* backoff has outlived the timer.
LEMMA RstTimerInv ==
    ASSUME TypeOK, CInv, RstTimer
    PROVE  CInv'
  <1>1. /\ 0 \in rst /\ rst' = rst \ {0}
        /\ UNCHANGED <<token, runs, attempt, sessionStart>>
        /\ tunnel' = IF tunnel = "reconnecting" THEN "connected" ELSE tunnel
    BY DEF RstTimer
  <1>2. rst' = {}
    BY <1>1 DEF CInv, OneRst
  <1>3. LiveRun' <=> LiveRun
    BY <1>1 DEF LiveRun
  <1>4. (RstOutrun /\ OneRst)'
    BY <1>2 DEF RstOutrun, OneRst
  <1>5. (FreshTokens /\ FirstAttempt)'
    BY <1>1, <1>3 DEF CInv, FreshTokens, FirstAttempt
  <1>6. CASE LiveRun
    <2>1. 0 < Slack(runs[token])
      BY <1>1, <1>6 DEF CInv, RstOutrun
    <2>2. runs[token].pc \in {"prepare", "probe", "dial", "handshake"}
      BY <2>1 DEF Slack
    <2>3. tunnel \in {"preparing", "checking_network", "connecting", "handshake"}
      BY <1>6, <2>2 DEF CInv, StateIsOfTheLiveRun, Stage
    <2>4. tunnel' = tunnel
      BY <1>1, <2>3
    <2>5. (StateIsOfTheLiveRun /\ NoSessionWhenDown)'
      BY <1>1, <1>3, <1>6, <2>4 DEF CInv, StateIsOfTheLiveRun, NoSessionWhenDown
    <2>6. (ConnectedIsSettled /\ BusyIsDriven /\ Recovering)'
      BY <1>3, <1>6, <2>3, <2>4 DEF ConnectedIsSettled, BusyIsDriven, Recovering
    <2>7. QED
      BY <1>4, <1>5, <2>5, <2>6 DEF CInv
  <1>7. CASE ~LiveRun
    <2>1. tunnel # "connected"
      BY <1>1 DEF CInv, ConnectedIsSettled
    <2>2. StateIsOfTheLiveRun'
      BY <1>3, <1>7 DEF StateIsOfTheLiveRun
    <2>3. CASE tunnel = "reconnecting"
      <3>1. tunnel' = "connected" /\ token > 0 /\ sessionStart = token
        BY <1>1, <1>7, <2>3 DEF CInv, Recovering
      <3>2. QED
        BY <1>1, <1>2, <1>3, <1>4, <1>5, <1>7, <2>2, <3>1
           DEF CInv, ConnectedIsSettled, BusyIsDriven, Recovering, NoSessionWhenDown, Busy
    <2>4. CASE tunnel # "reconnecting"
      <3>1. tunnel' = tunnel /\ tunnel \notin Busy
        BY <1>1, <1>7, <2>4 DEF CInv, BusyIsDriven
      <3>2. (ConnectedIsSettled /\ BusyIsDriven /\ Recovering /\ NoSessionWhenDown)'
        BY <1>1, <2>1, <2>4, <3>1
           DEF CInv, ConnectedIsSettled, BusyIsDriven, Recovering, NoSessionWhenDown
      <3>3. QED
        BY <1>4, <1>5, <2>2, <3>2 DEF CInv
    <2>5. QED
      BY <2>3, <2>4
  <1>8. QED
    BY <1>6, <1>7

\* Time passes for the coroutine and for the timers alike.
LEMMA ElapseInv ==
    ASSUME TypeOK, CInv, NEW d \in Quanta, Elapse(d)
    PROVE  CInv'
  <1>1. /\ UNCHANGED <<token, tunnel, attempt, sessionStart>>
        /\ rst' = {r - d : r \in rst}
    BY DEF Elapse
  <1>2. d \in Nat /\ token \in Tokens
    BY QuantaAssumption DEF TypeOK, ConnTypeOK
  <1>3. ASSUME NEW t \in Tokens
        PROVE  /\ runs'[t].pc = runs[t].pc /\ runs'[t].att = runs[t].att
               /\ runs[t].pc # "done" => runs'[t].wait = runs[t].wait - d
    BY <1>3 DEF Elapse, TypeOK, ConnTypeOK, Runs
  <1>4. LiveRun' <=> LiveRun
    BY <1>1, <1>2, <1>3 DEF LiveRun
  <1>5. (StateIsOfTheLiveRun /\ FirstAttempt /\ FreshTokens /\ NoSessionWhenDown)'
    <2>1. FreshTokens'
      BY <1>1, <1>3 DEF CInv, FreshTokens
    <2>2. (StateIsOfTheLiveRun /\ FirstAttempt)'
      BY <1>1, <1>2, <1>3, <1>4 DEF CInv, StateIsOfTheLiveRun, FirstAttempt
    <2>3. NoSessionWhenDown'
      BY <1>1, <1>4 DEF CInv, NoSessionWhenDown
    <2>4. QED
      BY <2>1, <2>2, <2>3
  <1>6. (ConnectedIsSettled /\ BusyIsDriven /\ Recovering)'
    <2>1. rst = {} <=> rst' = {}
      BY <1>1
    <2>2. QED
      BY <1>1, <1>4, <2>1 DEF CInv, ConnectedIsSettled, BusyIsDriven, Recovering
  <1>7. OneRst'
    <2>1. \A r \in rst : r \in Nat /\ r <= 1500
      BY DEF TypeOK, CInv, OneRst, RST_MS
    <2>2. \A r, q \in rst : r = q
      BY DEF CInv, OneRst
    <2>3. QED
      BY <1>1, <1>2, <2>1, <2>2 DEF OneRst, RST_MS
  <1>8. RstOutrun'
    <2>1. SUFFICES ASSUME LiveRun', NEW q \in rst' PROVE q < Slack(runs'[token])
      BY <1>1 DEF RstOutrun, Slack
    <2>2. PICK r \in rst : q = r - d
      BY <1>1, <2>1
    <2>3. LiveRun /\ r < Slack(runs[token]) /\ r \in Nat
      BY <1>4, <2>1 DEF CInv, RstOutrun, TypeOK
    <2>4. runs[token].pc \in {"prepare", "probe", "dial", "handshake"}
      BY <2>3 DEF Slack
    <2>5. /\ runs'[token].pc = runs[token].pc
          /\ runs'[token].wait = runs[token].wait - d
          /\ runs[token].wait \in Nat
      BY <1>2, <1>3, <2>4 DEF TypeOK, ConnTypeOK, Runs
    <2>6. Rest[runs[token].pc] \in Nat
      BY <2>4 DEF Rest, PROBE_MS, DIAL_MS, HANDSHAKE_MS
    <2>7. /\ Slack(runs[token]) = runs[token].wait + Rest[runs[token].pc]
          /\ Slack(runs'[token]) = runs'[token].wait + Rest[runs[token].pc]
      BY <2>4, <2>5 DEF Slack
    <2>8. QED
      BY <1>2, <2>2, <2>3, <2>5, <2>6, <2>7
  <1>9. QED
    BY <1>5, <1>6, <1>7, <1>8 DEF CInv

\* A page that has just loaded satisfies the invariant.
LEMMA FreshInv ==
    ASSUME token = 0, runs = [t \in Tokens |-> Done], tunnel = "idle",
           sessionStart = 0, rst = {}
    PROVE  CInv
  <1>1. 0 \in Tokens /\ Done.pc = "done"
    BY BoundAssumption DEF Tokens, Done
  <1>2. ~LiveRun
    BY <1>1 DEF LiveRun
  <1>3. QED
    BY <1>1, <1>2
       DEF CInv, StateIsOfTheLiveRun, ConnectedIsSettled, BusyIsDriven, NoSessionWhenDown,
           RstOutrun, OneRst, FreshTokens, Recovering, FirstAttempt, Busy

LEMMA ReloadInv ==
    ASSUME TypeOK, CInv, Reload
    PROVE  CInv'
  <1>1. /\ token' = 0 /\ runs' = [t \in Tokens |-> Done] /\ tunnel' = "idle"
        /\ sessionStart' = 0 /\ rst' = {}
    BY DEF Reload
  <1>2. 0 \in Tokens /\ Done.pc = "done"
    BY BoundAssumption DEF Tokens, Done
  <1>3. ~LiveRun'
    BY <1>1, <1>2 DEF LiveRun
  <1>4. QED
    BY <1>1, <1>2, <1>3
       DEF CInv, StateIsOfTheLiveRun, ConnectedIsSettled, BusyIsDriven, NoSessionWhenDown,
           RstOutrun, OneRst, FreshTokens, Recovering, FirstAttempt, Busy
-----------------------------------------------------------------------------
(* The invariant, and what it implies *)

LEMMA InvNext ==
    ASSUME IInv, [Next]_vars
    PROVE  IInv'
  <1>1. TypeOK /\ CInv
    BY DEF IInv
  <1>2. SUFFICES CInv'
    BY <1>1, NextType DEF IInv
  <1>3. CASE onDial
    <2>1. activated /\ UNCHANGED rst
      BY <1>3 DEF onDial
    <2>2. connect \/ disconnect
      BY <1>3 DEF onDial
    <2>3. QED
      BY <1>1, <2>1, <2>2, ConnectInv, DisconnectInv
  <1>4. CASE AutoConnect
    BY <1>1, <1>4, ConnectInv DEF AutoConnect
  <1>5. CASE deactivate
    BY <1>1, <1>5, DisconnectInv DEF deactivate
  <1>6. CASE toggleCm
    BY <1>1, <1>6, FrameInv DEF toggleCm, connVars
  <1>7. ASSUME NEW s \in Scenarios, setScenario(s) PROVE CInv'
    <2>1. UNCHANGED rst /\ (disconnect \/ UNCHANGED connVars)
      BY <1>7 DEF setScenario
    <2>2. QED
      BY <1>1, <2>1, DisconnectInv, FrameInv DEF connVars
  <1>8. ASSUME NEW t \in Tokens, RunStep(t) PROVE CInv'
    BY <1>1, <1>8, RunStepInv
  <1>9. CASE RstBurst
    BY <1>1, <1>9, RstBurstInv
  <1>10. CASE RstTimer
    BY <1>1, <1>10, RstTimerInv
  <1>11. ASSUME NEW e \in Envelopes, runVerify(e) \/ VerdictChanges(e) PROVE CInv'
    BY <1>1, <1>11, FrameInv DEF runVerify, VerdictChanges, connVars
  <1>12. ASSUME NEW g \in gate, VerifyTimer(g) PROVE CInv'
    BY <1>1, <1>12, FrameInv DEF VerifyTimer, connVars
  <1>13. CASE boot
    BY <1>1, <1>13, FrameInv DEF boot, connVars
  <1>14. CASE Reload
    BY <1>1, <1>14, ReloadInv
  <1>15. ASSUME NEW d \in Quanta, Elapse(d) PROVE CInv'
    BY <1>1, <1>15, ElapseInv
  <1>16. CASE UNCHANGED vars
    BY <1>1, <1>16, FrameInv DEF vars, connVars
  <1>17. QED
    BY <1>3, <1>4, <1>5, <1>6, <1>7, <1>8, <1>9, <1>10, <1>11, <1>12, <1>13, <1>14,
       <1>15, <1>16 DEF Next

LEMMA InvInit == Init => IInv
  BY InitType, FreshInv DEF Init, IInv

\* The invariant holds in every reachable state.
THEOREM Invariance == Spec => []IInv
  BY InvInit, InvNext, PTL DEF Spec

\* Neither a late coroutine nor a late RST timer writes over the live run's state.
THEOREM LiveRunOwnsTheState == Spec => []StateIsOfTheLiveRun
  <1>1. IInv => StateIsOfTheLiveRun
    BY DEF IInv, CInv
  <1>2. QED
    BY <1>1, Invariance, PTL

\* An established tunnel is the last request's, and nothing works on it any more.
THEOREM ConnectedSettled == Spec => []ConnectedIsSettled
  <1>1. IInv => ConnectedIsSettled
    BY DEF IInv, CInv
  <1>2. QED
    BY <1>1, Invariance, PTL

\* No busy state is left without somebody who will leave it.
THEOREM BusyDriven == Spec => []BusyIsDriven
  <1>1. IInv => BusyIsDriven
    BY DEF IInv, CInv
  <1>2. QED
    BY <1>1, Invariance, PTL

\* No session start time outlives its tunnel.
THEOREM NoStaleSession == Spec => []NoSessionWhenDown
  <1>1. IInv => NoSessionWhenDown
    BY DEF IInv, CInv
  <1>2. QED
    BY <1>1, Invariance, PTL
\* Of the license's variables, only the gate, boot and deactivation change the
\* activation and what is stored.
LEMMA ActivationFrame ==
    ASSUME ActivatedIsStored, UNCHANGED <<activated, saved>>
    PROVE  ActivatedIsStored'
  BY DEF ActivatedIsStored

LEMMA ActivationStep ==
    ASSUME TypeOK, ActivatedIsStored, [Next]_vars
    PROVE  ActivatedIsStored'
  <1>1. CASE onDial \/ AutoConnect \/ toggleCm
    BY <1>1, ActivationFrame DEF onDial, AutoConnect, toggleCm, licenseVars
  <1>2. CASE deactivate
    BY <1>2 DEF deactivate, ActivatedIsStored
  <1>3. ASSUME NEW s \in Scenarios, setScenario(s) PROVE ActivatedIsStored'
    BY <1>3, ActivationFrame DEF setScenario, licenseVars
  <1>4. ASSUME NEW t \in Tokens, RunStep(t) PROVE ActivatedIsStored'
    BY <1>4, ActivationFrame DEF RunStep, licenseVars
  <1>5. CASE RstBurst \/ RstTimer
    BY <1>5, ActivationFrame DEF RstBurst, RstTimer, licenseVars
  <1>6. ASSUME NEW e \in Envelopes, runVerify(e) \/ VerdictChanges(e) PROVE ActivatedIsStored'
    BY <1>6, ActivationFrame DEF runVerify, VerdictChanges
  <1>7. ASSUME NEW g \in gate, VerifyTimer(g) PROVE ActivatedIsStored'
    <2>1. g.env \in Envelopes
      BY DEF TypeOK
    <2>2. QED
      BY <1>7, <2>1, EnvelopeAssumption DEF VerifyTimer, ActivatedIsStored
  <1>8. CASE boot
    BY <1>8, EnvelopeAssumption DEF boot, TypeOK, ActivatedIsStored
  <1>9. CASE Reload
    BY <1>9 DEF Reload, ActivatedIsStored
  <1>10. ASSUME NEW d \in Quanta, Elapse(d) PROVE ActivatedIsStored'
    BY <1>10, ActivationFrame DEF Elapse
  <1>11. CASE UNCHANGED vars
    BY <1>11, ActivationFrame DEF vars, licenseVars
  <1>12. QED
    BY <1>1, <1>2, <1>3, <1>4, <1>5, <1>6, <1>7, <1>8, <1>9, <1>10, <1>11 DEF Next

\* An activation in memory has its counterpart in the storage, however checks of the
\* gate, deactivation, boot and changing verdicts interleave: a reload finds it there.
THEOREM ActivationIsStored == Spec => []ActivatedIsStored
  <1>1. Init => ActivatedIsStored
    BY DEF Init, ActivatedIsStored
  <1>2. TypeOK /\ ActivatedIsStored /\ [Next]_vars => ActivatedIsStored'
    BY ActivationStep
  <1>3. QED
    BY <1>1, <1>2, TypeCorrect, PTL DEF Spec
-----------------------------------------------------------------------------
(* The time a request takes *)

Run == [pc : Pcs \cup {"done"}, wait : Nat, att : 0..(MAX_ATTEMPTS - 1)]

\* The longest sleep of each kind.
Delay == [prepare |-> PREPARE_MS, probe |-> PROBE_MS, dial |-> DIAL_MS,
          handshake |-> HANDSHAKE_MS, switch |-> SWITCH_MS, backoff |-> 2200, done |-> 0]

\* No coroutine sleeps longer than its sleep was to last, and none backs off from an attempt
\* it has not made.
Punctual ==
    \A t \in Tokens :
        /\ runs[t].wait <= Delay[runs[t].pc]
        /\ runs[t].pc = "backoff" => runs[t].att > 0

\* A coroutine at work owes no more than before.
Shortened == \A t \in Tokens : runs[t].pc # "done" => Owed(runs'[t]) <= Owed(runs[t])

\* What a coroutine owes, by where it sleeps.
LEMMA OwedIs ==
    ASSUME NEW r \in Run
    PROVE  LET more == (MAX_ATTEMPTS - 1 - r.att) * 4250
           IN  /\ more \in Nat /\ r.wait \in Nat /\ Owed(r) \in Nat
               /\ r.pc = "done"      => Owed(r) = 0
               /\ r.pc = "prepare"   => Owed(r) = r.wait + 2800 + more
               /\ r.pc = "probe"     => Owed(r) = r.wait + 2050 + more
               /\ r.pc = "backoff"   => Owed(r) = r.wait + 2050 + more
               /\ r.pc = "dial"      => Owed(r) = r.wait + 1200 + more
               /\ r.pc = "handshake" => Owed(r) = r.wait + 500 + more
               /\ r.pc = "switch"    => Owed(r) = r.wait + more
  <1> DEFINE more == (MAX_ATTEMPTS - 1 - r.att) * 4250
  <1>1. r.att \in 0..(MAX_ATTEMPTS - 1) /\ r.wait \in Nat /\ MAX_ATTEMPTS \in Nat
    BY BoundAssumption DEF Run
  <1>2. more \in Nat
    BY <1>1
  <1>3. Attempt_MS = 2050 /\ 2200 + Attempt_MS = 4250
    BY DEF Attempt_MS, DIAL_MS, HANDSHAKE_MS, SWITCH_MS
  <1>4. Later(r) = more + [prepare |-> 2800, probe |-> 2050, backoff |-> 2050,
                           dial |-> 1200, handshake |-> 500, switch |-> 0][r.pc]
    BY <1>3 DEF Later, PROBE_MS, HANDSHAKE_MS, SWITCH_MS
  <1>5. r.pc \in Pcs \cup {"done"}
    BY DEF Run
  <1> HIDE DEF more
  <1>6. QED
    BY <1>1, <1>2, <1>4, <1>5 DEF Owed, Pcs, more

LEMMA DelayIs ==
    /\ Delay["prepare"] = 650 /\ Delay["probe"] = 750 /\ Delay["dial"] = 850
    /\ Delay["handshake"] = 700 /\ Delay["switch"] = 500 /\ Delay["backoff"] = 2200
    /\ Delay["done"] = 0
  BY DEF Delay, PREPARE_MS, PROBE_MS, DIAL_MS, HANDSHAKE_MS, SWITCH_MS

\* A punctual coroutine owes no more than the budget.
LEMMA PunctualOwes ==
    ASSUME TypeOK, Punctual, NEW t \in Tokens
    PROVE  Owed(runs[t]) \in 0..Budget_MS
  <1> DEFINE r == runs[t]
             more == (MAX_ATTEMPTS - 1 - r.att) * 4250
             most == (MAX_ATTEMPTS - 1) * 4250
  <1>1. r \in Run
    BY DEF TypeOK, ConnTypeOK, Runs, Run
  <1>0. r.wait <= Delay[r.pc] /\ (r.pc = "backoff" => r.att > 0)
    BY DEF Punctual
  <1>2. /\ r.wait \in Nat /\ r.pc \in Pcs \cup {"done"}
        /\ r.att \in 0..(MAX_ATTEMPTS - 1)
    BY <1>1 DEF Run
  <1>3. /\ more <= most /\ most \in Nat
        /\ r.pc = "backoff" => more <= most - 4250
    BY <1>0, <1>2, BoundAssumption
  <1>4. Budget_MS = 3450 + most
    BY BoundAssumption DEF Budget_MS, Attempt_MS, PREPARE_MS, PROBE_MS, DIAL_MS, HANDSHAKE_MS, SWITCH_MS
  <1>5. /\ more \in Nat /\ Owed(r) \in Nat
        /\ r.pc = "done"      => Owed(r) = 0
        /\ r.pc = "prepare"   => Owed(r) = r.wait + 2800 + more
        /\ r.pc = "probe"     => Owed(r) = r.wait + 2050 + more
        /\ r.pc = "backoff"   => Owed(r) = r.wait + 2050 + more
        /\ r.pc = "dial"      => Owed(r) = r.wait + 1200 + more
        /\ r.pc = "handshake" => Owed(r) = r.wait + 500 + more
        /\ r.pc = "switch"    => Owed(r) = r.wait + more
    BY <1>1, OwedIs
  <1> HIDE DEF more, most, r
  <1>7. Owed(r) <= 3450 + most
    BY <1>0, <1>2, <1>3, <1>5, DelayIs DEF Pcs
  <1>8. QED
    BY <1>3, <1>4, <1>5, <1>7 DEF r

\* A coroutine that goes on to another sleep.
LEMMA SleepOwes ==
    ASSUME TypeOK, Punctual, NEW t \in Tokens, NEW pc \in Pcs, NEW ms \in Nat,
           NEW a \in 0..(MAX_ATTEMPTS - 1), Sleep(t, pc, ms, a),
           ms <= Delay[pc], pc = "backoff" => a > 0,
           Owed([pc |-> pc, wait |-> ms, att |-> a]) <= Owed(runs[t])
    PROVE  Punctual' /\ Shortened
  <1>1. /\ runs'[t] = [pc |-> pc, wait |-> ms, att |-> a]
        /\ \A u \in Tokens : u # t => runs'[u] = runs[u]
    BY DEF Sleep, TypeOK, ConnTypeOK, Runs
  <1>2. \A u \in Tokens : runs[u] \in Run
    BY DEF TypeOK, ConnTypeOK, Runs, Run
  <1>3. Shortened
    <2> SUFFICES ASSUME NEW u \in Tokens PROVE Owed(runs'[u]) <= Owed(runs[u])
      BY DEF Shortened
    <2>1. Owed(runs[u]) \in Nat
      BY <1>2, OwedIs
    <2>2. QED
      BY <1>1, <2>1
  <1>4. QED
    BY <1>1, <1>3 DEF Punctual

\* A coroutine that ends owes nothing any more.
LEMMA FinishOwes ==
    ASSUME TypeOK, Punctual, NEW t \in Tokens, Finish(t)
    PROVE  Punctual' /\ Shortened
  <1>1. runs'[t] = Done /\ \A u \in Tokens : u # t => runs'[u] = runs[u]
    BY DEF Finish, TypeOK, ConnTypeOK, Runs
  <1>2. \A u \in Tokens : Owed(runs[u]) \in Nat
    BY OwedIs DEF TypeOK, ConnTypeOK, Runs, Run
  <1>3. Done.pc = "done" /\ Done.wait = 0 /\ Owed(Done) = 0
    BY DEF Done, Owed
  <1>4. QED
    BY <1>1, <1>2, <1>3, DelayIs DEF Punctual, Shortened

\* The dial of attempt a, after the sleep before it.
LEMMA SelectOwes ==
    ASSUME TypeOK, Punctual, NEW t \in Tokens, Select(t, runs[t].att),
           runs[t].pc \in {"probe", "backoff"}
    PROVE  Punctual' /\ Shortened
  <1>1. CASE Candidates(scenario) = {}
    BY <1>1, FinishOwes DEF Select
  <1>2. CASE Candidates(scenario) # {}
    <2> DEFINE r == [pc |-> "dial", wait |-> DIAL_MS, att |-> runs[t].att]
    <2>1. /\ Sleep(t, "dial", DIAL_MS, runs[t].att)
          /\ runs[t] \in Run /\ r \in Run /\ DIAL_MS = 850 /\ "dial" \in Pcs
      BY <1>2 DEF Select, DIAL_MS, Pcs, Run, TypeOK, ConnTypeOK, Runs
    <2>2. Owed(r) <= Owed(runs[t])
      BY <2>1, OwedIs
    <2>3. runs[t].att \in 0..(MAX_ATTEMPTS - 1)
      BY <2>1 DEF Run
    <2>4. QED
      BY <2>1, <2>2, <2>3, SleepOwes, DelayIs
  <1>3. QED
    BY <1>1, <1>2

\* The next attempt, after a sleep that is over.
LEMMA NextAttemptOwes ==
    ASSUME TypeOK, Punctual, NEW t \in Tokens, NextAttempt(t),
           runs[t].pc \in {"handshake", "switch"}
    PROVE  Punctual' /\ Shortened
  <1> DEFINE a == runs[t].att + 1
             ms == Least(backoffMs(a), 2200)
             r == [pc |-> "backoff", wait |-> ms, att |-> a]
  <1>1. runs[t] \in Run /\ runs[t].att \in Nat /\ MAX_ATTEMPTS \in Nat /\ a \in Nat /\ a > 0
    BY BoundAssumption DEF TypeOK, ConnTypeOK, Runs, Run
  <1>2. CASE ~InBudget(a)
    BY <1>2, FinishOwes DEF NextAttempt
  <1>3. CASE InBudget(a)
    <2>1. a \in 0..(MAX_ATTEMPTS - 1) /\ Sleep(t, "backoff", ms, a)
      BY <1>1, <1>3 DEF InBudget, NextAttempt
    <2>2. ms \in Nat /\ ms <= 2200
      <3>1. ms \in Nat
        BY <1>1, BackoffType
      <3>2. QED
        BY <3>1 DEF Least
    <2>3. r \in Run /\ "backoff" \in Pcs
      BY <2>1, <2>2 DEF Run, Pcs
    <2>4. /\ (MAX_ATTEMPTS - 1 - a) * 4250 + 4250 = (MAX_ATTEMPTS - 1 - runs[t].att) * 4250
          /\ Owed(r) = ms + 2050 + (MAX_ATTEMPTS - 1 - a) * 4250
      BY <1>1, <2>3, OwedIs
    <2>5. Owed(runs[t]) >= (MAX_ATTEMPTS - 1 - runs[t].att) * 4250
      BY <1>1, OwedIs
    <2>6. Owed(r) <= Owed(runs[t])
      <3>1. (MAX_ATTEMPTS - 1 - a) * 4250 \in Int /\ (MAX_ATTEMPTS - 1 - runs[t].att) * 4250 \in Int
        BY <1>1
      <3>2. Owed(runs[t]) \in Nat /\ Owed(r) \in Nat
        BY <1>1, <2>3, OwedIs
      <3>3. QED
        BY <2>2, <2>4, <2>5, <3>1, <3>2
    <2>7. QED
      BY <1>1, <2>1, <2>2, <2>3, <2>6, SleepOwes, DelayIs
  <1>4. QED
    BY <1>2, <1>3

\* A step of a coroutine.
LEMMA RunStepOwes ==
    ASSUME IInv, Punctual, NEW t \in Tokens, RunStep(t)
    PROVE  Punctual' /\ Shortened
  <1>0. /\ TypeOK /\ runs[t] \in Run /\ runs[t].att \in 0..(MAX_ATTEMPTS - 1)
        /\ 0 \in 0..(MAX_ATTEMPTS - 1)
    BY BoundAssumption DEF IInv, TypeOK, ConnTypeOK, Runs, Run
  <1>1. \A pc \in {"prepare", "probe"} : Wakes(t, pc) => runs[t].att = 0
    BY DEF Wakes, IInv, CInv, FirstAttempt, LiveRun
  <1> DEFINE To(pc, ms, a) ==
          /\ pc \in Pcs /\ pc # "backoff" /\ ms \in Nat /\ ms = Delay[pc]
          /\ a \in 0..(MAX_ATTEMPTS - 1) /\ Sleep(t, pc, ms, a)
          /\ Owed([pc |-> pc, wait |-> ms, att |-> a]) <= Owed(runs[t])
  <1>2. ASSUME NEW pc, NEW ms, NEW a, To(pc, ms, a) PROVE Punctual' /\ Shortened
    BY <1>0, <1>2, SleepOwes
  <1>3. CASE Prepared(t)
    <2>1. /\ Wakes(t, "prepare") /\ runs[t].pc = "prepare" /\ runs[t].att = 0
          /\ Sleep(t, "probe", PROBE_MS, 0)
      BY <1>1, <1>3 DEF Prepared, Wakes
    <2>2. PROBE_MS = 750 /\ [pc |-> "probe", wait |-> 750, att |-> 0] \in Run /\ "probe" \in Pcs
      BY <1>0 DEF PROBE_MS, Run, Pcs
    <2>3. Owed([pc |-> "probe", wait |-> 750, att |-> 0]) <= Owed(runs[t])
      BY <1>0, <2>1, <2>2, OwedIs
    <2>4. To("probe", PROBE_MS, 0)
      BY <1>0, <2>1, <2>2, <2>3, DelayIs
    <2>5. QED
      BY <1>2, <2>4
  <1>4. CASE Probed(t)
    <2>1. runs[t].pc = "probe" /\ runs[t].att = 0 /\ Select(t, 0)
      BY <1>1, <1>4 DEF Probed, Wakes
    <2>2. QED
      BY <1>0, <2>1, SelectOwes
  <1>5. CASE BackedOff(t)
    BY <1>0, <1>5, SelectOwes DEF BackedOff, Wakes
  <1>6. CASE Dialed(t)
    <2> DEFINE r == [pc |-> "handshake", wait |-> 700, att |-> runs[t].att]
    <2>1. runs[t].pc = "dial" /\ Sleep(t, "handshake", HANDSHAKE_MS, runs[t].att)
      BY <1>6 DEF Dialed, Wakes
    <2>2. HANDSHAKE_MS = 700 /\ r \in Run /\ "handshake" \in Pcs
      BY <1>0 DEF HANDSHAKE_MS, Run, Pcs
    <2>3. Owed(r) <= Owed(runs[t])
      BY <1>0, <2>1, <2>2, OwedIs
    <2>4. To("handshake", HANDSHAKE_MS, runs[t].att)
      BY <1>0, <2>1, <2>2, <2>3, DelayIs
    <2>5. QED
      BY <1>2, <2>4
  <1>7. CASE Established(t) \/ Cancelled(t)
    BY <1>0, <1>7, FinishOwes DEF Established, Cancelled
  <1>8. CASE HandshakeFailed(t)
    <2> DEFINE r == [pc |-> "switch", wait |-> 500, att |-> runs[t].att]
    <2>1. runs[t].pc = "handshake"
      BY <1>8 DEF HandshakeFailed, Wakes
    <2>2. CASE NextAttempt(t)
      BY <1>0, <2>1, <2>2, NextAttemptOwes
    <2>3. CASE Sleep(t, "switch", SWITCH_MS, runs[t].att)
      <3>1. SWITCH_MS = 500 /\ r \in Run /\ "switch" \in Pcs
        BY <1>0 DEF SWITCH_MS, Run, Pcs
      <3>2. Owed(r) <= Owed(runs[t])
        BY <1>0, <2>1, <3>1, OwedIs
      <3>3. To("switch", SWITCH_MS, runs[t].att)
        BY <1>0, <2>3, <3>1, <3>2, DelayIs
      <3>4. QED
        BY <1>2, <3>3
    <2>4. QED
      BY <1>8, <2>2, <2>3 DEF HandshakeFailed
  <1>9. CASE Switched(t)
    BY <1>0, <1>9, NextAttemptOwes DEF Switched, Wakes
  <1>10. QED
    BY <1>3, <1>4, <1>5, <1>6, <1>7, <1>8, <1>9 DEF RunStep

\* Time works off what is owed, millisecond by millisecond.
LEMMA ElapseOwes ==
    ASSUME TypeOK, Punctual, NEW d \in Quanta, Elapse(d)
    PROVE  /\ Punctual' /\ Shortened
           /\ \A t \in Tokens : runs[t].pc # "done" => Owed(runs'[t]) = Owed(runs[t]) - d
  <1>1. d \in Nat
    BY QuantaAssumption
  <1>2. ASSUME NEW t \in Tokens, runs[t].pc # "done"
        PROVE  /\ runs'[t].pc = runs[t].pc /\ runs'[t].att = runs[t].att
               /\ runs'[t].wait = runs[t].wait - d /\ runs[t].wait \in Nat
               /\ Owed(runs'[t]) = Owed(runs[t]) - d /\ Owed(runs[t]) \in Nat
    <2>1. /\ runs[t] \in Run /\ runs[t].wait \in Nat
          /\ runs'[t] = [runs[t] EXCEPT !.wait = runs[t].wait - d]
      BY <1>2 DEF Elapse, TypeOK, ConnTypeOK, Runs, Run
    <2>2. /\ runs'[t].pc = runs[t].pc /\ runs'[t].att = runs[t].att
          /\ runs'[t].wait = runs[t].wait - d
      BY <2>1 DEF Run
    <2>3. Later(runs'[t]) = Later(runs[t])
      BY <2>2 DEF Later
    <2>4. Owed(runs[t]) \in Nat /\ Owed(runs[t]) = runs[t].wait + Later(runs[t])
      BY <1>2, <2>1, OwedIs DEF Owed
    <2>5. Owed(runs'[t]) = runs[t].wait - d + Later(runs[t])
      BY <1>2, <2>2, <2>3 DEF Owed
    <2>6. Later(runs[t]) \in Int
      <3>1. (MAX_ATTEMPTS - 1 - runs[t].att) * (2200 + Attempt_MS) \in Int
        BY <2>1, BoundAssumption DEF Run, Attempt_MS, DIAL_MS, HANDSHAKE_MS, SWITCH_MS
      <3>2. runs[t].pc \in Pcs
        BY <1>2, <2>1 DEF Run
      <3>3. QED
        BY <3>1, <3>2 DEF Later, Pcs, PROBE_MS, Attempt_MS, DIAL_MS, HANDSHAKE_MS, SWITCH_MS
    <2>7. QED
      BY <1>1, <2>1, <2>2, <2>4, <2>5, <2>6
  <1>3. ASSUME NEW t \in Tokens, runs[t].pc = "done" PROVE runs'[t] = runs[t]
    BY <1>3 DEF Elapse
  <1>4. \A pc \in Pcs : Delay[pc] \in Nat
    BY DelayIs DEF Pcs
  <1>5. ASSUME NEW t \in Tokens PROVE runs'[t].wait <= Delay[runs'[t].pc]
    <2>1. CASE runs[t].pc = "done"
      BY <1>3, <2>1 DEF Punctual
    <2>2. CASE runs[t].pc # "done"
      <3>1. runs[t].pc \in Pcs
        BY <2>2 DEF TypeOK, ConnTypeOK, Runs
      <3>2. runs[t].wait <= Delay[runs[t].pc]
        BY DEF Punctual
      <3>3. QED
        BY <1>1, <1>2, <1>4, <2>2, <3>1, <3>2
    <2>3. QED
      BY <2>1, <2>2
  <1>6. \A t \in Tokens : runs'[t].pc = "backoff" => runs'[t].att > 0
    BY <1>2, <1>3 DEF Punctual
  <1>7. QED
    BY <1>1, <1>2, <1>5, <1>6 DEF Punctual, Shortened

\* A new request starts the coroutine of a token that had none.
LEMMA ConnectOwes ==
    ASSUME IInv, Punctual, connect
    PROVE  Punctual' /\ Shortened
  <1>1. runs[token + 1].pc = "done" /\ token + 1 \in Tokens
    BY RequestTokens DEF connect, IInv
  <1>2. \A t \in Tokens : Owed(runs[t]) \in Nat
    BY OwedIs DEF IInv, TypeOK, ConnTypeOK, Runs, Run
  <1>3. CASE activated
    <2>1. Sleep(token + 1, "prepare", PREPARE_MS, 0)
      BY <1>3 DEF connect
    <2>2. /\ runs'[token + 1] = [pc |-> "prepare", wait |-> 650, att |-> 0]
          /\ \A u \in Tokens : u # token + 1 => runs'[u] = runs[u]
      BY <1>1, <2>1 DEF Sleep, PREPARE_MS, IInv, TypeOK, ConnTypeOK, Runs
    <2>3. QED
      BY <1>1, <1>2, <2>2, DelayIs DEF Punctual, Shortened
  <1>4. CASE ~activated
    <2>1. runs' = runs
      BY <1>4 DEF connect
    <2>2. QED
      BY <1>2, <2>1 DEF Punctual, Shortened
  <1>5. QED
    BY <1>3, <1>4

LEMMA TimeStep ==
    ASSUME IInv, Punctual, [Next]_vars
    PROVE  Punctual' /\ Shortened
  <1>0. TypeOK /\ \A t \in Tokens : Owed(runs[t]) \in Nat
    BY OwedIs DEF IInv, TypeOK, ConnTypeOK, Runs, Run
  <1>1. ASSUME runs' = runs PROVE Punctual' /\ Shortened
    BY <1>0, <1>1 DEF Punctual, Shortened
  <1>2. CASE onDial
    BY <1>1, <1>2, ConnectOwes DEF onDial, disconnect
  <1>3. CASE AutoConnect
    BY <1>3, ConnectOwes DEF AutoConnect
  <1>4. CASE deactivate \/ toggleCm \/ RstBurst \/ RstTimer \/ boot
    BY <1>1, <1>4 DEF deactivate, disconnect, toggleCm, connVars, RstBurst, RstTimer, boot
  <1>5. ASSUME NEW s \in Scenarios, setScenario(s) PROVE Punctual' /\ Shortened
    BY <1>1, <1>5 DEF setScenario, disconnect, connVars
  <1>6. ASSUME NEW t \in Tokens, RunStep(t) PROVE Punctual' /\ Shortened
    BY <1>6, RunStepOwes
  <1>7. ASSUME NEW e \in Envelopes, runVerify(e) \/ VerdictChanges(e) PROVE Punctual' /\ Shortened
    BY <1>1, <1>7 DEF runVerify, VerdictChanges, connVars
  <1>8. ASSUME NEW g \in gate, VerifyTimer(g) PROVE Punctual' /\ Shortened
    BY <1>1, <1>8 DEF VerifyTimer, connVars
  <1>9. CASE Reload
    <2>1. \A t \in Tokens : runs'[t] = Done
      BY <1>9 DEF Reload
    <2>2. Done.pc = "done" /\ Done.wait = 0 /\ Owed(Done) = 0
      BY DEF Done, Owed
    <2>3. QED
      BY <1>0, <2>1, <2>2, DelayIs DEF Punctual, Shortened
  <1>10. ASSUME NEW d \in Quanta, Elapse(d) PROVE Punctual' /\ Shortened
    BY <1>0, <1>10, ElapseOwes
  <1>11. CASE UNCHANGED vars
    BY <1>1, <1>11 DEF vars, connVars
  <1>12. QED
    BY <1>2, <1>3, <1>4, <1>5, <1>6, <1>7, <1>8, <1>9, <1>10, <1>11 DEF Next

\* A request is answered within its budget of time.
THEOREM RequestsTimely == Spec => RequestsAreTimely
  <1>1. Init => Punctual
    BY DelayIs DEF Init, Punctual, Done
  <1>2. IInv /\ Punctual /\ [Next]_vars => Punctual'
    BY TimeStep
  <1>3. IInv /\ Punctual => \A t \in Tokens : Owed(runs[t]) \in 0..Budget_MS
    BY PunctualOwes DEF IInv
  <1>4. IInv /\ Punctual /\ [Next]_vars =>
          [ \A t \in Tokens : runs[t].pc # "done" =>
              /\ Owed(runs'[t]) <= Owed(runs[t])
              /\ \A d \in Quanta : Elapse(d) => Owed(runs'[t]) = Owed(runs[t]) - d ]_vars
    BY TimeStep, ElapseOwes DEF Shortened, IInv
  <1>5. QED
    BY <1>1, <1>2, <1>3, <1>4, Invariance, PTL DEF Spec, RequestsAreTimely
-----------------------------------------------------------------------------
(* The orchestrator implements the session of TunnelSession *)

\* A request with nothing under way starts a dial.
LEMMA ConnectDials ==
    ASSUME IInv, activated, connect, tunnel \notin Busy, tunnel # "connected"
    PROVE  Session!Next
  <1>1. ~LiveRun
    <2>1. LiveRun => tunnel = Stage[runs[token].pc] /\ runs[token].pc \in Pcs
      BY DEF IInv, CInv, TypeOK, ConnTypeOK, Runs, StateIsOfTheLiveRun, LiveRun
    <2>2. \A pc \in Pcs : Stage[pc] \in Busy
      BY DEF Pcs, Stage, Busy
    <2>3. QED
      BY <2>1, <2>2
  <1>2. Phase = "down"
    BY <1>1 DEF Phase, Busy
  <1>3. /\ token' = token + 1 /\ token \in Nat /\ token + 1 \in Tokens
        /\ attempt' = 0 /\ sessionStart' = 0
        /\ Sleep(token + 1, "prepare", PREPARE_MS, 0)
    BY RequestTokens DEF connect, IInv
  <1>4. runs'[token'].pc = "prepare"
    BY <1>3 DEF Sleep, IInv, TypeOK, ConnTypeOK, Runs
  <1>5. Phase' = "dialing"
    BY <1>4 DEF Phase, LiveRun
  <1>6. token' > token
    BY <1>3
  <1>7. Session!Dial
    BY <1>2, <1>3, <1>5, <1>6 DEF Session!Dial
  <1>8. QED
    BY <1>7 DEF Session!Next

\* A tear-down closes the session, whatever it was doing.
LEMMA DisconnectCloses ==
    ASSUME IInv, disconnect
    PROVE  Session!Next
  <1>1. /\ token' = token + 1 /\ token \in Nat /\ attempt' = attempt
        /\ sessionStart' = 0 /\ tunnel' = "idle" /\ runs' = runs
        /\ runs[token + 1].pc = "done"
    BY RequestTokens DEF disconnect, IInv
  <1>2. Phase' = "down"
    BY <1>1 DEF Phase, LiveRun
  <1>3. Session!Close
    BY <1>1, <1>2 DEF Session!Close
  <1>4. QED
    BY <1>3 DEF Session!Next

\* What the abstract session sees of a coroutine that goes back to sleep, or ends.
LEMMA SleepPhase ==
    ASSUME IInv, NEW t \in Tokens, t = token, token' = token, NEW pc \in Pcs,
           NEW ms, NEW a, Sleep(t, pc, ms, a)
    PROVE  Phase' = "dialing"
  <1>1. runs'[token'].pc = pc
    BY DEF Sleep, IInv, TypeOK, ConnTypeOK, Runs
  <1>2. QED
    BY <1>1 DEF Phase, LiveRun, Pcs

LEMMA FinishPhase ==
    ASSUME IInv, NEW t \in Tokens, t = token, token' = token, Finish(t)
    PROVE  ~LiveRun'
  <1>1. runs'[token'].pc = "done"
    BY DEF Finish, Done, IInv, TypeOK, ConnTypeOK, Runs
  <1>2. QED
    BY <1>1 DEF LiveRun

\* A failed attempt is a retry of the abstract session, or its end.
LEMMA NextAttemptSteps ==
    ASSUME IInv, NEW t \in Tokens, t = token, LiveRun, NextAttempt(t),
           UNCHANGED <<token, sessionStart>>
    PROVE  Session!Next
  <1>1. Phase = "dialing" /\ runs[t].att = attempt
    BY DEF Phase, IInv, CInv, StateIsOfTheLiveRun
  <1>2. attempt \in Nat /\ MAX_ATTEMPTS \in Nat
    BY BoundAssumption DEF IInv, TypeOK, ConnTypeOK
  <1>3. CASE attempt + 1 < MAX_ATTEMPTS
    <2>1. /\ attempt' = attempt + 1
          /\ Sleep(t, "backoff", Least(backoffMs(attempt + 1), 2200), attempt + 1)
      BY <1>1, <1>3 DEF NextAttempt, InBudget
    <2>2. Phase' = "dialing"
      BY <2>1, SleepPhase DEF Pcs
    <2>3. Session!Retry
      BY <1>1, <1>3, <2>1, <2>2 DEF Session!Retry
    <2>4. QED
      BY <2>3 DEF Session!Next
  <1>4. CASE ~(attempt + 1 < MAX_ATTEMPTS)
    <2>1. tunnel' = "config_error" /\ Finish(t) /\ attempt' = attempt
      BY <1>1, <1>4 DEF NextAttempt, InBudget
    <2>2. Phase' = "down"
      BY <2>1, FinishPhase DEF Phase
    <2>3. Session!GiveUp
      BY <1>1, <2>1, <2>2 DEF Session!GiveUp
    <2>4. QED
      BY <2>3 DEF Session!Next
  <1>5. QED
    BY <1>3, <1>4

\* Selecting an endpoint is invisible, unless there is none.
LEMMA SelectSteps ==
    ASSUME IInv, NEW t \in Tokens, t = token, LiveRun, NEW a, Select(t, a),
           UNCHANGED <<token, sessionStart, attempt>>
    PROVE  Session!Next \/ UNCHANGED Session!vars
  <1>1. Phase = "dialing"
    BY DEF Phase
  <1>2. CASE Candidates(scenario) = {}
    <2>1. tunnel' = "config_error" /\ Finish(t)
      BY <1>2 DEF Select
    <2>2. Phase' = "down"
      BY <2>1, FinishPhase DEF Phase
    <2>3. Session!GiveUp
      BY <1>1, <2>2 DEF Session!GiveUp
    <2>4. QED
      BY <2>3 DEF Session!Next
  <1>3. CASE Candidates(scenario) # {}
    <2>1. Sleep(t, "dial", DIAL_MS, a)
      BY <1>3 DEF Select
    <2>2. Phase' = "dialing"
      BY <2>1, SleepPhase DEF Pcs
    <2>3. QED
      BY <1>1, <2>2 DEF Session!vars
  <1>4. QED
    BY <1>2, <1>3

LEMMA RunStepSteps ==
    ASSUME IInv, NEW t \in Tokens, RunStep(t)
    PROVE  Session!Next \/ UNCHANGED Session!vars
  <1>1. token' = token
    BY DEF RunStep
  <1>2. ASSUME NEW pc \in Pcs, Wakes(t, pc)
        PROVE  /\ t = token /\ LiveRun /\ Phase = "dialing" /\ attempt = runs[t].att
               /\ pc \in {"prepare", "probe"} => attempt = 0
    BY <1>2 DEF Wakes, LiveRun, Pcs, Phase, IInv, CInv, StateIsOfTheLiveRun, FirstAttempt
  <1>3. CASE Prepared(t)
    <2>1. t = token /\ Phase = "dialing"
      BY <1>2, <1>3 DEF Prepared, Pcs
    <2>2. Sleep(t, "probe", PROBE_MS, 0) /\ UNCHANGED <<attempt, sessionStart>>
      BY <1>3 DEF Prepared
    <2>3. Phase' = "dialing"
      BY <1>1, <2>1, <2>2, SleepPhase DEF Pcs
    <2>4. QED
      BY <1>1, <2>1, <2>2, <2>3 DEF Session!vars
  <1>4. CASE Probed(t)
    <2>1. t = token /\ LiveRun /\ attempt = 0
      BY <1>2, <1>4 DEF Probed, Pcs
    <2>2. QED
      BY <1>1, <1>4, <2>1, SelectSteps DEF Probed
  <1>5. CASE BackedOff(t)
    <2>1. t = token /\ LiveRun
      BY <1>2, <1>5 DEF BackedOff, Pcs
    <2>2. QED
      BY <1>1, <1>5, <2>1, SelectSteps DEF BackedOff
  <1>6. CASE Dialed(t)
    <2>1. t = token /\ Phase = "dialing"
      BY <1>2, <1>6 DEF Dialed, Pcs
    <2>2. Sleep(t, "handshake", HANDSHAKE_MS, runs[t].att) /\ UNCHANGED <<attempt, sessionStart>>
      BY <1>6 DEF Dialed
    <2>3. Phase' = "dialing"
      BY <1>1, <2>1, <2>2, SleepPhase DEF Pcs
    <2>4. QED
      BY <1>1, <2>1, <2>2, <2>3 DEF Session!vars
  <1>7. CASE Established(t)
    <2>1. t = token /\ Phase = "dialing"
      BY <1>2, <1>7 DEF Established, Pcs
    <2>2. tunnel' = "connected" /\ sessionStart' = t /\ Finish(t) /\ attempt' = attempt
      BY <1>7 DEF Established
    <2>3. Phase' = "up"
      BY <1>1, <2>1, <2>2, FinishPhase DEF Phase
    <2>4. Session!Establish
      BY <1>1, <2>1, <2>2, <2>3 DEF Session!Establish
    <2>5. QED
      BY <2>4 DEF Session!Next
  <1>8. CASE HandshakeFailed(t)
    <2>1. t = token /\ LiveRun /\ Phase = "dialing"
      BY <1>2, <1>8 DEF HandshakeFailed, Pcs
    <2>2. CASE NextTransport(transport) # transport
      <3>1. /\ Sleep(t, "switch", SWITCH_MS, runs[t].att)
            /\ UNCHANGED <<attempt, sessionStart>>
        BY <1>8, <2>2 DEF HandshakeFailed
      <3>2. Phase' = "dialing"
        BY <1>1, <2>1, <3>1, SleepPhase DEF Pcs
      <3>3. QED
        BY <1>1, <2>1, <3>1, <3>2 DEF Session!vars
    <2>3. CASE NextTransport(transport) = transport
      BY <1>1, <1>8, <2>1, <2>3, NextAttemptSteps DEF HandshakeFailed
    <2>4. QED
      BY <2>2, <2>3
  <1>9. CASE Switched(t)
    <2>1. t = token /\ LiveRun
      BY <1>2, <1>9 DEF Switched, Pcs
    <2>2. QED
      BY <1>1, <1>9, <2>1, NextAttemptSteps DEF Switched
  <1>10. CASE Cancelled(t)
    <2>1. t # token /\ Finish(t) /\ UNCHANGED <<tunnel, attempt, sessionStart>>
      BY <1>10 DEF Cancelled
    <2>2. runs'[token'].pc = runs[token].pc
      BY <1>1, <2>1 DEF Finish, IInv, TypeOK, ConnTypeOK, Runs
    <2>3. Phase' = Phase
      BY <2>1, <2>2 DEF Phase, LiveRun
    <2>4. QED
      BY <1>1, <2>1, <2>3 DEF Session!vars
  <1>11. QED
    BY <1>3, <1>4, <1>5, <1>6, <1>7, <1>8, <1>9, <1>10 DEF RunStep

\* The RST burst interrupts the session and its timer recovers it; a timer that
\* outlived its session does nothing.
LEMMA RstSteps ==
    ASSUME IInv, RstBurst \/ RstTimer
    PROVE  Session!Next \/ UNCHANGED Session!vars
  <1>1. UNCHANGED <<token, runs, attempt, sessionStart>>
    BY DEF RstBurst, RstTimer
  <1>2. LiveRun' <=> LiveRun
    BY <1>1 DEF LiveRun
  <1>3. CASE RstBurst
    <2>1. tunnel = "connected" /\ tunnel' = "reconnecting" /\ ~LiveRun
      BY <1>3 DEF RstBurst, IInv, CInv, ConnectedIsSettled
    <2>2. Phase = "up" /\ Phase' = "recovering"
      BY <1>2, <2>1 DEF Phase
    <2>3. Session!Interrupt
      BY <1>1, <2>2 DEF Session!Interrupt
    <2>4. QED
      BY <2>3 DEF Session!Next
  <1>4. CASE RstTimer
    <2>1. tunnel' = IF tunnel = "reconnecting" THEN "connected" ELSE tunnel
      BY <1>4 DEF RstTimer
    <2>2. CASE LiveRun
      BY <1>1, <1>2, <2>2 DEF Phase, Session!vars
    <2>3. CASE ~LiveRun /\ tunnel = "reconnecting"
      <3>1. Phase = "recovering" /\ Phase' = "up"
        BY <1>2, <2>1, <2>3 DEF Phase
      <3>2. Session!Recover
        BY <1>1, <3>1 DEF Session!Recover
      <3>3. QED
        BY <3>2 DEF Session!Next
    <2>4. CASE ~LiveRun /\ tunnel # "reconnecting"
      BY <1>1, <1>2, <2>1, <2>4 DEF Phase, Session!vars
    <2>5. QED
      BY <2>2, <2>3, <2>4
  <1>5. QED
    BY <1>3, <1>4

LEMMA ElapseStutters ==
    ASSUME IInv, NEW d \in Quanta, Elapse(d)
    PROVE  UNCHANGED Session!vars
  <1>1. UNCHANGED <<token, tunnel, attempt, sessionStart>>
    BY DEF Elapse
  <1>2. runs'[token].pc = runs[token].pc
    BY DEF Elapse, IInv, TypeOK, ConnTypeOK, Runs
  <1>3. QED
    BY <1>1, <1>2 DEF Phase, LiveRun, Session!vars

LEMMA ReloadRestarts ==
    ASSUME Reload
    PROVE  Session!Next
  <1>1. /\ token' = 0 /\ runs' = [t \in Tokens |-> Done] /\ tunnel' = "idle"
        /\ sessionStart' = 0 /\ attempt' = 0
    BY DEF Reload
  <1>2. 0 \in Tokens /\ Done.pc = "done"
    BY BoundAssumption DEF Tokens, Done
  <1>3. Phase' = "down"
    BY <1>1, <1>2 DEF Phase, LiveRun
  <1>4. QED
    BY <1>1, <1>3 DEF Session!Next, Session!Restart

LEMMA FrameStutters ==
    ASSUME UNCHANGED connVars
    PROVE  UNCHANGED Session!vars
  BY DEF connVars, Phase, LiveRun, Session!vars

LEMMA SessionStep ==
    ASSUME IInv, [Next]_vars
    PROVE  [Session!Next]_(Session!vars)
  <1>1. CASE onDial
    <2>1. \/ disconnect
          \/ activated /\ tunnel \notin Busy /\ tunnel # "connected" /\ connect
      BY <1>1 DEF onDial
    <2>2. QED
      BY <2>1, ConnectDials, DisconnectCloses
  <1>2. CASE AutoConnect
    <2>1. activated /\ connect /\ tunnel \notin Busy /\ tunnel # "connected"
      BY <1>2 DEF AutoConnect, Busy
    <2>2. QED
      BY <2>1, ConnectDials
  <1>3. CASE deactivate
    BY <1>3, DisconnectCloses DEF deactivate
  <1>4. CASE toggleCm
    BY <1>4, FrameStutters DEF toggleCm
  <1>5. ASSUME NEW s \in Scenarios, setScenario(s)
        PROVE  Session!Next \/ UNCHANGED Session!vars
    <2>1. disconnect \/ UNCHANGED connVars
      BY <1>5 DEF setScenario
    <2>2. QED
      BY <2>1, DisconnectCloses, FrameStutters
  <1>6. ASSUME NEW t \in Tokens, RunStep(t)
        PROVE  Session!Next \/ UNCHANGED Session!vars
    BY <1>6, RunStepSteps
  <1>7. CASE RstBurst \/ RstTimer
    BY <1>7, RstSteps
  <1>8. ASSUME NEW e \in Envelopes, runVerify(e) \/ VerdictChanges(e)
        PROVE  UNCHANGED Session!vars
    BY <1>8, FrameStutters DEF runVerify, VerdictChanges
  <1>9. ASSUME NEW g \in gate, VerifyTimer(g) PROVE UNCHANGED Session!vars
    BY <1>9, FrameStutters DEF VerifyTimer
  <1>10. CASE boot
    BY <1>10, FrameStutters DEF boot
  <1>11. CASE Reload
    BY <1>11, ReloadRestarts
  <1>12. ASSUME NEW d \in Quanta, Elapse(d) PROVE UNCHANGED Session!vars
    BY <1>12, ElapseStutters
  <1>13. CASE UNCHANGED vars
    BY <1>13, FrameStutters DEF vars
  <1>14. QED
    BY <1>1, <1>2, <1>3, <1>4, <1>5, <1>6, <1>7, <1>8, <1>9, <1>10, <1>11, <1>12,
       <1>13 DEF Next

LEMMA SessionInit == Init => Session!Init
  <1> SUFFICES ASSUME Init PROVE Session!Init
    OBVIOUS
  <1>1. /\ token = 0 /\ runs = [t \in Tokens |-> Done] /\ tunnel = "idle"
        /\ sessionStart = 0 /\ attempt = 0
    BY DEF Init
  <1>2. 0 \in Tokens /\ Done.pc = "done"
    BY BoundAssumption DEF Tokens, Done
  <1>3. Phase = "down"
    BY <1>1, <1>2 DEF Phase, LiveRun
  <1>4. QED
    BY <1>1, <1>3 DEF Session!Init

\* Every behaviour of the orchestrator is, seen from outside, one of the session.
THEOREM Refinement == Spec => ImplementsSession
  <1>1. Init => Session!Init
    BY SessionInit
  <1>2. IInv /\ [Next]_vars => [Session!Next]_(Session!vars)
    BY SessionStep
  <1>3. QED
    BY <1>1, <1>2, Invariance, PTL DEF Spec, ImplementsSession, Session!Spec
=============================================================================

---------------------------- MODULE PreviewDefense ----------------------------
(***************************************************************************)
(* The closed loop of the preview's Defense tab: the 1 Hz engine loop of     *)
(* apps/preview/src/lib/vor/store.ts walks eight features of the channel     *)
(* towards the threat scenario, the countermeasures that are active repair    *)
(* them, the neural classifier of dpi.ts reads them, and a change of its     *)
(* verdict makes the plan that the user may apply.                           *)
(*                                                                         *)
(* Numbers are integers, thousandths of the code's: features, weights and    *)
(* what a layer hands to the next.  The classifier is the code's own, with   *)
(* the weights as a constant; its softmax orders the classes as the last     *)
(* layer does.  Every tick adds noise, as the code's does: what it adds to    *)
(* each feature is chosen among a constant set of vectors, and the walk ends  *)
(* on a multiple of a constant, which is 1 for the unit of the model and more *)
(* to have fewer states; a tick of the model is then one of the code's, since *)
(* both together are never more than the code's noise.                       *)
(*                                                                         *)
(* The tunnel that the loop also drives is VorStore's; here is what both     *)
(* read of the countermeasures.                                              *)
(***************************************************************************)
EXTENDS Integers, Sequences, FiniteSetsExt

CONSTANTS
    Model,     \* the manifest: W1, b1, W2, b2, W3, b3
    Noises,    \* the vectors of noise that a tick may add
    Grain,     \* bound: where a step of the walk ends, in thousandths
    Sliders,   \* bound: which sliders are moved, and to what
    MaxActs,   \* bound: acts of the user
    Null       \* null

SCALE     == 1000
AMPLITUDE == 35     \* of the noise
Features == {"rtt_variance", "rst_rate", "handshake_fail_ratio", "reset_after_client_hello",
             "payload_entropy", "timing_regularity", "throttle_ratio", "probe_hit_rate"}
Scenarios == {"calm", "throttling", "active_dpi", "blackout"}
Classes   == <<"benign", "throttling", "active_dpi">>
Kinds     == {"client_hello_split", "packet_fragmentation", "utls_fingerprint", "fake_sni",
              "padding", "mux", "port_hopping", "dns_mode", "transport_switch", "blackout_mode"}

ASSUME DefenseAssumption ==
    /\ Noises # {} /\ Noises \subseteq [Features -> -AMPLITUDE..AMPLITUDE] /\ Grain \in Nat \ {0}
    /\ \A noise \in Noises : \A k \in Features : Grain - 1 <= AMPLITUDE + Max({noise[k], -noise[k]})
    /\ Sliders \subseteq Features \X (0..SCALE) /\ MaxActs \in Nat
    /\ Null \notin {"loaded", "failed"} \cup {Classes[i] : i \in DOMAIN Classes}

VARIABLES
    model,           \* Null, "loaded" or "failed"
    features, verdict, scenario, plan, activeCms, manualOverride,   \* of the store
    acts             \* bound: acts of the user so far

vars == <<model, features, verdict, scenario, plan, activeCms, manualOverride, acts>>
-----------------------------------------------------------------------------
(* dpi.ts: the classifier *)

FEATURE_ORDER == <<"rtt_variance", "rst_rate", "handshake_fail_ratio", "reset_after_client_hello",
                   "payload_entropy", "timing_regularity", "throttle_ratio", "probe_hit_rate">>

Clamp(v) == IF v < 0 THEN 0 ELSE IF v > SCALE THEN SCALE ELSE v
sanitizeFeatures(f) == [k \in Features |-> Clamp(f[k])]

\* The sum of w[j] * x[j] over the vector x.
Dot(w, x) ==
    LET upTo[j \in 0..Len(x)] == IF j = 0 THEN 0 ELSE upTo[j - 1] + w[j] * x[j]
    IN  upTo[Len(x)]
Neuron(w, b, x) == (b * SCALE + Dot(w, x)) \div SCALE
Linear(W, b, x) == [i \in DOMAIN b |-> Neuron(W[i], b[i], x)]
ReLU(W, b, x)   == [i \in DOMAIN b |-> Max({0, Neuron(W[i], b[i], x)})]


\* The loop over the classes: a later one replaces the best so far if it exceeds it.
Best(logits) ==
    LET best == IF logits[2] > logits[1] THEN 2 ELSE 1
    IN  Classes[IF logits[3] > logits[best] THEN 3 ELSE best]

\* Layer by layer.  (A value bound by a quantifier is one that TLC computes once.)
classify(f) ==
    CHOOSE class \in {Classes[i] : i \in DOMAIN Classes} :
        \E x \in {[j \in 1..8 |-> sanitizeFeatures(f)[FEATURE_ORDER[j]]]} :
        \E h1 \in {ReLU(Model.W1, Model.b1, x)} :
        \E h2 \in {ReLU(Model.W2, Model.b2, h1)} :
            class = Best(Linear(Model.W3, Model.b3, h2))
-----------------------------------------------------------------------------
(* dpi.ts: plans, by the kinds of their actions *)

planFor_Mutant(class, f) ==    \* no escalation without resets after the ClientHello
    [triggered_by |-> class, actions |->
        CASE class = "benign"     -> {"utls_fingerprint"}
          [] class = "throttling" -> {"mux", "port_hopping"} \cup
                                     {k \in {"padding"} : f["timing_regularity"] > 500}
          [] class = "active_dpi" -> {"client_hello_split", "utls_fingerprint",
                                      "packet_fragmentation"} \cup
                                     {k \in {"fake_sni", "transport_switch"} :
                                         f["reset_after_client_hello"] > 400}]

planFor(class, f) ==
    [triggered_by |-> class, actions |->
        CASE class = "benign"     -> {"utls_fingerprint"}
          [] class = "throttling" -> {"mux", "port_hopping"} \cup
                                     {k \in {"padding"} : f["timing_regularity"] > 500}
          [] class = "active_dpi" -> {"client_hello_split", "utls_fingerprint",
                                      "packet_fragmentation", "transport_switch"} \cup
                                     {k \in {"fake_sni"} : f["reset_after_client_hello"] > 400}]

blackoutPlan ==
    [triggered_by |-> "blackout",
     actions |-> {"blackout_mode", "dns_mode", "client_hello_split", "packet_fragmentation",
                  "transport_switch"}]
-----------------------------------------------------------------------------
(* dpi.ts: the threat scenarios *)

Vector(v) == [k \in Features |-> v[CHOOSE j \in 1..8 : FEATURE_ORDER[j] = k]]
ZERO_FEATURES == Vector(<<0, 0, 0, 0, 900, 100, 0, 0>>)
SCENARIO_TARGETS ==
    [calm       |-> Vector(<<150,  50,  80,  40, 880, 120,  80,  30>>),
     throttling |-> Vector(<<450, 200, 250, 140, 550, 780, 720, 100>>),
     active_dpi |-> Vector(<<700, 680, 620, 720, 240, 440, 300, 660>>),
     blackout   |-> Vector(<<900, 500, 850, 450, 120, 300, 850, 200>>)]

\* The last multiple of Grain on the way from v - AMPLITUDE to v + n, or from v + AMPLITUDE
\* when n is negative: v + n itself when Grain is 1.
Noisy(v, n) == IF n < 0 THEN -((-(v + n)) \div Grain) * Grain ELSE ((v + n) \div Grain) * Grain

\* A step of the feature k towards its target, with the noise of the tick.
Stepped(f, s, noise, k) == Noisy(f[k] + ((SCENARIO_TARGETS[s][k] - f[k]) * 22) \div 100, noise[k])

stepFeatures(f, s, noise) == [k \in Features |-> Clamp(Stepped(f, s, noise, k))]

\* What is left of a feature when any of these countermeasures is active, in per cent.
Left_Mutant(v, cms, by, percent) ==     \* divided by what is to be left of it
    IF by \cap cms # {} THEN (v * 100) \div percent ELSE v

Left(v, cms, by, percent) == IF by \cap cms # {} THEN (v * percent) \div 100 ELSE v

Repaired(f, cms) ==
    [f EXCEPT !["reset_after_client_hello"] = Left(@, cms, {"client_hello_split", "fake_sni"}, 55),
              !["rst_rate"] = Left(Left(@, cms, {"packet_fragmentation"}, 55), cms, {"fake_sni"}, 70),
              !["probe_hit_rate"] = Left(@, cms, {"utls_fingerprint"}, 60),
              !["throttle_ratio"] = Left(Left(@, cms, {"mux"}, 78), cms, {"port_hopping"}, 72),
              !["rtt_variance"] = Left(@, cms, {"port_hopping"}, 90),
              !["timing_regularity"] = Left(@, cms, {"padding"}, 60),
              !["handshake_fail_ratio"] = Left(@, cms, {"dns_mode", "transport_switch"}, 55)]
-----------------------------------------------------------------------------
(* store.ts *)

Init ==
    /\ model = Null /\ features = ZERO_FEATURES /\ verdict = Null /\ scenario = "calm"
    /\ plan = Null /\ activeCms = {} /\ manualOverride = FALSE /\ acts = 0

refreshVerdict_Mutant(f) ==    \* the plan is kept when the class changes back to hostile
    \E v \in {classify(f)} :
        /\ verdict' = v
        /\ plan' = IF scenario = "blackout" THEN blackoutPlan
                   ELSE IF verdict = Null \/ (verdict # v /\ verdict = "benign") THEN planFor(v, f)
                   ELSE plan

\* Of the features f that have just been set; the plan is made anew when the class changes.
refreshVerdict(f) ==
    \E v \in {classify(f)} :
        /\ verdict' = v
        /\ plan' = IF scenario = "blackout" THEN blackoutPlan
                   ELSE IF verdict # v THEN planFor(v, f)
                   ELSE plan

Refresh(f) == IF model = "loaded" THEN refreshVerdict(f) ELSE UNCHANGED <<verdict, plan>>

\* boot() has fetched the manifest, or not; it does not try again.
ModelLoaded ==
    /\ model = Null /\ model' = "loaded"
    /\ refreshVerdict(features)
    /\ UNCHANGED <<features, scenario, activeCms, manualOverride, acts>>

ModelFailed ==
    /\ model = Null /\ model' = "failed"
    /\ UNCHANGED <<features, verdict, scenario, plan, activeCms, manualOverride, acts>>

\* The second half of a tick of startEngine; telemetry is the first.
Walked(noise) ==
    IF manualOverride THEN features
    ELSE Repaired(stepFeatures(features, scenario, noise), activeCms)

Walk(noise) ==
    /\ \E f \in {Walked(noise)} : features' = f /\ Refresh(f)
    /\ UNCHANGED <<model, scenario, activeCms, manualOverride>>

Tick == UNCHANGED acts /\ \E noise \in Noises : Walk(noise)

Act == acts < MaxActs /\ acts' = acts + 1

\* A blackout arms its plan at once; leaving it leaves the plan.
setScenario(s) ==
    /\ Act
    /\ scenario' = s /\ activeCms' = {} /\ manualOverride' = FALSE
    /\ plan' = IF s = "blackout" THEN blackoutPlan ELSE plan
    /\ UNCHANGED <<model, features, verdict>>

\* The chips of the tab are the actions of the plan.
toggleCm(kind) ==
    /\ Act /\ plan # Null /\ kind \in plan.actions
    /\ activeCms' = IF kind \in activeCms THEN activeCms \ {kind} ELSE activeCms \cup {kind}
    /\ UNCHANGED <<model, features, verdict, scenario, plan, manualOverride>>

applyPlan ==
    /\ Act /\ plan # Null
    /\ activeCms' = activeCms \cup plan.actions
    /\ UNCHANGED <<model, features, verdict, scenario, plan, manualOverride>>

\* The sliders are enabled in the manual mode.
setFeature(k, v) ==
    /\ Act /\ manualOverride
    /\ features' = [features EXCEPT ![k] = v]
    /\ Refresh(features')
    /\ UNCHANGED <<model, scenario, activeCms, manualOverride>>

setManualOverride ==
    /\ Act /\ manualOverride' = ~manualOverride
    /\ UNCHANGED <<model, features, verdict, scenario, plan, activeCms>>

User ==
    \/ \E s \in Scenarios : setScenario(s)
    \/ \E kind \in Kinds : toggleCm(kind)
    \/ applyPlan \/ setManualOverride
    \/ \E move \in Sliders : setFeature(move[1], move[2])

Next == ModelLoaded \/ ModelFailed \/ Tick \/ User

\* setInterval goes on.  A tick whose noise leaves the features where they are is a
\* stutter, so a walk may stay for ever where such a tick exists.
Fairness == []<>(\E noise \in Noises : Walked(noise) = features) \/ []<><<Tick>>_vars

Spec == Init /\ [][Next]_vars /\ Fairness
-----------------------------------------------------------------------------
(* What the tunnel makes of the countermeasures *)

\* A dial under active DPI fails rarely, and a connected tunnel is not reset.
defended == /\ "client_hello_split" \in activeCms
            /\ activeCms \cap {"packet_fragmentation", "transport_switch"} # {}

\* stepTelemetry: what a connected tunnel's telemetry is a random walk around.
If(cms, kinds, repaired, harmed) == IF cms \cap kinds # {} THEN repaired ELSE harmed
Baseline(s, cms) ==
    CASE s = "calm"       -> [down |-> 138, latency |-> 18, loss |-> 0, jitter |-> 6]
      [] s = "throttling" -> [down    |-> If(cms, {"mux", "port_hopping"}, 78, 26),
                              latency |-> 64,
                              loss    |-> If(cms, {"padding"}, 2, 8),
                              jitter  |-> 6]
      [] s = "active_dpi" -> [down    |-> If(cms, {"transport_switch"}, 96, 34),
                              latency |-> If(cms, {"client_hello_split"}, 42, 96),
                              loss    |-> If(cms, {"packet_fragmentation"}, 6, 42),
                              jitter  |-> If(cms, {"fake_sni"}, 14, 65)]
      [] s = "blackout"   -> [down    |-> If(cms, {"transport_switch"}, 42, 6),
                              latency |-> If(cms, {"dns_mode"}, 88, 190),
                              loss    |-> If(cms, {"packet_fragmentation"}, 14, 90),
                              jitter  |-> 50]
-----------------------------------------------------------------------------
(* Properties *)

\* Everything of the store has its type.
TypeOK ==
    /\ model \in {Null, "loaded", "failed"} /\ features \in [Features -> 0..SCALE]
    /\ verdict \in {Null, "benign", "throttling", "active_dpi"} /\ scenario \in Scenarios
    /\ plan # Null => plan.actions \subseteq Kinds
    /\ activeCms \subseteq Kinds /\ manualOverride \in BOOLEAN /\ acts \in 0..MaxActs

\* The plan on offer is the blackout's in a blackout, and otherwise one made for the class
\* of the features as they are now, or the blackout's that nothing has replaced yet.
PlanIsOfTheVerdict ==
    /\ verdict # Null => verdict = classify(features)
    /\ scenario = "blackout" => plan = blackoutPlan
    /\ plan # Null => plan.triggered_by \in {verdict, "blackout"}

\* The tunnel feels a plan that is applied: a verdict of active DPI leaves no plan on offer
\* whose application would not defend it, and the plan of the scenario repairs all of the
\* telemetry that any countermeasure could, but for the loss when the plan was made without
\* padding and the jitter when it was made without a fronted domain.
AppliedPlanIsFelt ==
    plan # Null /\ plan.actions \subseteq activeCms =>
        /\ verdict = "active_dpi" => defended
        /\ plan.triggered_by = scenario =>
              LET felt == Baseline(scenario, activeCms)
                  best == Baseline(scenario, Kinds)
              IN  /\ felt.down = best.down /\ felt.latency = best.latency
                  /\ felt.loss = best.loss \/ "padding" \in Kinds \ plan.actions
                  /\ felt.jitter = best.jitter \/ "fake_sni" \in Kinds \ plan.actions

=============================================================================

---------------------------- MODULE PreviewProofs ----------------------------
(***************************************************************************)
(* Theorems about two tabs of the preview that share no state.               *)
(*                                                                         *)
(* The defence loop (PreviewDefense), whatever the classifier's weights, the *)
(* noise and the sliders, and however often the user acts.  What the         *)
(* classifier computes does not matter to them: only that the plan on offer  *)
(* and the verdict are changed together, wherever the features are.          *)
(*                                                                         *)
(* The import panel (PreviewSubscription), whatever text is made of and      *)
(* whatever is pasted: what the two languages do to a text is compared token *)
(* by token.  Induction, over the places of a text and over the lines of a   *)
(* payload, is by the least number that fails (LeastOf).                     *)
(***************************************************************************)
EXTENDS PreviewDefense, PreviewSubscription, SequenceTheorems, WellFoundedInduction, TLAPS

(* The defence loop *)


ClassSet == {"benign", "throttling", "active_dpi"}

\* There is a verdict only when there is a model to make it.
VerdictHasModel == verdict # Null => model = "loaded" /\ verdict = classify(features)

\* What a plan holds, by what triggered it.
Holds(p) ==
    /\ p.triggered_by \in ClassSet \cup {"blackout"}
    /\ p.triggered_by = "throttling" => {"mux", "port_hopping"} \subseteq p.actions
    /\ p.triggered_by = "active_dpi" =>
            {"client_hello_split", "packet_fragmentation", "transport_switch"} \subseteq p.actions
    /\ p.triggered_by = "blackout" => blackoutPlan.actions \subseteq p.actions

PlanHolds == plan # Null => Holds(plan) /\ plan.triggered_by \in {verdict, "blackout"}

\* An applied plan of the scenario repairs what any countermeasure could.
Felt ==
    LET felt == Baseline(scenario, activeCms)
        best == Baseline(scenario, Kinds)
    IN  /\ felt.down = best.down /\ felt.latency = best.latency
        /\ felt.loss = best.loss \/ "padding" \in Kinds \ plan.actions
        /\ felt.jitter = best.jitter \/ "fake_sni" \in Kinds \ plan.actions

LoopInv ==
    /\ VerdictHasModel /\ PlanHolds
    /\ scenario = "blackout" => plan = blackoutPlan
-----------------------------------------------------------------------------
LEMMA NullIsNoClass == Null \notin ClassSet \cup {"loaded", "failed"}
  BY DefenseAssumption DEF ClassSet, Classes

\* The classifier answers one of its classes, whatever its weights.
LEMMA ClassifyAnswers ==
    ASSUME NEW f
    PROVE  classify(f) \in ClassSet
  <1> DEFINE x  == [j \in 1..8 |-> sanitizeFeatures(f)[FEATURE_ORDER[j]]]
             h1 == ReLU(Model.W1, Model.b1, x)
             h2 == ReLU(Model.W2, Model.b2, h1)
             logits == Linear(Model.W3, Model.b3, h2)
             S == {Classes[i] : i \in DOMAIN Classes}
  <1>1. \A l : Best(l) \in ClassSet /\ Best(l) \in S
    BY DEF Best, Classes, ClassSet
  <1>2. S = ClassSet
    BY DEF Classes, ClassSet
  <1>3. classify(f) = CHOOSE class \in S :
           \E a \in {x} : \E b \in {ReLU(Model.W1, Model.b1, a)} :
           \E c \in {ReLU(Model.W2, Model.b2, b)} :
                class = Best(Linear(Model.W3, Model.b3, c))
    BY DEF classify
  <1>4. \E class \in S :
           \E a \in {x} : \E b \in {ReLU(Model.W1, Model.b1, a)} :
           \E c \in {ReLU(Model.W2, Model.b2, b)} :
                class = Best(Linear(Model.W3, Model.b3, c))
    <2> HIDE DEF x, S
    <2>1. Best(logits) \in S
      BY <1>1
    <2>2. QED
      BY <2>1
  <1> HIDE DEF x, S
  <1>5. QED
    BY <1>2, <1>3, <1>4

LEMMA PlansHold ==
    /\ Holds(blackoutPlan)
    /\ \A f : \A class \in ClassSet :
          Holds(planFor(class, f)) /\ planFor(class, f).triggered_by = class
  BY DEF Holds, planFor, blackoutPlan, ClassSet

\* A refresh of the verdict for the features that have just been set.
LEMMA RefreshKeeps ==
    ASSUME LoopInv, scenario' = scenario,
           refreshVerdict(features'), model' = "loaded"
    PROVE  LoopInv'
  <1>1. PICK v \in {classify(features')} :
            /\ verdict' = v
            /\ plan' = IF scenario = "blackout" THEN blackoutPlan
                       ELSE IF verdict # v THEN planFor(v, features')
                       ELSE plan
    BY DEF refreshVerdict
  <1>2. v \in ClassSet /\ v = classify(features')
    BY <1>1, ClassifyAnswers
  <1>3. VerdictHasModel'
    BY <1>1, <1>2 DEF VerdictHasModel
  <1>4. blackoutPlan.triggered_by = "blackout"
    BY DEF blackoutPlan
  <1>5. PlanHolds'
    BY <1>1, <1>2, <1>4, PlansHold DEF LoopInv, PlanHolds
  <1>6. (scenario = "blackout" => plan = blackoutPlan)'
    BY <1>1
  <1>7. QED
    BY <1>3, <1>5, <1>6 DEF LoopInv

\* A walk or a slider sets the features and refreshes the verdict if there is a model.
LEMMA FeaturesKeep ==
    ASSUME LoopInv, UNCHANGED <<model, scenario>>, Refresh(features')
    PROVE  LoopInv'
  <1>1. CASE model = "loaded"
    BY <1>1, RefreshKeeps DEF Refresh
  <1>2. CASE model # "loaded"
    BY <1>2 DEF Refresh, LoopInv, VerdictHasModel, PlanHolds
  <1>3. QED
    BY <1>1, <1>2

LEMMA LoopInvInductive == LoopInv /\ [Next]_vars => LoopInv'
  <1> SUFFICES ASSUME LoopInv, [Next]_vars PROVE LoopInv'
    OBVIOUS
  <1>1. CASE ModelLoaded
    BY <1>1, RefreshKeeps DEF ModelLoaded
  <1>2. CASE ModelFailed
    BY <1>2, NullIsNoClass DEF ModelFailed, LoopInv, VerdictHasModel, PlanHolds
  <1>3. CASE Tick
    <2>1. PICK noise : Walk(noise)
      BY <1>3 DEF Tick
    <2>2. Refresh(features') /\ UNCHANGED <<model, scenario>>
      BY <2>1 DEF Walk
    <2>3. QED
      BY <2>2, FeaturesKeep
  <1>4. CASE User
    <2>1. CASE \E s \in Scenarios : setScenario(s)
      <3>1. blackoutPlan.triggered_by = "blackout"
        BY DEF blackoutPlan
      <3>2. PICK s \in Scenarios : setScenario(s)
        BY <2>1
      <3>3. /\ scenario' = s /\ plan' = IF s = "blackout" THEN blackoutPlan ELSE plan
            /\ UNCHANGED <<model, features, verdict>>
        BY <3>2 DEF setScenario
      <3>4. QED
        BY <3>1, <3>3, PlansHold DEF LoopInv, VerdictHasModel, PlanHolds
    <2>2. CASE (\E kind \in Kinds : toggleCm(kind)) \/ applyPlan \/ setManualOverride
      <3>1. UNCHANGED <<model, features, verdict, scenario, plan>>
        BY <2>2 DEF toggleCm, applyPlan, setManualOverride
      <3>2. QED
        BY <3>1 DEF LoopInv, VerdictHasModel, PlanHolds
    <2>3. CASE \E move \in Sliders : setFeature(move[1], move[2])
      <3>1. Refresh(features') /\ UNCHANGED <<model, scenario>>
        BY <2>3 DEF setFeature
      <3>2. QED
        BY <3>1, FeaturesKeep
    <2>4. QED
      BY <1>4, <2>1, <2>2, <2>3 DEF User
  <1>5. CASE UNCHANGED vars
    BY <1>5 DEF vars, LoopInv, VerdictHasModel, PlanHolds
  <1>6. QED
    BY <1>1, <1>2, <1>3, <1>4, <1>5 DEF Next

LEMMA LoopInvHolds == Spec => []LoopInv
  <1>1. Init => LoopInv
    BY DEF Init, LoopInv, VerdictHasModel, PlanHolds
  <1>2. QED
    BY <1>1, LoopInvInductive, PTL DEF Spec

\* The verdict is of the features as they are, and the plan on offer is of the verdict
\* or the blackout's, for every classifier.
THEOREM PlanFollowsVerdict == Spec => []PlanIsOfTheVerdict
  <1>1. LoopInv => PlanIsOfTheVerdict
    BY DEF LoopInv, VerdictHasModel, PlanHolds, PlanIsOfTheVerdict
  <1>2. QED
    BY <1>1, LoopInvHolds, PTL

\* An applied plan defends the tunnel and repairs the telemetry, for every classifier.
THEOREM AppliedPlanFelt == Spec => []AppliedPlanIsFelt
  <1>1. LoopInv => AppliedPlanIsFelt
    <2> SUFFICES ASSUME LoopInv, plan # Null, plan.actions \subseteq activeCms
                 PROVE  /\ verdict = "active_dpi" => defended
                        /\ plan.triggered_by = scenario => Felt
      BY DEF AppliedPlanIsFelt, Felt
    <2>1. Holds(plan) /\ plan.triggered_by \in {verdict, "blackout"}
      BY DEF LoopInv, PlanHolds
    <2>2. verdict = "active_dpi" => defended
      BY <2>1 DEF Holds, defended, blackoutPlan
    <2>3. CASE plan.triggered_by = "throttling" /\ scenario = "throttling"
      <3>1. /\ activeCms \cap {"mux", "port_hopping"} # {}
            /\ Kinds \cap {"mux", "port_hopping"} # {} /\ Kinds \cap {"padding"} # {}
            /\ "padding" \in plan.actions => activeCms \cap {"padding"} # {}
        BY <2>1, <2>3 DEF Holds, Kinds
      <3>2. QED
        BY <2>2, <2>3, <3>1 DEF Felt, Baseline, If, Kinds
    <2>4. CASE plan.triggered_by = "active_dpi" /\ scenario = "active_dpi"
      <3>1. /\ \A k \in {"transport_switch", "client_hello_split", "packet_fragmentation"} :
                  activeCms \cap {k} # {} /\ Kinds \cap {k} # {}
            /\ "fake_sni" \in Kinds
            /\ "fake_sni" \in plan.actions =>
                  activeCms \cap {"fake_sni"} # {} /\ Kinds \cap {"fake_sni"} # {}
        BY <2>1, <2>4 DEF Holds, Kinds
      <3>2. QED
        BY <2>2, <2>4, <3>1 DEF Felt, Baseline, If
    <2>5. CASE plan.triggered_by = "blackout" /\ scenario = "blackout"
      <3>1. \A k \in {"transport_switch", "dns_mode", "packet_fragmentation"} :
                  activeCms \cap {k} # {} /\ Kinds \cap {k} # {}
        BY <2>1, <2>5 DEF Holds, Kinds, blackoutPlan
      <3>2. QED
        BY <2>2, <2>5, <3>1 DEF Felt, Baseline, If
    <2>6. CASE scenario = "benign"
      BY <2>1, <2>2, <2>6 DEF Felt, Baseline
    <2>7. QED
      BY <2>1, <2>2, <2>3, <2>4, <2>5, <2>6 DEF Holds, ClassSet
  <1>2. QED
    BY <1>1, LoopInvHolds, PTL
-----------------------------------------------------------------------------
(* Type correctness *)

\* A step and a repair keep every feature between nothing and one.
LEMMA StepFeaturesTyped ==
    ASSUME features \in [Features -> 0..SCALE], NEW noise \in Noises, scenario \in Scenarios
    PROVE  stepFeatures(features, scenario, noise) \in [Features -> 0..SCALE]
  <1>1. ASSUME NEW v \in Int PROVE Clamp(v) \in 0..SCALE
    BY DEF Clamp, SCALE
  <1>2. ASSUME NEW k \in Features PROVE SCENARIO_TARGETS[scenario][k] \in Int
    <2>1. \E j \in 1..8 : FEATURE_ORDER[j] = k
      BY DEF Features, FEATURE_ORDER
    <2>2. PICK j \in 1..8 : j = CHOOSE n \in 1..8 : FEATURE_ORDER[n] = k
      BY <2>1
    <2>3. ASSUME NEW v \in [1..8 -> Int] PROVE Vector(v)[k] \in Int
      BY <2>2 DEF Vector
    <2>4. /\ SCENARIO_TARGETS.calm[k] \in Int /\ SCENARIO_TARGETS.throttling[k] \in Int
          /\ SCENARIO_TARGETS.active_dpi[k] \in Int /\ SCENARIO_TARGETS.blackout[k] \in Int
      BY <2>3 DEF SCENARIO_TARGETS
    <2>5. QED
      BY <2>4 DEF Scenarios
  <1>3. ASSUME NEW v \in Int, NEW n \in Int PROVE Noisy(v, n) \in Int
    <2>1. Grain \in Nat \ {0} /\ v + n \in Int /\ -(v + n) \in Int
      BY DefenseAssumption
    <2>2. (v + n) \div Grain \in Int /\ (-(v + n)) \div Grain \in Int
      BY <2>1
    <2>3. QED
      BY <2>1, <2>2 DEF Noisy
  <1>4. ASSUME NEW k \in Features PROVE Stepped(features, scenario, noise, k) \in Int
    <2>1. features[k] \in Int /\ SCENARIO_TARGETS[scenario][k] \in Int
      BY <1>2 DEF SCALE
    <2>2. noise \in [Features -> Int]
      BY DefenseAssumption DEF AMPLITUDE
    <2> DEFINE v == features[k] + ((SCENARIO_TARGETS[scenario][k] - features[k]) * 22) \div 100
    <2>3. v \in Int /\ noise[k] \in Int
      BY <2>1, <2>2
    <2> HIDE DEF v
    <2>4. Noisy(v, noise[k]) \in Int
      BY <1>3, <2>3
    <2>5. QED
      BY <2>4 DEF Stepped, v
  <1>5. QED
    BY <1>1, <1>4 DEF stepFeatures

LEMMA LeftTyped ==
    ASSUME NEW v \in 0..SCALE, NEW cms, NEW by, NEW percent \in 0..100
    PROVE  Left(v, cms, by, percent) \in 0..SCALE
  <1>1. 0 <= v * percent /\ v * percent <= v * 100
    BY DEF SCALE
  <1>2. (v * percent) \div 100 \in 0..SCALE
    BY <1>1 DEF SCALE
  <1>3. QED
    BY <1>2 DEF Left

LEMMA RepairedTyped ==
    ASSUME NEW f \in [Features -> 0..SCALE], NEW cms
    PROVE  Repaired(f, cms) \in [Features -> 0..SCALE]
  <1>1. \A v \in 0..SCALE : \A by : \A percent \in {55, 60, 70, 72, 78, 90} :
            Left(v, cms, by, percent) \in 0..SCALE
    BY LeftTyped
  <1>2. QED
    BY <1>1 DEF Repaired, Features

\* The plans hold known countermeasures.
LEMMA PlansTyped ==
    /\ blackoutPlan.actions \subseteq Kinds
    /\ \A f : \A class \in ClassSet : planFor(class, f).actions \subseteq Kinds
  BY DEF blackoutPlan, planFor, ClassSet, Kinds

LEMMA RefreshTyped ==
    ASSUME TypeOK, Refresh(features')
    PROVE  /\ verdict' \in {Null, "benign", "throttling", "active_dpi"}
           /\ plan' # Null => plan'.actions \subseteq Kinds
  <1>1. CASE model = "loaded"
    <2>1. PICK v \in {classify(features')} :
              /\ verdict' = v
              /\ plan' = IF scenario = "blackout" THEN blackoutPlan
                         ELSE IF verdict # v THEN planFor(v, features')
                         ELSE plan
      BY <1>1 DEF Refresh, refreshVerdict
    <2>2. v \in ClassSet
      BY <2>1, ClassifyAnswers
    <2>3. QED
      BY <2>1, <2>2, PlansTyped DEF ClassSet, TypeOK
  <1>2. CASE model # "loaded"
    BY <1>2 DEF Refresh, TypeOK
  <1>3. QED
    BY <1>1, <1>2

LEMMA WalkTyped ==
    ASSUME TypeOK, NEW noise \in Noises
    PROVE  Walked(noise) \in [Features -> 0..SCALE]
  BY StepFeaturesTyped, RepairedTyped DEF Walked, TypeOK

LEMMA ActTyped ==
    ASSUME TypeOK, Act
    PROVE  acts' \in 0..MaxActs
  BY DefenseAssumption DEF Act, TypeOK

LEMMA TypeInductive == TypeOK /\ [Next]_vars => TypeOK'
  <1> SUFFICES ASSUME TypeOK, [Next]_vars PROVE TypeOK'
    OBVIOUS
  <1>1. CASE ModelLoaded
    <2>1. refreshVerdict(features) /\ features' = features
      BY <1>1 DEF ModelLoaded
    <2>2. PICK v \in {classify(features)} :
              /\ verdict' = v
              /\ plan' = IF scenario = "blackout" THEN blackoutPlan
                         ELSE IF verdict # v THEN planFor(v, features)
                         ELSE plan
      BY <2>1 DEF refreshVerdict
    <2>3. v \in ClassSet
      BY <2>2, ClassifyAnswers
    <2>4. QED
      BY <1>1, <2>2, <2>3, PlansTyped DEF ModelLoaded, ClassSet, TypeOK
  <1>2. CASE ModelFailed
    BY <1>2 DEF ModelFailed, TypeOK
  <1>3. CASE Tick
    <2>1. PICK noise \in Noises : Walk(noise)
      BY <1>3 DEF Tick
    <2>2. features' = Walked(noise) /\ Refresh(features')
          /\ UNCHANGED <<model, scenario, activeCms, manualOverride, acts>>
      BY <1>3, <2>1 DEF Walk, Tick
    <2>3. features' \in [Features -> 0..SCALE]
      BY <2>2, WalkTyped
    <2>4. QED
      BY <2>2, <2>3, RefreshTyped DEF TypeOK
  <1>4. CASE \E s \in Scenarios : setScenario(s)
    BY <1>4, ActTyped, PlansTyped DEF setScenario, TypeOK
  <1>5. CASE (\E kind \in Kinds : toggleCm(kind)) \/ applyPlan \/ setManualOverride
    BY <1>5, ActTyped DEF toggleCm, applyPlan, setManualOverride, TypeOK
  <1>6. CASE \E move \in Sliders : setFeature(move[1], move[2])
    <2>1. PICK move \in Sliders : setFeature(move[1], move[2])
      BY <1>6
    <2>2. move[1] \in Features /\ move[2] \in 0..SCALE
      BY DefenseAssumption
    <2>3. features' \in [Features -> 0..SCALE]
      BY <2>1, <2>2 DEF setFeature, TypeOK
    <2>4. QED
      BY <2>1, <2>3, ActTyped, RefreshTyped DEF setFeature, TypeOK
  <1>7. CASE UNCHANGED vars
    BY <1>7 DEF vars, TypeOK
  <1>8. QED
    BY <1>1, <1>2, <1>3, <1>4, <1>5, <1>6, <1>7 DEF Next, User

\* Every feature stays between nothing and one, whatever the weights and the noise, every
\* plan holds countermeasures of the engine, and the counters stay in their bounds.
THEOREM DefenseTypeCorrect == Spec => []TypeOK
  <1>1. Init => TypeOK
    <2>1. ZERO_FEATURES \in [Features -> 0..SCALE]
      <3>1. ASSUME NEW k \in Features PROVE ZERO_FEATURES[k] \in 0..SCALE
        <4>1. PICK j \in 1..8 : j = CHOOSE n \in 1..8 : FEATURE_ORDER[n] = k
          <5>1. \E n \in 1..8 : FEATURE_ORDER[n] = k
            BY DEF Features, FEATURE_ORDER
          <5>2. QED
            BY <5>1
        <4>2. \A n \in 1..8 : <<0, 0, 0, 0, 900, 100, 0, 0>>[n] \in 0..SCALE
          BY DEF SCALE
        <4>3. ZERO_FEATURES[k] = <<0, 0, 0, 0, 900, 100, 0, 0>>[j]
          BY <4>1 DEF ZERO_FEATURES, Vector
        <4>4. QED
          BY <4>2, <4>3
      <3>2. QED
        BY <3>1 DEF ZERO_FEATURES, Vector
    <2>2. 0 \in 0..MaxActs /\ "calm" \in Scenarios
      BY DefenseAssumption DEF Scenarios
    <2>3. QED
      BY <2>1, <2>2 DEF Init, TypeOK
  <1>2. QED
    BY <1>1, TypeInductive, PTL DEF Spec
-----------------------------------------------------------------------------
(* Text, cut and trimmed. *)

\* Every set of numbers that has an element has a least one.
LEMMA LeastOf == ASSUME NEW S \in SUBSET Nat, S # {} PROVE \E n \in S : \A m \in S : n <= m
  <1>1. PICK R : R = OpToRel(<, Nat)
    OBVIOUS
  <1>2. IsWellFoundedOn(R, Nat)
    BY <1>1, NatLessThanWellFounded
  <1>3. PICK n \in S : \A m \in S : ~(<<m, n>> \in R)
    BY <1>2, WFMin
  <1>4. \A m \in S : m < n => <<m, n>> \in R
    BY <1>1 DEF OpToRel
  <1>5. \A m \in S : ~(m < n)
    BY <1>3, <1>4
  <1>6. S \subseteq Nat /\ n \in Nat
    OBVIOUS
  <1>7. QED
    BY <1>5, <1>6

LEMMA SlicesOf ==
    ASSUME NEW T, NEW s \in Seq(T), NEW m \in 1..Len(s) + 1, NEW n \in 0..Len(s)
    PROVE  /\ SubSeq(s, m, n) \in Seq(T)
           /\ Len(SubSeq(s, m, n)) = IF m <= n THEN n - m + 1 ELSE 0
           /\ DOMAIN SubSeq(s, m, n) = 1..(n - m + 1)
           /\ \A i \in 1..(n - m + 1) : SubSeq(s, m, n)[i] = s[m + i - 1]
  <1>1. Len(s) \in Nat /\ m \in Int /\ n \in Int
    OBVIOUS
  <1>2. \A i \in m..n : s[i] \in T
    BY <1>1, ElementOfSeq
  <1>3. /\ SubSeq(s, m, n) \in Seq(T)
        /\ Len(SubSeq(s, m, n)) = IF m <= n THEN n - m + 1 ELSE 0
        /\ \A i \in 1..(n - m + 1) : SubSeq(s, m, n)[i] = s[m + i - 1]
    BY <1>1, <1>2, SubSeqProperties
  <1>4. DOMAIN SubSeq(s, m, n) = 1..Len(SubSeq(s, m, n))
    BY <1>3, LenProperties
  <1>5. QED
    BY <1>1, <1>3, <1>4

LEMMA FirstIs ==
    ASSUME NEW T, NEW s \in Seq(T), NEW c, Has(s, c)
    PROVE  First(s, c) \in 1..Len(s) /\ s[First(s, c)] = c /\ \A j \in 1..(First(s, c) - 1) : s[j] # c
  <1> DEFINE S == {i \in 1..Len(s) : s[i] = c}
  <1>1. DOMAIN s = 1..Len(s) /\ Len(s) \in Nat
    BY LenProperties
  <1>2. S \subseteq Nat /\ S # {}
    BY <1>1 DEF Has
  <1>3. PICK n \in S : \A m \in S : n <= m
    BY <1>2, LeastOf
  <1>4. n \in DOMAIN s /\ s[n] = c /\ \A j \in 1..(n - 1) : s[j] # c
    BY <1>1, <1>3
  <1>5. QED
    BY <1>1, <1>4 DEF First

LEMMA FinalIs ==
    ASSUME NEW T, NEW s \in Seq(T), NEW c, Has(s, c)
    PROVE  Final(s, c) \in 1..Len(s) /\ s[Final(s, c)] = c /\ \A j \in (Final(s, c) + 1)..Len(s) : s[j] # c
  <1> DEFINE S == {n \in 0..Len(s) : s[Len(s) - n] = c /\ n < Len(s)}
  <1>1. DOMAIN s = 1..Len(s) /\ Len(s) \in Nat
    BY LenProperties
  <1>2. S \subseteq Nat /\ S # {}
    <2>1. PICK i \in 1..Len(s) : s[i] = c
      BY <1>1 DEF Has
    <2>2. Len(s) - i \in 0..Len(s) /\ Len(s) - i < Len(s) /\ Len(s) - (Len(s) - i) = i
      BY <1>1
    <2>3. Len(s) - i \in S
      BY <2>1, <2>2
    <2>4. QED
      BY <2>3, <1>1
  <1>3. PICK n \in S : \A m \in S : n <= m
    BY <1>2, LeastOf
  <1>4. ASSUME NEW j \in (Len(s) - n + 1)..Len(s), s[j] = c PROVE FALSE
    <2>1. Len(s) - j \in 0..Len(s) /\ Len(s) - j < n /\ Len(s) - j < Len(s) /\ Len(s) - (Len(s) - j) = j
      BY <1>1, <1>3
    <2>2. Len(s) - j \in S
      BY <1>4, <2>1
    <2>3. QED
      BY <1>1, <1>3, <2>1, <2>2
  <1>5. Len(s) - n \in DOMAIN s /\ s[Len(s) - n] = c
    BY <1>1, <1>3
  <1>6. QED
    BY <1>1, <1>4, <1>5 DEF Final

LEMMA TrimEndIs ==
    ASSUME NEW T, NEW s \in Seq(T), NEW C
    PROVE  \E n \in 0..Len(s) : /\ TrimEnd(s, C) = SubSeq(s, 1, n)
                                /\ \A i \in (n + 1)..Len(s) : s[i] \in C
                                /\ n = 0 \/ s[n] \notin C
  <1> DEFINE S == {n \in 0..Len(s) : \A i \in (n + 1)..Len(s) : s[i] \in C}
  <1>1. Len(s) \in Nat
    OBVIOUS
  <1>2. S \subseteq Nat /\ Len(s) \in S
    BY <1>1
  <1>3. PICK n \in S : \A m \in S : n <= m
    BY <1>2, LeastOf
  <1>4. n = 0 \/ s[n] \notin C
    <2>1. SUFFICES ASSUME n # 0, s[n] \in C PROVE FALSE
      OBVIOUS
    <2>2. n - 1 \in 0..Len(s) /\ \A i \in (n - 1 + 1)..Len(s) : i = n \/ i \in (n + 1)..Len(s)
      BY <1>1, <1>3, <2>1
    <2>3. n - 1 \in S
      BY <1>3, <2>1, <2>2
    <2>4. n <= n - 1 /\ n \in Nat
      <3> HIDE DEF S
      <3>1. QED
        BY <1>2, <1>3, <2>3
    <2>5. QED
      BY <2>4
  <1>5. n \in 0..Len(s) /\ \A i \in (n + 1)..Len(s) : s[i] \in C
    BY <1>3
  <1> DEFINE k == CHOOSE n_1 \in 0..Len(s) : /\ \A i \in (n_1 + 1)..Len(s) : s[i] \in C
                                             /\ n_1 = 0 \/ s[n_1] \notin C
  <1>6. k \in 0..Len(s) /\ (\A i \in (k + 1)..Len(s) : s[i] \in C) /\ (k = 0 \/ s[k] \notin C)
    BY <1>4, <1>5
  <1>7. TrimEnd(s, C) = SubSeq(s, 1, k)
    BY DEF TrimEnd
  <1>8. QED
    BY <1>6, <1>7
-----------------------------------------------------------------------------
(* Cutting a text. *)

\* What comes before or after a token, and what is trimmed, is text of the same tokens.
Within(t, s) == \A i \in DOMAIN t : \E j \in DOMAIN s : t[i] = s[j]

LEMMA SliceWithin ==
    ASSUME NEW T, NEW s \in Seq(T), NEW m \in 1..Len(s) + 1, NEW n \in 0..Len(s)
    PROVE  SubSeq(s, m, n) \in Seq(T) /\ Within(SubSeq(s, m, n), s)
  <1>1. \A i \in 1..(n - m + 1) : m + i - 1 \in 1..Len(s)
    OBVIOUS
  <1>2. DOMAIN s = 1..Len(s)
    OBVIOUS
  <1>3. QED
    BY <1>1, <1>2, SlicesOf DEF Within

LEMMA WithinAll == ASSUME NEW T, NEW s \in Seq(T) PROVE Within(s, s)
  BY DEF Within

LEMMA HeadWithin ==
    ASSUME NEW T, NEW s \in Seq(T), NEW c
    PROVE  Head1(s, c) \in Seq(T) /\ Within(Head1(s, c), s)
  <1>1. CASE Has(s, c)
    <2>1. First(s, c) \in 1..Len(s)
      BY <1>1, FirstIs
    <2>2. First(s, c) - 1 \in 0..Len(s) /\ 1 \in 1..Len(s) + 1
      BY <2>1
    <2>3. SubSeq(s, 1, First(s, c) - 1) \in Seq(T) /\ Within(SubSeq(s, 1, First(s, c) - 1), s)
      BY <2>2, SliceWithin
    <2>4. QED
      BY <1>1, <2>3 DEF Head1, Before
  <1>2. CASE ~Has(s, c)
    BY <1>2, WithinAll DEF Head1
  <1>3. QED
    BY <1>1, <1>2

LEMMA AfterWithin ==
    ASSUME NEW T, NEW s \in Seq(T), NEW n \in 0..Len(s)
    PROVE  After(s, n) \in Seq(T) /\ Within(After(s, n), s)
  <1>1. n + 1 \in 1..Len(s) + 1 /\ Len(s) \in 0..Len(s)
    OBVIOUS
  <1>2. QED
    BY <1>1, SliceWithin DEF After

LEMMA RestWithin ==
    ASSUME NEW T, NEW s \in Seq(T), NEW c
    PROVE  Rest1(s, c) \in Seq(T) /\ Within(Rest1(s, c), s)
  <1>1. CASE Has(s, c)
    <2>1. First(s, c) \in 0..Len(s)
      BY <1>1, FirstIs
    <2>2. QED
      BY <1>1, <2>1, AfterWithin DEF Rest1
  <1>2. CASE ~Has(s, c)
    BY <1>2 DEF Rest1, Within
  <1>3. QED
    BY <1>1, <1>2

LEMMA TrimEndTyped ==
    ASSUME NEW T, NEW s \in Seq(T), NEW C
    PROVE  TrimEnd(s, C) \in Seq(T)
  <1>1. PICK n \in 0..Len(s) : TrimEnd(s, C) = SubSeq(s, 1, n)
    BY TrimEndIs
  <1>2. 1 \in 1..Len(s) + 1
    OBVIOUS
  <1>3. QED
    BY <1>1, <1>2, SliceWithin

LEMMA WithinOfWithin ==
    ASSUME NEW u, NEW t, NEW s, Within(u, t), Within(t, s)
    PROVE  Within(u, s)
  BY DEF Within

LEMMA NothingBroken == ASSUME NEW t, NEW s, Within(t, s), NoBroken(s) PROVE tsUrldecode(t) = urldecode(t)
  BY DEF Within, NoBroken, tsUrldecode, urldecode

LEMMA NothingSloppy ==
    ASSUME NEW T, NEW t \in Seq(T), NEW s, Within(t, s),
           \A i \in DOMAIN s : s[i] \notin DOMAIN Sloppy
    PROVE  b64DecodeForgiving(t) = b64_decode_forgiving(t)
  <1>1. ASSUME Len(t) = 1, t[1] \in DOMAIN Sloppy PROVE FALSE
    <2>1. 1 \in DOMAIN t
      BY <1>1, LenProperties
    <2>2. QED
      BY <1>1, <2>1 DEF Within
  <1>2. QED
    BY <1>1 DEF b64DecodeForgiving
-----------------------------------------------------------------------------
(* The host and the port. *)

LEMMA LastOrBefore == ASSUME NEW L \in Nat, NEW n \in 0..L PROVE n = L \/ (n < L /\ (n = L - 1 \/ n < L - 1))
  OBVIOUS

Start(h) == IF h # <<>> /\ h[1] = "[" THEN 2 ELSE 1
Stop(h)  == IF h # <<>> /\ h[Len(h)] = "]" THEN Len(h) - 1 ELSE Len(h)

LEMMA WhereToCut ==
    ASSUME NEW T, NEW h \in Seq(T),
           \A i \in DOMAIN h : (h[i] = "[" => i = 1) /\ (h[i] = "]" => i = Len(h)),
           NEW n \in 0..Len(h), NEW k \in 0..n,
           \A i \in (n + 1)..Len(h) : h[i] \in {"[", "]"}, n = 0 \/ h[n] \notin {"[", "]"},
           \A i \in 1..k : h[i] \in {"[", "]"}, k = n \/ h[k + 1] \notin {"[", "]"}
    PROVE  (k + 1 = Start(h) /\ n = Stop(h)) \/ (k >= n /\ Start(h) > Stop(h))
  <1>1. Len(h) \in Nat /\ DOMAIN h = 1..Len(h)
    BY LenProperties
  <1>0. n = Len(h) \/ (n < Len(h) /\ (n = Len(h) - 1 \/ n < Len(h) - 1))
    BY <1>1, LastOrBefore
  <1>2. CASE Len(h) = 0
    BY <1>2, EmptySeq DEF Start, Stop
  <1>3. CASE Len(h) = 1
    <2>1. h # <<>>
      BY <1>3
    <2>2. (n = 0 \/ n = 1) /\ (k = 0 \/ k = n)
      BY <1>3
    <2>3. h[1] = "[" \/ h[1] = "]" => n = 0
      BY <1>3, <2>2
    <2>4. h[1] # "[" /\ h[1] # "]" => n = 1 /\ k = 0
      BY <1>3, <2>2
    <2>5. QED
      BY <1>3, <2>1, <2>2, <2>3, <2>4 DEF Start, Stop
  <1>4. CASE Len(h) >= 2
    <2>1. h # <<>>
      BY <1>4
    <2>2. \A i \in 2..(Len(h) - 1) : h[i] # "[" /\ h[i] # "]"
      BY <1>1
    <2>3. h[1] # "]" /\ h[Len(h)] # "["
      BY <1>1, <1>4
    <2>4. n < Len(h) - 1 => Len(h) = 2 /\ n = 0 /\ h[1] = "[" /\ h[2] = "]"
      BY <1>1, <1>4, <2>2, <2>3
    <2>5. n # 0 => h[n] # "]" /\ h[n] # "["
      OBVIOUS
    <2>6. h[Len(h)] = "]" => n # Len(h)
      BY <1>4, <2>5
    <2>7. n # Len(h) => h[Len(h)] = "]"
      <3>1. n < Len(h) => Len(h) \in (n + 1)..Len(h)
        BY <1>1
      <3>2. QED
        BY <1>0, <2>3, <3>1
    <2>8. k > 0 => h[1] = "["
      <3>1. k > 0 => 1 \in 1..k
        BY <1>1
      <3>2. QED
        BY <2>3, <3>1
    <2>9. k > 1 => FALSE
      <3>1. k > 1 => 2 \in 1..k /\ 2 \in 2..Len(h) /\ n # 0
        BY <1>1
      <3>2. k > 1 => h[2] = "]" \/ h[2] = "["
        BY <3>1
      <3>3. k > 1 => 2 = Len(h)
        BY <1>1, <2>2, <3>1, <3>2
      <3>4. k > 1 => n = 2
        BY <1>1, <3>3
      <3>5. QED
        BY <2>5, <3>1, <3>2, <3>4
    <2>10. k = 0 /\ n # 0 => h[1] # "["
      OBVIOUS
    <2>11. CASE n = 0
      <3>1. Len(h) = 2 /\ h[1] = "[" /\ h[2] = "]" /\ k = 0
        BY <1>1, <1>4, <2>4, <2>11
      <3>2. QED
        BY <2>1, <2>11, <3>1 DEF Start, Stop
    <2>12. CASE n # 0
      <3>1. n = Stop(h)
        <4>1. n = Len(h) \/ n = Len(h) - 1
          BY <1>0, <2>4, <2>12
        <4>2. QED
          BY <1>1, <2>1, <2>6, <2>7, <4>1 DEF Stop
      <3>2. k + 1 = Start(h)
        BY <1>1, <2>1, <2>8, <2>9, <2>10, <2>12 DEF Start
      <3>3. QED
        BY <3>1, <3>2
    <2>13. QED
      BY <2>11, <2>12
  <1>5. QED
    BY <1>1, <1>2, <1>3, <1>4

\* trim_matches and the regular expression, of a host with brackets only around all of it.
LEMMA SameBrackets ==
    ASSUME NEW T, NEW h \in Seq(T),
           \A i \in DOMAIN h : (h[i] = "[" => i = 1) /\ (h[i] = "]" => i = Len(h))
    PROVE  Trim(h, {"[", "]"}) = Unbracketed(h)
  <1> DEFINE C == {"[", "]"}
             t == TrimEnd(h, C)
             from == IF h # <<>> /\ h[1] = "[" THEN 2 ELSE 1
             to   == IF h # <<>> /\ h[Len(h)] = "]" THEN Len(h) - 1 ELSE Len(h)
  <1>1. Len(h) \in Nat /\ DOMAIN h = 1..Len(h) /\ (h = <<>> <=> Len(h) = 0)
    BY LenProperties, EmptySeq
  <1>2. PICK n \in 0..Len(h) : /\ t = SubSeq(h, 1, n)
                               /\ \A i \in (n + 1)..Len(h) : h[i] \in C
                               /\ n = 0 \/ h[n] \notin C
    BY TrimEndIs
  <1>3. t \in Seq(T) /\ Len(t) = n /\ \A i \in 1..n : t[i] = h[i]
    <2>1. 1 \in 1..Len(h) + 1
      BY <1>1
    <2>2. QED
      BY <1>1, <1>2, <2>1, SlicesOf
  <1> DEFINE S == {k \in 0..n : k = n \/ h[k + 1] \notin C}
  <1>4. PICK m \in S : \A k \in S : m <= k
    <2>1. S \subseteq Nat /\ n \in S
      BY <1>1
    <2> HIDE DEF S
    <2>2. QED
      BY <2>1, LeastOf
  <1>5. \A i \in 1..m : h[i] \in C
    <2>1. SUFFICES ASSUME NEW i \in 1..m, h[i] \notin C PROVE FALSE
      OBVIOUS
    <2>2. i - 1 \in 0..n /\ i - 1 + 1 = i /\ i - 1 < m /\ m \in Nat /\ i - 1 \in Nat
      BY <1>1, <1>4
    <2>3. i - 1 \in S
      BY <2>1, <2>2
    <2> HIDE DEF S
    <2>4. m <= i - 1
      BY <1>4, <2>3
    <2>5. QED
      BY <2>2, <2>4
  <1> DEFINE k == CHOOSE k_1 \in 0..Len(t) : /\ \A i \in 1..k_1 : t[i] \in C
                                             /\ k_1 = Len(t) \/ t[k_1 + 1] \notin C
  <1>6. k \in 0..n /\ (\A i \in 1..k : h[i] \in C) /\ (k = n \/ h[k + 1] \notin C)
    <2>1. m \in 0..Len(t) /\ (\A i \in 1..m : t[i] \in C) /\ (m = Len(t) \/ t[m + 1] \notin C)
      BY <1>1, <1>3, <1>4, <1>5
    <2>2. k \in 0..Len(t) /\ (\A i \in 1..k : t[i] \in C) /\ (k = Len(t) \/ t[k + 1] \notin C)
      BY <2>1
    <2> HIDE DEF k, t, C
    <2>3. QED
      BY <1>1, <1>3, <2>2
  <1>7. Trim(h, C) = SubSeq(t, k + 1, Len(t))
    BY DEF Trim, After
  <1>8. Unbracketed(h) = SubSeq(h, from, to)
    BY DEF Unbracketed
  <1> HIDE DEF t, k
  <1>9. (k + 1 = from /\ n = to) \/ (k >= n /\ from > to)
    <2> HIDE DEF S
    <2>1. from = Start(h) /\ to = Stop(h)
      BY DEF Start, Stop
    <2> HIDE DEF from, to
    <2>2. (k + 1 = Start(h) /\ n = Stop(h)) \/ (k >= n /\ Start(h) > Stop(h))
      BY <1>2, <1>6, WhereToCut
    <2>3. QED
      BY <2>1, <2>2
  <1>10. from \in 1..Len(h) + 1 /\ to \in 0..Len(h) /\ k + 1 \in 1..n + 1
    BY <1>1, <1>6
  <1> HIDE DEF from, to
  <1>11. /\ SubSeq(t, k + 1, n) \in Seq(T) /\ SubSeq(h, from, to) \in Seq(T)
         /\ Len(SubSeq(t, k + 1, n)) = IF k + 1 <= n THEN n - k ELSE 0
         /\ Len(SubSeq(h, from, to)) = IF from <= to THEN to - from + 1 ELSE 0
         /\ \A i \in 1..(n - k) : SubSeq(t, k + 1, n)[i] = t[k + i]
         /\ \A i \in 1..(to - from + 1) : SubSeq(h, from, to)[i] = h[from + i - 1]
    <2>1. n \in 0..Len(t) /\ k + 1 \in 1..Len(t) + 1
      BY <1>1, <1>3, <1>10
    <2>2. /\ SubSeq(t, k + 1, n) \in Seq(T)
          /\ Len(SubSeq(t, k + 1, n)) = IF k + 1 <= n THEN n - (k + 1) + 1 ELSE 0
          /\ \A i \in 1..(n - (k + 1) + 1) : SubSeq(t, k + 1, n)[i] = t[k + 1 + i - 1]
      BY <1>3, <2>1, SlicesOf
    <2>3. /\ SubSeq(h, from, to) \in Seq(T)
          /\ Len(SubSeq(h, from, to)) = IF from <= to THEN to - from + 1 ELSE 0
          /\ \A i \in 1..(to - from + 1) : SubSeq(h, from, to)[i] = h[from + i - 1]
      BY <1>10, SlicesOf
    <2>4. n - (k + 1) + 1 = n - k /\ \A i \in 1..(n - k) : k + 1 + i - 1 = k + i
      BY <1>1, <1>6
    <2>5. QED
      BY <2>2, <2>3, <2>4
  <1>12. Len(SubSeq(t, k + 1, n)) = Len(SubSeq(h, from, to))
    BY <1>1, <1>6, <1>9, <1>10, <1>11
  <1>13. ASSUME NEW i \in 1..Len(SubSeq(t, k + 1, n))
         PROVE  SubSeq(t, k + 1, n)[i] = SubSeq(h, from, to)[i]
    <2>1. i \in 1..(n - k) /\ k + 1 <= n
      BY <1>1, <1>6, <1>11
    <2>2. k + 1 = from /\ n = to /\ i \in 1..(to - from + 1) /\ k + i \in 1..n /\ from + i - 1 = k + i
      BY <1>1, <1>6, <1>9, <2>1
    <2>3. QED
      BY <1>3, <1>11, <2>1, <2>2
  <1>14. SubSeq(t, k + 1, n) = SubSeq(h, from, to)
    BY <1>11, <1>12, <1>13, SeqEqual
  <1>15. QED
    BY <1>3, <1>7, <1>8, <1>14

LEMMA NumbersAreNat == ASSUME NEW s PROVE parseInt(s) = None \/ parseInt(s) \in Nat
  BY SubscriptionAssumption DEF parseInt

LEMMA SameHostPort ==
    ASSUME NEW s \in Text, PlainHost(s)
    PROVE  parseHostPort(s) = parse_host_port(s)
  <1> DEFINE t == TrimEnd(s, {"/"})
             host == Before(t, Final(t, ":"))
             port == After(t, Final(t, ":"))
  <1>1. t \in Seq(Tokens)
    BY TrimEndTyped DEF Text
  <1> HIDE DEF t
  <1>2. CASE ~Has(t, ":")
    BY <1>2 DEF parseHostPort, parse_host_port, t
  <1>3. CASE Has(t, ":")
    <2>1. Final(t, ":") \in 1..Len(t)
      BY <1>1, <1>3, FinalIs
    <2>2. host \in Seq(Tokens)
      <3>1. Final(t, ":") - 1 \in 0..Len(t) /\ 1 \in 1..Len(t) + 1
        BY <1>1, <2>1
      <3>2. QED
        BY <1>1, <3>1, SliceWithin DEF Before
    <2>3. port \in Seq(Tokens)
      BY <1>1, <2>1, AfterWithin
    <2>4. PlainPort(port) /\ \A i \in DOMAIN host : (host[i] = "[" => i = 1) /\ (host[i] = "]" => i = Len(host))
      BY <1>3 DEF PlainHost, t
    <2>5. Trim(host, {"[", "]"}) = Unbracketed(host)
      <3> HIDE DEF host
      <3>1. QED
        BY <2>2, <2>4, SameBrackets
    <2>6. IsPort(parseInt(port)) <=> Len(port) = 1 /\ port[1] \in DOMAIN Number /\ Number[port[1]] < 65536
      <3> HIDE DEF port
      <3>1. port # <<>> <=> Len(port) # 0
        BY <2>3, EmptySeq
      <3>2. CASE parseInt(port) = None
        BY <3>1, <3>2, SubscriptionAssumption DEF IsPort, parseInt
      <3>3. CASE Len(port) = 1 /\ IsPort(parseInt(port))
        BY <3>1, <3>3, SubscriptionAssumption DEF IsPort, parseInt
      <3>4. QED
        BY <2>4, <3>2, <3>3 DEF PlainPort
    <2>7. IsPort(parseInt(port)) => parseInt(port) = Number[port[1]]
      BY DEF IsPort, parseInt
    <2> HIDE DEF host, port
    <2>8. QED
      BY <1>3, <2>5, <2>6, <2>7 DEF parseHostPort, parse_host_port, t, host, port
  <1>4. QED
    BY <1>2, <1>3
-----------------------------------------------------------------------------
(* The query. *)

LEMMA EarliestIs ==
    ASSUME NEW S \in SUBSET Nat, S # {}
    PROVE  Earliest(S) \in S
  <1>1. \E i \in S : \A j \in S : i <= j
    BY LeastOf
  <1>2. QED
    BY <1>1 DEF Earliest

\* What stands before a token has not that token.
LEMMA HeadHasNot ==
    ASSUME NEW T, NEW s \in Seq(T), NEW c
    PROVE  ~Has(Head1(s, c), c)
  <1>1. CASE Has(s, c)
    <2>1. First(s, c) \in 1..Len(s) /\ \A j \in 1..(First(s, c) - 1) : s[j] # c
      BY <1>1, FirstIs
    <2>2. First(s, c) - 1 \in 0..Len(s) /\ 1 \in 1..Len(s) + 1
      BY <2>1
    <2>3. /\ DOMAIN SubSeq(s, 1, First(s, c) - 1) = 1..(First(s, c) - 1 - 1 + 1)
          /\ \A i \in 1..(First(s, c) - 1 - 1 + 1) : SubSeq(s, 1, First(s, c) - 1)[i] = s[1 + i - 1]
      BY <2>2, SlicesOf
    <2>4. /\ DOMAIN SubSeq(s, 1, First(s, c) - 1) = 1..(First(s, c) - 1)
          /\ \A i \in 1..(First(s, c) - 1) : SubSeq(s, 1, First(s, c) - 1)[i] = s[i]
      BY <2>1, <2>3
    <2>5. Head1(s, c) = SubSeq(s, 1, First(s, c) - 1)
      BY <1>1 DEF Head1, Before
    <2>6. QED
      BY <2>1, <2>4, <2>5 DEF Has
  <1>2. CASE ~Has(s, c)
    BY <1>2 DEF Head1
  <1>3. QED
    BY <1>1, <1>2

\* The head of a text starts like the text.
LEMMA HeadStarts ==
    ASSUME NEW T, NEW s \in Seq(T), NEW c, NEW i \in DOMAIN Head1(s, c)
    PROVE  /\ i \in 1..Len(s) /\ Head1(s, c)[i] = s[i]
           /\ \A j \in 1..i : j \in DOMAIN Head1(s, c)
  <1>1. CASE Has(s, c)
    <2>1. First(s, c) \in 1..Len(s)
      BY <1>1, FirstIs
    <2>2. First(s, c) - 1 \in 0..Len(s) /\ 1 \in 1..Len(s) + 1
      BY <2>1
    <2>3. /\ DOMAIN SubSeq(s, 1, First(s, c) - 1) = 1..(First(s, c) - 1 - 1 + 1)
          /\ \A n \in 1..(First(s, c) - 1 - 1 + 1) : SubSeq(s, 1, First(s, c) - 1)[n] = s[1 + n - 1]
      BY <2>2, SlicesOf
    <2>4. /\ DOMAIN SubSeq(s, 1, First(s, c) - 1) = 1..(First(s, c) - 1)
          /\ \A n \in 1..(First(s, c) - 1) : SubSeq(s, 1, First(s, c) - 1)[n] = s[n]
      BY <2>1, <2>3
    <2>5. Head1(s, c) = SubSeq(s, 1, First(s, c) - 1)
      BY <1>1 DEF Head1, Before
    <2>6. QED
      BY <2>1, <2>4, <2>5
  <1>2. CASE ~Has(s, c)
    <2>1. Head1(s, c) = s /\ DOMAIN s = 1..Len(s) /\ Len(s) \in Nat
      BY <1>2 DEF Head1
    <2>2. QED
      BY <2>1
  <1>3. QED
    BY <1>1, <1>2

\* Where "=" and "&" alternate, every key has a value, and no value has a "=".
LEMMA SameValue ==
    ASSUME NEW q \in Text, NEW key \in VlessKeys, PlainQuery(q), NoBroken(q)
    PROVE  queryGet(q, key) = query_get(q, key)
  <1>1. q \in Seq(Tokens) /\ Len(q) \in Nat /\ DOMAIN q = 1..Len(q)
    BY LenProperties DEF Text
  <1>2. key \notin {"=", "&"}
    BY DEF VlessKeys
  <1>3. \A i \in Keyed(q, key) : i \in 1..Len(q) /\ i < Len(q) /\ q[i + 1] = "=" /\ q[i] = key
    BY <1>1 DEF Keyed, PlainQuery
  <1>4. {i \in Keyed(q, key) : i < Len(q) /\ q[i + 1] = "="} = Keyed(q, key)
    BY <1>3
  <1>5. CASE Keyed(q, key) = {}
    BY <1>4, <1>5 DEF queryGet, query_get
  <1>6. CASE Keyed(q, key) # {}
    <2> DEFINE e == Earliest(Keyed(q, key))
               rest == After(q, e + 1)
               value == Head1(rest, "&")
    <2>1. e \in Keyed(q, key)
      <3>1. Keyed(q, key) \in SUBSET Nat
        BY <1>1, <1>3
      <3>2. QED
        BY <1>6, <3>1, EarliestIs
    <2>2. e \in 1..Len(q) /\ e < Len(q) /\ q[e + 1] = "=" /\ q[e] = key
      BY <1>3, <2>1
    <2> HIDE DEF e
    <2>3. rest \in Seq(Tokens) /\ Within(rest, q)
      <3>1. e + 1 \in 0..Len(q)
        BY <1>1, <2>2
      <3>2. QED
        BY <1>1, <3>1, AfterWithin
    <2>4. /\ Len(rest) = Len(q) - (e + 1)
          /\ \A i \in 1..Len(rest) : rest[i] = q[e + 1 + i]
      <3>1. e + 1 + 1 \in 1..Len(q) + 1 /\ Len(q) \in 0..Len(q)
        BY <1>1, <2>2
      <3>2. /\ Len(rest) = IF e + 1 + 1 <= Len(q) THEN Len(q) - (e + 1 + 1) + 1 ELSE 0
            /\ \A i \in 1..(Len(q) - (e + 1 + 1) + 1) : rest[i] = q[e + 1 + 1 + i - 1]
        BY <1>1, <3>1, SlicesOf DEF After
      <3> HIDE DEF rest
      <3>3. Len(rest) = Len(q) - (e + 1) /\ Len(q) - (e + 1 + 1) + 1 = Len(q) - (e + 1)
        <4>1. e \in Nat /\ Len(q) \in Nat /\ e + 1 <= Len(q)
          BY <1>1, <2>2
        <4>2. Len(rest) = IF e + 1 + 1 <= Len(q) THEN Len(q) - (e + 1 + 1) + 1 ELSE 0
          BY <3>2
        <4>3. QED
          BY <4>1, <4>2
      <3>4. \A i \in 1..Len(rest) : e + 1 + 1 + i - 1 = e + 1 + i
        BY <1>1, <2>2, <3>3
      <3>5. QED
        BY <3>2, <3>3, <3>4
    <2> HIDE DEF rest
    <2>5. value \in Seq(Tokens) /\ Within(value, rest) /\ ~Has(value, "&")
      BY <2>3, HeadWithin, HeadHasNot
    <2>6. \A i \in DOMAIN value : /\ i \in 1..Len(rest) /\ value[i] = rest[i]
                                  /\ \A j \in 1..i : j \in DOMAIN value
      BY <2>3, HeadStarts
    <2> HIDE DEF value
    <2>7. ~Has(value, "=")
      <3>1. SUFFICES ASSUME NEW i \in DOMAIN value, value[i] = "=" PROVE FALSE
        BY DEF Has
      <3>2. i \in 1..Len(rest) /\ rest[i] = "="
        BY <2>6, <3>1
      <3>3. e + 1 + i \in DOMAIN q /\ q[e + 1 + i] = "=" /\ e + 1 + i # 2
        <4>1. e \in Nat /\ e >= 1 /\ Len(q) \in Nat /\ i \in Nat /\ i >= 1 /\ i <= Len(q) - (e + 1)
          BY <1>1, <2>2, <2>4, <3>2
        <4>2. e + 1 + i \in 1..Len(q) /\ e + 1 + i # 2
          BY <4>1
        <4>3. QED
          BY <1>1, <2>4, <3>2, <4>2
      <3>4. q[e + 1 + i - 2] = "&"
        <4>1. PICK n : n = e + 1 + i
          OBVIOUS
        <4>2. n \in DOMAIN q /\ q[n] = "=" /\ n # 2
          BY <3>3, <4>1
        <4>3. q[n - 2] = "&"
          BY <4>2 DEF PlainQuery
        <4>4. n - 2 = e + 1 + i - 2
          <5>1. e \in Nat /\ i \in Nat
            BY <1>1, <2>2, <2>4, <3>2
          <5>2. QED
            BY <4>1, <5>1
        <4>5. QED
          BY <4>3, <4>4
      <3>5. i # 1
        <4>1. i = 1 => e + 1 + i - 2 = e
          BY <2>2
        <4>2. QED
          BY <1>2, <2>2, <3>4, <4>1
      <3>6. i # 2
        <4>1. i = 2 => e + 1 + i - 2 = e + 1
          BY <2>2
        <4>2. QED
          BY <2>2, <3>4, <4>1
      <3>7. i - 2 \in 1..i /\ i - 2 \in 1..Len(rest) /\ e + 1 + i - 2 = e + 1 + (i - 2)
        BY <1>1, <2>2, <2>4, <3>2, <3>5, <3>6
      <3>8. i - 2 \in DOMAIN value /\ value[i - 2] = "&"
        BY <2>4, <2>6, <3>4, <3>7
      <3>9. QED
        BY <2>5, <3>8 DEF Has
    <2>8. Head1(value, "=") = value
      BY <2>7 DEF Head1
    <2>9. tsUrldecode(value) = urldecode(value)
      BY <2>3, <2>5, WithinOfWithin, NothingBroken
    <2>10. queryGet(q, key) = tsUrldecode(Head1(value, "="))
      BY <1>6 DEF queryGet, value, rest, e
    <2>11. query_get(q, key) = urldecode(value)
      BY <1>4, <1>6 DEF query_get, value, rest, e
    <2>12. QED
      BY <2>8, <2>9, <2>10, <2>11
  <1>7. QED
    BY <1>5, <1>6
-----------------------------------------------------------------------------
(* The links of the four schemes. *)

\* The parts of a url are text of its tokens.
LEMMA UrlParts ==
    ASSUME NEW rest \in Text
    PROVE  /\ Authority(rest) \in Text /\ Within(Authority(rest), rest)
           /\ Query(rest) \in Text /\ Within(Query(rest), rest)
           /\ Head1(Authority(rest), "@") \in Text /\ Within(Head1(Authority(rest), "@"), rest)
           /\ Rest1(Authority(rest), "@") \in Text
  <1> DEFINE main == Head1(rest, "#")
             auth == Authority(rest)
  <1>1. main \in Seq(Tokens) /\ Within(main, rest)
    BY HeadWithin DEF Text
  <1>2. auth = Head1(main, "?") /\ Query(rest) = Rest1(main, "?")
    BY DEF Authority, Query
  <1> HIDE DEF main, auth
  <1>3. /\ auth \in Seq(Tokens) /\ Within(auth, main)
        /\ Query(rest) \in Seq(Tokens) /\ Within(Query(rest), main)
    BY <1>1, <1>2, HeadWithin, RestWithin
  <1>4. /\ Head1(auth, "@") \in Seq(Tokens) /\ Within(Head1(auth, "@"), auth)
        /\ Rest1(auth, "@") \in Seq(Tokens)
    BY <1>3, HeadWithin, RestWithin
  <1>5. Within(auth, rest) /\ Within(Query(rest), rest) /\ Within(Head1(auth, "@"), rest)
    BY <1>1, <1>3, <1>4, WithinOfWithin
  <1>6. QED
    BY <1>3, <1>4, <1>5 DEF Text, auth

LEMMA BrokenWithin == ASSUME NEW t, NEW s, Within(t, s), NoBroken(s) PROVE NoBroken(t)
  BY DEF Within, NoBroken

LEMMA SameUrl ==
    ASSUME NEW rest \in Text, PlainUrl(rest)
    PROVE  parseVless(rest) = parse_url("vless", rest) /\ parseTrojan(rest) = parse_url("trojan", rest)
  <1> DEFINE s == splitQuery(rest)
             auth == Authority(rest)
             query == Query(rest)
             user == Head1(auth, "@")
             hp == parse_host_port(Rest1(auth, "@"))
  <1>1. NoBroken(rest) /\ PlainQuery(query) /\ PlainHost(Rest1(auth, "@"))
    BY DEF PlainUrl
  <1>2. /\ query \in Text /\ Within(query, rest) /\ Rest1(auth, "@") \in Text
        /\ user \in Text /\ Within(user, rest)
    BY UrlParts
  <1>3. s.authority = auth /\ s.query = query
    <2>1. s.authority = auth /\ s.query = Head1(query, "?")
      BY DEF splitQuery, Authority, Query
    <2> HIDE DEF s, auth, query
    <2>2. ~Has(query, "?")
      BY <1>1 DEF PlainQuery, Has
    <2>3. Head1(query, "?") = query
      BY <2>2 DEF Head1
    <2>4. QED
      BY <2>1, <2>3
  <1> HIDE DEF s, query, auth
  <1>4. parseHostPort(Rest1(auth, "@")) = hp
    BY <1>1, <1>2, SameHostPort
  <1>5. tsUrldecode(user) = urldecode(user)
    BY <1>1, <1>2, NothingBroken
  <1>6. \A k \in VlessKeys : queryGet(query, k) = query_get(query, k)
    BY <1>1, <1>2, BrokenWithin, SameValue
  <1>7. TrojanKeys \subseteq VlessKeys
    BY DEF TrojanKeys, VlessKeys
  <1>8. /\ [k \in VlessKeys |-> queryGet(query, k)] = [k \in VlessKeys |-> query_get(query, k)]
        /\ [k \in TrojanKeys |-> queryGet(query, k)] = [k \in TrojanKeys |-> query_get(query, k)]
    BY <1>6, <1>7
  <1> HIDE DEF user, hp
  <1>9. parseVless(rest) =
          IF ~Has(auth, "@") \/ hp = None THEN Malformed
          ELSE Profile("vless", hp, urldecode(user), None, None, [k \in VlessKeys |-> query_get(query, k)])
    BY <1>3, <1>4, <1>5, <1>8 DEF parseVless, s, user
  <1>10. parseTrojan(rest) =
          IF ~Has(auth, "@") \/ hp = None THEN Malformed
          ELSE Profile("trojan", hp, <<>>, urldecode(user), None, [k \in TrojanKeys |-> query_get(query, k)])
    BY <1>3, <1>4, <1>5, <1>8 DEF parseTrojan, s, user
  <1>11. parse_url("vless", rest) =
          IF ~Has(auth, "@") \/ hp = None THEN Malformed
          ELSE Profile("vless", hp, urldecode(user), None, None, [k \in VlessKeys |-> query_get(query, k)])
    BY DEF parse_url, auth, query, user, hp
  <1>12. parse_url("trojan", rest) =
          IF ~Has(auth, "@") \/ hp = None THEN Malformed
          ELSE Profile("trojan", hp, <<>>, urldecode(user), None, [k \in TrojanKeys |-> query_get(query, k)])
    BY DEF parse_url, auth, query, user, hp
  <1>13. QED
    BY <1>9, <1>10, <1>11, <1>12

LEMMA SameVmess ==
    ASSUME NEW rest \in Text, PlainVmess(rest), \A i \in DOMAIN rest : rest[i] \notin DOMAIN Sloppy
    PROVE  parseVmess(rest) = parse_vmess(rest)
  <1> DEFINE text == b64_decode_forgiving(rest)
             v == Json[text[1]]
  <1>1. b64DecodeForgiving(rest) = text
    BY WithinAll, NothingSloppy DEF Text
  <1> HIDE DEF text
  <1>2. CASE text = None \/ Len(text) # 1 \/ text[1] \notin DOMAIN Json
    BY <1>1, <1>2 DEF parseVmess, parse_vmess, text
  <1>3. CASE ~(text = None \/ Len(text) # 1 \/ text[1] \notin DOMAIN Json)
    <2>1. PlainJson(v)
      BY <1>3 DEF PlainVmess, text
    <2>2. v # NullJson /\ v.port.is = "number" => v.port.number \in Nat
      BY <1>3, SubscriptionAssumption
    <2> HIDE DEF v
    <2>3. /\ IsPort(vmessPort(v)) => vmessPort(v) = vmess_port(v)
          /\ IsPort(vmessPort(v)) <=> vmess_port(v) # None
      <3>1. CASE v.port.is = "absent"
        BY <3>1 DEF vmessPort, vmess_port, IsPort
      <3>2. CASE v.port.is = "number" /\ IsPort(v.port.number)
        <4>1. PICK n : n = v.port.number
          OBVIOUS
        <4>2. n \in Nat /\ n <= 65535 /\ n # None
          BY <2>1, <2>2, <3>2, <4>1 DEF PlainJson, IsPort
        <4>3. n % 65536 = n
          BY <4>2
        <4>4. vmessPort(v) = n /\ vmess_port(v) = n % 65536
          BY <3>2, <4>1 DEF vmessPort, vmess_port
        <4>5. QED
          BY <3>2, <4>1, <4>2, <4>3, <4>4
      <3>3. CASE v.port.is = "text" /\ PlainPort(v.port.text)
        <4>1. PICK t : t = v.port.text
          OBVIOUS
        <4>2. /\ vmessPort(v) = parseInt(t)
              /\ vmess_port(v) = IF Len(t) = 1 /\ t[1] \in DOMAIN Number THEN Number[t[1]] % 65536 ELSE None
          BY <3>3, <4>1 DEF vmessPort, vmess_port
        <4>3. CASE parseInt(t) = None
          <5>1. ~(Len(t) = 1 /\ t[1] \in DOMAIN Number)
            <6>1. SUFFICES ASSUME Len(t) = 1, t[1] \in DOMAIN Number PROVE FALSE
              OBVIOUS
            <6>2. t # <<>>
              BY <6>1
            <6>3. parseInt(t) \in Nat
              BY <6>1, <6>2, SubscriptionAssumption DEF parseInt
            <6>4. QED
              BY <4>3, <6>3, SubscriptionAssumption
          <5>2. QED
            BY <4>2, <4>3, <5>1 DEF IsPort
        <4>4. CASE Len(t) = 1 /\ IsPort(parseInt(t))
          <5>1. t[1] \in DOMAIN Number /\ parseInt(t) = Number[t[1]]
            BY <4>4 DEF IsPort, parseInt
          <5>2. PICK n : n = Number[t[1]]
            OBVIOUS
          <5>3. n \in Nat /\ n <= 65535 /\ n # None
            BY <4>4, <5>1, <5>2, SubscriptionAssumption DEF IsPort
          <5>4. n % 65536 = n
            BY <5>3
          <5>5. QED
            BY <4>2, <4>4, <5>1, <5>2, <5>3, <5>4
        <4>5. QED
          BY <3>3, <4>1, <4>3, <4>4 DEF PlainPort
      <3>4. QED
        BY <2>1, <3>1, <3>2, <3>3 DEF PlainJson
    <2>4. parseVmess(rest) =
            IF v.add = None \/ ~IsPort(vmessPort(v)) THEN Malformed
            ELSE Profile("vmess", [host |-> v.add, port |-> vmessPort(v)], v.id, None, v.scy, v.params)
      BY <1>1, <1>3, <2>1 DEF parseVmess, PlainJson, v
    <2>5. parse_vmess(rest) =
            IF v.add = None \/ vmess_port(v) = None THEN Malformed
            ELSE Profile("vmess", [host |-> v.add, port |-> vmess_port(v)], v.id, None, v.scy, v.params)
      BY <1>3, <2>1 DEF parse_vmess, PlainJson, v, text
    <2>6. QED
      BY <2>3, <2>4, <2>5
  <1>4. QED
    BY <1>2, <1>3

LEMMA SliceOfSlice ==
    ASSUME NEW T, NEW s \in Seq(T), NEW j \in 0..Len(s), NEW m \in 1..j + 1, NEW n \in 0..j
    PROVE  SubSeq(SubSeq(s, 1, j), m, n) = SubSeq(s, m, n)
  <1> DEFINE t == SubSeq(s, 1, j)
  <1>1. Len(s) \in Nat /\ j \in Nat /\ j <= Len(s)
    OBVIOUS
  <1>2. t \in Seq(T) /\ Len(t) = j /\ \A i \in 1..j : t[i] = s[i]
    <2>1. 1 \in 1..Len(s) + 1
      BY <1>1
    <2>2. QED
      BY <1>1, <2>1, SlicesOf
  <1> HIDE DEF t
  <1>3. m \in 1..Len(t) + 1 /\ n \in 0..Len(t) /\ m \in 1..Len(s) + 1 /\ n \in 0..Len(s)
    BY <1>1, <1>2
  <1>4. /\ SubSeq(t, m, n) \in Seq(T) /\ SubSeq(s, m, n) \in Seq(T)
        /\ Len(SubSeq(t, m, n)) = Len(SubSeq(s, m, n))
        /\ Len(SubSeq(t, m, n)) = IF m <= n THEN n - m + 1 ELSE 0
        /\ \A i \in 1..(n - m + 1) : SubSeq(t, m, n)[i] = t[m + i - 1] /\ SubSeq(s, m, n)[i] = s[m + i - 1]
    BY <1>2, <1>3, SlicesOf
  <1>5. ASSUME NEW i \in 1..Len(SubSeq(t, m, n))
        PROVE  SubSeq(t, m, n)[i] = SubSeq(s, m, n)[i]
    <2>1. i \in 1..(n - m + 1)
      BY <1>4
    <2>2. m + i - 1 \in 1..j
      BY <1>1, <2>1
    <2>3. QED
      BY <1>2, <1>4, <2>1, <2>2
  <1>6. SubSeq(t, m, n) = SubSeq(s, m, n)
    BY <1>4, <1>5, SeqEqual
  <1>7. QED
    BY <1>6 DEF t

\* Of a text with one "@" at most, and a ":" before it, both take the same parts.
LEMMA SameCut ==
    ASSUME NEW all \in Text, AtMostOne(all, "@"), Has(all, "@"), Has(Head1(all, "@"), ":")
    PROVE  /\ Final(all, "@") = First(all, "@") /\ Has(all, ":")
           /\ Head1(all, ":") = Head1(Head1(all, "@"), ":")
           /\ SubSeq(all, First(all, ":") + 1, Final(all, "@") - 1) = Rest1(Head1(all, "@"), ":")
  <1> DEFINE at == First(all, "@")
             cred == Head1(all, "@")
             c == First(cred, ":")
             f == First(all, ":")
  <1>1. all \in Seq(Tokens) /\ Len(all) \in Nat /\ DOMAIN all = 1..Len(all)
    BY LenProperties DEF Text
  <1>2. at \in 1..Len(all) /\ all[at] = "@"
    BY <1>1, FirstIs
  <1>3. Final(all, "@") \in 1..Len(all) /\ all[Final(all, "@")] = "@"
    BY <1>1, FinalIs
  <1>4. Final(all, "@") = at
    BY <1>1, <1>2, <1>3 DEF AtMostOne
  <1> HIDE DEF at
  <1>5. cred = SubSeq(all, 1, at - 1)
    BY DEF Head1, Before, at
  <1>6. cred \in Seq(Tokens) /\ Len(cred) = at - 1 /\ \A i \in 1..(at - 1) : cred[i] = all[i]
    <2>1. 1 \in 1..Len(all) + 1 /\ at - 1 \in 0..Len(all) /\ at - 1 - 1 + 1 = at - 1 /\ (1 <= at - 1 \/ at - 1 = 0)
      BY <1>1, <1>2
    <2>2. /\ SubSeq(all, 1, at - 1) \in Seq(Tokens)
          /\ Len(SubSeq(all, 1, at - 1)) = IF 1 <= at - 1 THEN at - 1 - 1 + 1 ELSE 0
          /\ \A i \in 1..(at - 1 - 1 + 1) : SubSeq(all, 1, at - 1)[i] = all[1 + i - 1]
      BY <1>1, <2>1, SlicesOf
    <2>3. \A i \in 1..(at - 1) : 1 + i - 1 = i
      BY <1>2
    <2>4. QED
      BY <1>5, <2>1, <2>2, <2>3
  <1> HIDE DEF cred
  <1>7. Has(cred, ":")
    BY DEF cred
  <1>8. c \in 1..Len(cred) /\ cred[c] = ":" /\ \A j \in 1..(c - 1) : cred[j] # ":"
    BY <1>6, <1>7, FirstIs
  <1> HIDE DEF c
  <1>9. c \in 1..(at - 1) /\ c \in 1..Len(all) /\ all[c] = ":"
    BY <1>1, <1>2, <1>6, <1>8
  <1>10. Has(all, ":")
    BY <1>1, <1>9 DEF Has
  <1>11. f \in 1..Len(all) /\ all[f] = ":" /\ \A j \in 1..(f - 1) : all[j] # ":"
    BY <1>1, <1>10, FirstIs
  <1> HIDE DEF f
  <1>12. f = c
    <2>1. ~(c < f)
      <3>1. c < f => c \in 1..(f - 1)
        BY <1>9, <1>11
      <3>2. QED
        BY <1>9, <1>11, <3>1
    <2>2. ~(f < c)
      <3>1. f < c => f \in 1..(c - 1) /\ f \in 1..(at - 1)
        BY <1>2, <1>9, <1>11
      <3>2. QED
        BY <1>6, <1>8, <1>11, <3>1
    <2>3. f \in Nat /\ c \in Nat
      BY <1>1, <1>9, <1>11
    <2>4. QED
      BY <2>1, <2>2, <2>3
  <1>13. SubSeq(cred, 1, c - 1) = SubSeq(all, 1, c - 1) /\ SubSeq(cred, c + 1, at - 1) = SubSeq(all, c + 1, at - 1)
    <2>1. /\ at - 1 \in 0..Len(all) /\ 1 \in 1..(at - 1) + 1 /\ c - 1 \in 0..(at - 1)
          /\ c + 1 \in 1..(at - 1) + 1 /\ at - 1 \in 0..(at - 1)
      BY <1>1, <1>2, <1>9
    <2>2. QED
      BY <1>1, <1>5, <2>1, SliceOfSlice
  <1>14. Head1(all, ":") = SubSeq(all, 1, c - 1) /\ Head1(cred, ":") = SubSeq(cred, 1, c - 1)
    BY <1>7, <1>10, <1>12 DEF Head1, Before, f, c
  <1>15. Rest1(cred, ":") = SubSeq(cred, c + 1, at - 1)
    BY <1>6, <1>7 DEF Rest1, After, c
  <1>16. SubSeq(all, f + 1, Final(all, "@") - 1) = SubSeq(all, c + 1, at - 1)
    BY <1>4, <1>12
  <1>17. QED
    BY <1>4, <1>10, <1>13, <1>14, <1>15, <1>16 DEF at, cred, f

LEMMA SameSs ==
    ASSUME NEW rest \in Text, PlainSs(rest), \A i \in DOMAIN rest : rest[i] \notin DOMAIN Sloppy
    PROVE  parseSs(rest) = parse_ss(rest)
  <1> DEFINE main == Head1(rest, "#")
             all == b64_decode_forgiving(main)
             user == Head1(main, "@")
             cred == b64_decode_forgiving(user)
             ssHost == Rest1(main, "@")
  <1>1. main \in Text /\ Within(main, rest)
    BY HeadWithin DEF Text
  <1> HIDE DEF main
  <1>2. user \in Text /\ Within(user, rest) /\ ssHost \in Text
    BY <1>1, HeadWithin, RestWithin, WithinOfWithin DEF Text
  <1>3. b64DecodeForgiving(main) = all
    BY <1>1, NothingSloppy DEF Text
  <1>4. b64DecodeForgiving(user) = cred
    BY <1>2, NothingSloppy DEF Text
  <1> HIDE DEF user, cred, all, ssHost
  <1>5. CASE Has(main, "@")
    <2>1. parseHostPort(ssHost) = parse_host_port(ssHost)
      BY <1>2, <1>5, SameHostPort DEF PlainSs, main, ssHost
    <2>2. parseSs(rest) =
            IF cred = None \/ parse_host_port(ssHost) = None \/ ~Has(cred, ":") THEN Malformed
            ELSE Shadowsocks(parse_host_port(ssHost), Head1(cred, ":"), Rest1(cred, ":"))
      BY <1>4, <1>5, <2>1 DEF parseSs, main, user, ssHost
    <2>3. parse_ss(rest) =
            IF cred = None \/ parse_host_port(ssHost) = None \/ ~Has(cred, ":") THEN Malformed
            ELSE Shadowsocks(parse_host_port(ssHost), Head1(cred, ":"), Rest1(cred, ":"))
      BY <1>5 DEF parse_ss, main, user, ssHost, cred
    <2>4. QED
      BY <2>2, <2>3
  <1>6. CASE ~Has(main, "@") /\ all = None
    <2>1. parseSs(rest) = Malformed
      BY <1>3, <1>6 DEF parseSs, main
    <2>2. parse_ss(rest) = Malformed
      BY <1>6 DEF parse_ss, main, all
    <2>3. QED
      BY <2>1, <2>2
  <1>7. CASE ~Has(main, "@") /\ all # None
    <2>1. all \in Text
      BY <1>1, <1>7, SubscriptionAssumption DEF b64_decode_forgiving, all
    <2>2. /\ PlainHost(Rest1(all, "@")) /\ AtMostOne(all, "@")
          /\ Has(all, "@") => Has(Head1(all, "@"), ":")
      BY <1>7 DEF PlainSs, main, all
    <2>3. CASE ~Has(all, "@")
      <3>1. parseSs(rest) = Malformed
        BY <1>3, <1>7, <2>3 DEF parseSs, main
      <3>2. parse_host_port(<<>>) = None
        <4>1. PICK e : e = TrimEnd(<<>>, {"/"})
          OBVIOUS
        <4>2. \A i \in DOMAIN e : e[i] # ":"
          <5>1. <<>> \in Seq(Tokens) /\ Len(<<>>) = 0
            BY EmptySeq
          <5>2. PICK z : z = <<>>
            OBVIOUS
          <5>3. z \in Seq(Tokens) /\ Len(z) = 0
            BY <5>1, <5>2
          <5>4. PICK n \in 0..Len(z) : TrimEnd(z, {"/"}) = SubSeq(z, 1, n)
            <6>1. z \in Seq(Tokens)
              BY <5>3
            <6>2. QED
              BY <6>1, TrimEndIs, Zenon
          <5>5. SubSeq(z, 1, n) = <<>>
            BY <5>3, <5>4, SubSeqEmpty
          <5>6. e = <<>>
            BY <4>1, <5>2, <5>4, <5>5
          <5>7. QED
            BY <5>6
        <4>3. ~Has(e, ":")
          BY <4>2 DEF Has
        <4>4. QED
          BY <4>1, <4>3 DEF parse_host_port
      <3>3. parse_ss(rest) = Malformed
        BY <1>7, <2>3, <3>2 DEF parse_ss, main, all, Rest1
      <3>4. QED
        BY <3>1, <3>3
    <2>4. CASE Has(all, "@")
      <3> DEFINE host == Rest1(all, "@")
                 key == Head1(all, "@")
      <3>1. host \in Text /\ key \in Text
        BY <2>1, HeadWithin, RestWithin DEF Text
      <3>2. host = After(all, Final(all, "@"))
        BY <2>1, <2>2, <2>4, SameCut DEF Rest1
      <3>3. /\ Has(all, ":") /\ Head1(all, ":") = Head1(key, ":")
            /\ SubSeq(all, First(all, ":") + 1, Final(all, "@") - 1) = Rest1(key, ":")
        BY <2>1, <2>2, <2>4, SameCut
      <3>4. parseHostPort(host) = parse_host_port(host)
        BY <2>2, <3>1, SameHostPort
      <3>5. key # None /\ Has(key, ":")
        BY <2>2, <2>4, <3>1, SubscriptionAssumption
      <3> HIDE DEF host, key
      <3>6. parseSs(rest) =
              IF parse_host_port(host) = None THEN Malformed
              ELSE Shadowsocks(parse_host_port(host), Head1(key, ":"), Rest1(key, ":"))
        BY <1>3, <1>7, <2>4, <3>2, <3>3, <3>4 DEF parseSs, main
      <3>7. parse_ss(rest) =
              IF parse_host_port(host) = None THEN Malformed
              ELSE Shadowsocks(parse_host_port(host), Head1(key, ":"), Rest1(key, ":"))
        BY <1>7, <3>5 DEF parse_ss, main, all, host, key
      <3>8. QED
        BY <3>6, <3>7
    <2>5. QED
      BY <2>3, <2>4
  <1>8. QED
    BY <1>5, <1>6, <1>7

LEMMA SameLink == ASSUME NEW line \in Line, Plain(line) PROVE parseLink(line) = parse_link(line)
  <1>1. line.rest \in Text /\ \A i \in DOMAIN line.rest : line.rest[i] \notin DOMAIN Sloppy
    BY DEF Line, Plain
  <1> DEFINE core == CASE line.scheme \in {"vless", "trojan"} -> parse_url(line.scheme, line.rest)
                       [] line.scheme = "vmess" -> parse_vmess(line.rest)
                       [] line.scheme = "ss"    -> parse_ss(line.rest)
                       [] OTHER                 -> Unsupported
  <1>2. parse_link(line) = WithLink(core, line)
    BY DEF parse_link
  <1>3. Parsed(line) = core
    <2>1. CASE line.scheme = "vless"
      <3>1. PlainUrl(line.rest)
        BY <2>1 DEF Plain
      <3>2. parseVless(line.rest) = parse_url("vless", line.rest)
        BY <1>1, <3>1, SameUrl
      <3>3. QED
        BY <2>1, <3>2 DEF Parsed
    <2>2. CASE line.scheme = "trojan"
      <3>1. PlainUrl(line.rest)
        BY <2>2 DEF Plain
      <3>2. parseTrojan(line.rest) = parse_url("trojan", line.rest)
        BY <1>1, <3>1, SameUrl
      <3>3. QED
        BY <2>2, <3>2 DEF Parsed
    <2>3. CASE line.scheme = "vmess"
      <3>1. PlainVmess(line.rest)
        BY <2>3 DEF Plain
      <3>2. parseVmess(line.rest) = parse_vmess(line.rest)
        BY <1>1, <3>1, SameVmess
      <3>3. QED
        BY <2>3, <3>2 DEF Parsed
    <2>4. CASE line.scheme = "ss"
      <3>1. PlainSs(line.rest)
        BY <2>4 DEF Plain
      <3>2. parseSs(line.rest) = parse_ss(line.rest)
        BY <1>1, <3>1, SameSs
      <3>3. QED
        BY <2>4, <3>2 DEF Parsed
    <2>5. CASE line.scheme \notin Schemes
      BY <2>5 DEF Parsed, Schemes
    <2>6. QED
      BY <2>1, <2>2, <2>3, <2>4, <2>5 DEF Schemes
  <1>4. QED
    BY <1>2, <1>3 DEF parseLink
-----------------------------------------------------------------------------
(* The lines of a payload: the filter, by its recursion. *)

LineOrNot(g, lines, n) ==
    IF n = 0 THEN <<>> ELSE IF NotBlank(lines[n]) THEN Append(g[n - 1], lines[n]) ELSE g[n - 1]

LEMMA FilterIsDefined ==
    ASSUME NEW lines \in Seq(Line), NEW n \in 0..Len(lines)
    PROVE  \E g \in [0..n -> Seq(Line)] : \A m \in 0..n : g[m] = LineOrNot(g, lines, m)
  <1> DEFINE Defined(k) == \E g \in [0..k -> Seq(Line)] : \A m \in 0..k : g[m] = LineOrNot(g, lines, m)
             Wrong == {k \in 0..Len(lines) : ~Defined(k)}
  <1>1. Len(lines) \in Nat
    OBVIOUS
  <1>2. SUFFICES ASSUME Wrong # {} PROVE FALSE
    OBVIOUS
  <1>3. PICK k \in Wrong : \A m \in Wrong : k <= m
    <2>1. Wrong \in SUBSET Nat
      BY <1>1
    <2> HIDE DEF Wrong
    <2>2. QED
      BY <1>2, <2>1, LeastOf
  <1>4. k \in 0..Len(lines) /\ ~Defined(k)
    BY <1>3
  <1>5. k # 0
    <2>1. Defined(0)
      <3> DEFINE g == [m \in 0..0 |-> <<>>]
      <3>1. g \in [0..0 -> Seq(Line)]
        BY EmptySeq
      <3>2. \A m \in 0..0 : g[m] = LineOrNot(g, lines, m)
        BY DEF LineOrNot
      <3>3. QED
        BY <3>1, <3>2
    <2> HIDE DEF Defined
    <2>2. QED
      BY <1>4, <2>1
  <1>6. Defined(k - 1)
    <2>1. k - 1 \in 0..Len(lines) /\ ~(k <= k - 1)
      BY <1>1, <1>4, <1>5
    <2>2. k - 1 \notin Wrong
      <3> HIDE DEF Wrong
      <3>1. QED
        BY <1>3, <2>1
    <2> HIDE DEF Defined
    <2>3. QED
      BY <2>1, <2>2
  <1>7. PICK g \in [0..(k - 1) -> Seq(Line)] : \A m \in 0..(k - 1) : g[m] = LineOrNot(g, lines, m)
    BY <1>6
  <1> DEFINE last == LineOrNot(g, lines, k)
             h == [m \in 0..k |-> IF m = k THEN last ELSE g[m]]
  <1>8. last \in Seq(Line)
    <2>1. k - 1 \in 0..(k - 1) /\ k \in 1..Len(lines)
      BY <1>1, <1>4, <1>5
    <2>2. g[k - 1] \in Seq(Line) /\ lines[k] \in Line
      BY <2>1, ElementOfSeq
    <2>3. Append(g[k - 1], lines[k]) \in Seq(Line)
      BY <2>2, AppendProperties
    <2>4. QED
      BY <1>5, <2>2, <2>3 DEF LineOrNot
  <1> HIDE DEF last
  <1>9. h \in [0..k -> Seq(Line)]
    <2>1. \A m \in 0..k : m = k \/ m \in 0..(k - 1)
      BY <1>1, <1>4
    <2>2. QED
      BY <1>8, <2>1
  <1>10. ASSUME NEW m \in 0..k PROVE h[m] = LineOrNot(h, lines, m)
    <2>1. CASE m = k
      <3>1. h[m] = last /\ k - 1 \in 0..k /\ k - 1 # k
        BY <1>1, <1>4, <1>5, <2>1
      <3>2. h[k - 1] = g[k - 1]
        BY <3>1
      <3> HIDE DEF h
      <3>3. QED
        BY <2>1, <3>1, <3>2 DEF LineOrNot, last
    <2>2. CASE m # k
      <3>1. m \in 0..(k - 1) /\ (m # 0 => m - 1 \in 0..k /\ m - 1 # k)
        BY <1>1, <1>4, <2>2
      <3>2. h[m] = g[m] /\ (m # 0 => h[m - 1] = g[m - 1])
        BY <2>2, <3>1
      <3>3. g[m] = LineOrNot(g, lines, m)
        BY <1>7, <3>1
      <3> HIDE DEF h
      <3>4. QED
        BY <3>2, <3>3 DEF LineOrNot
    <2>3. QED
      BY <2>1, <2>2
  <1> HIDE DEF h
  <1>11. Defined(k)
    BY <1>9, <1>10
  <1> HIDE DEF Defined
  <1>12. QED
    BY <1>4, <1>11

\* What the filter leaves: lines; and of one line that is not blank, that line.
LEMMA LinksAre ==
    ASSUME NEW lines \in Seq(Line)
    PROVE  /\ Links(lines) \in Seq(Line)
           /\ Len(lines) = 1 /\ NotBlank(lines[1]) => Links(lines) = <<lines[1]>>
  <1> DEFINE Is(g) == g = [n \in 0..Len(lines) |->
                              IF n = 0 THEN <<>>
                              ELSE IF NotBlank(lines[n]) THEN Append(g[n - 1], lines[n]) ELSE g[n - 1]]
             upTo == CHOOSE g : Is(g)
  <1>1. Len(lines) \in Nat
    OBVIOUS
  <1>2. \E g : Is(g)
    <2>1. Len(lines) \in 0..Len(lines)
      BY <1>1
    <2>2. PICK g \in [0..Len(lines) -> Seq(Line)] : \A m \in 0..Len(lines) : g[m] = LineOrNot(g, lines, m)
      BY <2>1, FilterIsDefined
    <2>3. Is(g)
      BY <2>2 DEF LineOrNot
    <2> HIDE DEF Is
    <2>4. QED
      BY <2>3
  <1>3. Is(upTo)
    <2> HIDE DEF Is
    <2>1. QED
      BY <1>2
  <1>4. Links(lines) = upTo[Len(lines)]
    BY DEF Links
  <1> HIDE DEF upTo
  <1>5. \A n \in 0..Len(lines) : upTo[n] = LineOrNot(upTo, lines, n)
    BY <1>3 DEF LineOrNot
  <1> HIDE DEF Is
  <1> DEFINE Wrong == {n \in 0..Len(lines) : upTo[n] \notin Seq(Line)}
  <1>6. Wrong = {}
    <2>1. SUFFICES ASSUME Wrong # {} PROVE FALSE
      OBVIOUS
    <2>2. PICK n \in Wrong : \A m \in Wrong : n <= m
      <3>1. Wrong \in SUBSET Nat
        BY <1>1
      <3> HIDE DEF Wrong
      <3>2. QED
        BY <2>1, <3>1, LeastOf
    <2>3. n \in 0..Len(lines) /\ upTo[n] \notin Seq(Line)
      BY <2>2
    <2>4. n # 0
      BY <1>5, <2>3, EmptySeq DEF LineOrNot
    <2>5. n - 1 \in 0..Len(lines) /\ ~(n <= n - 1) /\ n \in 1..Len(lines)
      BY <1>1, <2>3, <2>4
    <2>6. n - 1 \notin Wrong
      <3> HIDE DEF Wrong
      <3>1. QED
        BY <2>2, <2>5
    <2>7. upTo[n - 1] \in Seq(Line) /\ lines[n] \in Line
      BY <2>5, <2>6, ElementOfSeq
    <2>8. Append(upTo[n - 1], lines[n]) \in Seq(Line)
      BY <2>7, AppendProperties
    <2>9. upTo[n] \in Seq(Line)
      BY <1>5, <2>3, <2>4, <2>7, <2>8 DEF LineOrNot
    <2>10. QED
      BY <2>3, <2>9
  <1>7. Links(lines) \in Seq(Line)
    BY <1>1, <1>4, <1>6
  <1>8. ASSUME Len(lines) = 1, NotBlank(lines[1]) PROVE Links(lines) = <<lines[1]>>
    <2>1. 0 \in 0..Len(lines) /\ 1 \in 0..Len(lines) /\ 1 - 1 = 0
      BY <1>8
    <2>2. upTo[0] = <<>>
      BY <1>5, <2>1 DEF LineOrNot
    <2>3. upTo[1] = Append(upTo[0], lines[1])
      BY <1>5, <1>8, <2>1 DEF LineOrNot
    <2>4. upTo[1] = <<lines[1]>>
      BY <2>2, <2>3
    <2>5. QED
      BY <1>4, <1>8, <2>4
  <1>9. QED
    BY <1>7, <1>8
-----------------------------------------------------------------------------
(* The panel: its list is what was imported, its profile what a link says. *)

\* The links of a blob are lines.
LEMMA BlobLines ==
    ASSUME NEW lines \in Seq(Line), IsBlob(Links(lines))
    PROVE  Links(Blob[Links(lines)[1].rest[1]]) \in Seq(Line)
  <1>1. Blob[Links(lines)[1].rest[1]] \in Seq(Line)
    BY SubscriptionAssumption DEF IsBlob
  <1>2. QED
    BY <1>1, LinksAre

\* A list or a blob is parsed link by link.
LEMMA LinkByLink ==
    ASSUME NEW lines \in Seq(Line)
    PROVE  \/ /\ parseSubscription(lines) = parse_subscription(lines)
              /\ \E e \in {EmptyInput, Malformed} : parseSubscription(lines) = <<e>>
           \/ /\ Lines(lines) \in Seq(Line)
              /\ parseSubscription(lines) = [i \in DOMAIN Lines(lines) |-> parseLink(Lines(lines)[i])]
              /\ parse_subscription(lines) = [i \in DOMAIN Lines(lines) |-> parse_link(Lines(lines)[i])]
  <1> DEFINE links == Links(lines)
             inner == Links(Blob[links[1].rest[1]])
  <1>1. links \in Seq(Line)
    BY LinksAre
  <1>2. CASE links = <<>>
    <2>1. parseSubscription(lines) = <<EmptyInput>> /\ parse_subscription(lines) = <<EmptyInput>>
      BY <1>2 DEF parseSubscription, parse_subscription
    <2>2. QED
      BY <2>1
  <1>3. CASE links # <<>> /\ IsList(lines)
    <2>1. Lines(lines) = links
      BY <1>3 DEF Lines
    <2>2. /\ parseSubscription(lines) = [i \in DOMAIN links |-> parseLink(links[i])]
          /\ parse_subscription(lines) = [i \in DOMAIN links |-> parse_link(links[i])]
      BY <1>3 DEF parseSubscription, parse_subscription
    <2> HIDE DEF links
    <2>3. QED
      BY <1>1, <2>1, <2>2
  <1>4. CASE links # <<>> /\ ~IsList(lines) /\ ~IsBlob(links)
    <2>1. parseSubscription(lines) = <<Malformed>> /\ parse_subscription(lines) = <<Malformed>>
      BY <1>4 DEF parseSubscription, parse_subscription
    <2>2. QED
      BY <2>1
  <1>5. CASE links # <<>> /\ ~IsList(lines) /\ IsBlob(links)
    <2>1. Lines(lines) = inner
      BY <1>5 DEF Lines
    <2>2. /\ parseSubscription(lines) = [i \in DOMAIN inner |-> parseLink(inner[i])]
          /\ parse_subscription(lines) = [i \in DOMAIN inner |-> parse_link(inner[i])]
      BY <1>5 DEF parseSubscription, parse_subscription
    <2>3. inner \in Seq(Line)
      BY <1>5, BlobLines
    <2> HIDE DEF inner
    <2>4. QED
      BY <2>1, <2>2, <2>3
  <1>6. QED
    BY <1>2, <1>3, <1>4, <1>5

\* A result that is a profile is what its link says, read alone.
LEMMA ProfileOfLink ==
    ASSUME NEW line \in Line, parseLink(line).ok
    PROVE  parseLink(line).raw = line /\ parseSubscription(<<line>>) = <<parseLink(line)>>
  <1> DEFINE p == Parsed(line)
             alone == <<line>>
  <1>1. p.ok /\ parseLink(line) = [f \in DOMAIN p \cup {"raw"} |-> IF f = "raw" THEN line ELSE p[f]]
    <2> HIDE DEF p
    <2>1. parseLink(line) = WithLink(p, line)
      BY DEF parseLink, p
    <2>2. p.ok
      <3>1. ~p.ok => parseLink(line) = p
        BY <2>1 DEF WithLink
      <3>2. QED
        BY <3>1
    <2>3. QED
      BY <2>1, <2>2 DEF WithLink
  <1>2. parseLink(line).raw = line
    <2> HIDE DEF p
    <2>1. QED
      BY <1>1
  <1>3. line.scheme \in Schemes
    <2>1. line.scheme \notin Schemes => p = Unsupported
      BY DEF Parsed, Schemes
    <2>2. Unsupported.ok = FALSE
      BY DEF Unsupported
    <2> HIDE DEF p
    <2>3. QED
      BY <1>1, <2>1, <2>2
  <1>4. line.scheme # NoScheme
    BY <1>3, SubscriptionAssumption
  <1>5. alone \in Seq(Line) /\ Len(alone) = 1 /\ alone[1] = line /\ DOMAIN alone = {1}
    OBVIOUS
  <1> HIDE DEF alone
  <1>6. Links(alone) = <<line>>
    BY <1>4, <1>5, LinksAre DEF NotBlank
  <1>7. IsList(alone)
    BY <1>4, <1>5 DEF IsList
  <1>8. PICK one : one = <<line>>
    OBVIOUS
  <1>9. Len(one) = 1 /\ one # <<>> /\ one[1] = line /\ DOMAIN one = {1}
    BY <1>8
  <1>10. parseSubscription(alone) = [i \in DOMAIN one |-> parseLink(one[i])]
    BY <1>6, <1>7, <1>8, <1>9 DEF parseSubscription
  <1>11. [i \in DOMAIN one |-> parseLink(one[i])] = <<parseLink(line)>>
    <2>1. PICK r : r = parseLink(line)
      OBVIOUS
    <2>2. [i \in DOMAIN one |-> parseLink(one[i])] = [i \in {1} |-> r]
      BY <1>9, <2>1
    <2>3. [i \in {1} |-> r] = <<r>>
      OBVIOUS
    <2>4. QED
      BY <2>1, <2>2, <2>3
  <1>12. QED
    BY <1>2, <1>10, <1>11 DEF alone

Used(line) == [raw |-> line, protocol |-> parseLink(line).protocol,
               address |-> parseLink(line).address, port |-> parseLink(line).port]

\* The list is the payload's, and the profile is a link's, in memory and in storage.
PanelInv ==
    /\ imported = None => results = <<>>
    /\ results # <<>> => imported \in Payloads /\ results = parseSubscription(imported)
    /\ active = stored
    /\ active # None => \E line \in Line : parseLink(line).ok /\ active = Used(line)

\* What is listed as valid is what some line says.
LEMMA ListedIsParsed ==
    ASSUME PanelInv, NEW i \in DOMAIN results, results[i].ok
    PROVE  \E line \in Line : parseLink(line).ok /\ results[i] = parseLink(line)
  <1>1. results # <<>>
    OBVIOUS
  <1>2. imported \in Seq(Line) /\ results = parseSubscription(imported)
    BY <1>1, PayloadsAssumption DEF PanelInv
  <1>3. CASE \E e \in {EmptyInput, Malformed} : parseSubscription(imported) = <<e>>
    <2>1. PICK e \in {EmptyInput, Malformed} : results = <<e>>
      BY <1>2, <1>3
    <2>2. i = 1 /\ results[1] = e
      BY <2>1
    <2>3. e.ok = FALSE
      BY DEF EmptyInput, Malformed
    <2>4. QED
      BY <2>2, <2>3
  <1>4. CASE /\ Lines(imported) \in Seq(Line)
             /\ parseSubscription(imported) = [n \in DOMAIN Lines(imported) |-> parseLink(Lines(imported)[n])]
    <2>1. i \in DOMAIN Lines(imported) /\ results[i] = parseLink(Lines(imported)[i])
      BY <1>2, <1>4
    <2>2. Lines(imported)[i] \in Line
      BY <1>4, <2>1, LenProperties, ElementOfSeq
    <2>3. QED
      BY <2>1, <2>2
  <1>5. QED
    BY <1>2, <1>3, <1>4, LinkByLink

LEMMA ActivateKeepsPanel == ASSUME PanelInv, NEW i \in DOMAIN results, activate(i) PROVE PanelInv'
  <1>1. PICK line \in Line : parseLink(line).ok /\ results[i] = parseLink(line)
    BY ListedIsParsed DEF activate
  <1>2. results[i].raw = line /\ parseSubscription(<<line>>) = <<parseLink(line)>>
    BY <1>1, ProfileOfLink
  <1>3. active' = Used(line) /\ stored' = Used(line) /\ UNCHANGED <<imported, results>>
    <2>1. parseSubscription(<<results[i].raw>>)[1] = parseLink(line)
      BY <1>2
    <2>2. QED
      BY <1>2, <2>1 DEF activate, Used
  <1>4. QED
    BY <1>1, <1>3 DEF PanelInv

LEMMA PanelInductive == PanelInv /\ [PanelNext]_panelVars => PanelInv'
  <1> SUFFICES ASSUME PanelInv, [PanelNext]_panelVars PROVE PanelInv'
    OBVIOUS
  <1>1. ASSUME NEW payload \in Payloads, runImport(payload) PROVE PanelInv'
    <2>1. results = <<>> /\ imported' = payload /\ payload # None
      BY <1>1, PayloadsAssumption DEF runImport, PanelInv
    <2>2. results' \in {<<>>, parseSubscription(payload)} /\ UNCHANGED <<active, stored>>
      BY <1>1, <2>1 DEF runImport
    <2>3. QED
      BY <2>1, <2>2 DEF PanelInv
  <1>2. ASSUME NEW i \in DOMAIN results, activate(i) PROVE PanelInv'
    BY <1>2, ActivateKeepsPanel
  <1>3. CASE Mount
    BY <1>3 DEF Mount, PanelInv
  <1>4. CASE resetAll
    BY <1>4 DEF resetAll, PanelInv
  <1>5. CASE UNCHANGED panelVars
    BY <1>5 DEF panelVars, PanelInv
  <1>6. QED
    BY <1>1, <1>2, <1>3, <1>4, <1>5 DEF PanelNext

LEMMA PanelInvariant == PanelSpec => []PanelInv
  <1>1. PanelInit => PanelInv
    BY DEF PanelInit, PanelInv
  <1>2. QED
    BY <1>1, PanelInductive, PTL DEF PanelSpec

\* Whatever text is made of and whatever is pasted, a link on which the two languages'
\* string functions agree (Plain) has in the panel's list the profile, or the error, that
\* parse_link of the engine gives it, whatever the other lines are.
THEOREM PanelMirrorsCore == PanelSpec => []MirrorsCore
  <1>1. ASSUME PanelInv PROVE MirrorsCore
    <2>1. SUFFICES ASSUME results # <<>> PROVE MirrorsCore
      BY DEF MirrorsCore
    <2>2. imported \in Seq(Line) /\ results = parseSubscription(imported)
      BY <1>1, <2>1, PayloadsAssumption DEF PanelInv
    <2>3. CASE parseSubscription(imported) = parse_subscription(imported)
      BY <2>2, <2>3 DEF MirrorsCore
    <2>4. CASE /\ Lines(imported) \in Seq(Line)
               /\ parseSubscription(imported) = [n \in DOMAIN Lines(imported) |-> parseLink(Lines(imported)[n])]
               /\ parse_subscription(imported) = [n \in DOMAIN Lines(imported) |-> parse_link(Lines(imported)[n])]
      <3>1. PICK lines : lines = Lines(imported)
        OBVIOUS
      <3>2. lines \in Seq(Line) /\ DOMAIN lines = 1..Len(lines) /\ Len(lines) \in Nat
        BY <2>4, <3>1, LenProperties
      <3>3. /\ results = [n \in 1..Len(lines) |-> parseLink(lines[n])]
            /\ parse_subscription(imported) = [n \in 1..Len(lines) |-> parse_link(lines[n])]
        BY <2>2, <2>4, <3>1, <3>2
      <3>4. Len(results) = Len(parse_subscription(imported))
        BY <3>2, <3>3
      <3>5. ASSUME NEW i \in DOMAIN results, Plain(lines[i])
            PROVE  results[i] = parse_subscription(imported)[i]
        <4>1. i \in 1..Len(lines) /\ lines[i] \in Line
          BY <3>2, <3>3, ElementOfSeq
        <4>2. parseLink(lines[i]) = parse_link(lines[i])
          BY <3>5, <4>1, SameLink
        <4>3. QED
          BY <3>3, <4>1, <4>2
      <3>6. QED
        BY <3>1, <3>2, <3>3, <3>4, <3>5 DEF MirrorsCore
    <2>5. QED
      BY <2>2, <2>3, <2>4, LinkByLink
  <1>2. QED
    BY <1>1, PanelInvariant, PTL

\* Whatever is pasted, imported, used, reset and reloaded: a profile of the list is the one
\* its link gives when it is read alone, the active profile is the one its link gives, and
\* storage has the profile the panel shows.
THEOREM PanelLinkIsTheProfile == PanelSpec => []LinkIsTheProfile
  <1>1. ASSUME PanelInv PROVE LinkIsTheProfile
    <2>1. ASSUME NEW i \in DOMAIN results, results[i].ok
          PROVE  parseSubscription(<<results[i].raw>>) = <<results[i]>>
      BY <1>1, <2>1, ListedIsParsed, ProfileOfLink
    <2>2. ASSUME active # None
          PROVE  LET again == parseSubscription(<<active.raw>>)
                 IN  /\ Len(again) = 1 /\ again[1].ok
                     /\ again[1].protocol = active.protocol /\ again[1].address = active.address
                     /\ again[1].port = active.port
      <3>1. PICK line \in Line : parseLink(line).ok /\ active = Used(line)
        BY <1>1, <2>2 DEF PanelInv
      <3>2. parseSubscription(<<line>>) = <<parseLink(line)>>
        BY <3>1, ProfileOfLink
      <3>3. /\ active.raw = line /\ active.protocol = parseLink(line).protocol
            /\ active.address = parseLink(line).address /\ active.port = parseLink(line).port
        BY <3>1 DEF Used
      <3>4. PICK r : r = parseLink(line)
        OBVIOUS
      <3>5. QED
        BY <3>1, <3>2, <3>3, <3>4
    <2>3. active = stored
      BY <1>1 DEF PanelInv
    <2>4. QED
      BY <2>1, <2>2, <2>3 DEF LinkIsTheProfile
  <1>2. QED
    BY <1>1, PanelInvariant, PTL
=============================================================================

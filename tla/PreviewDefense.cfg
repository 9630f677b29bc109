CONSTANTS
    Model <- MCModel
    Noises <- MCNoises
    Sliders <- MCSliders
    Grain = 70
    MaxActs = 3
    Null = Null
SPECIFICATION Spec
INVARIANTS
    TypeOK
    PlanIsOfTheVerdict
    AppliedPlanIsFelt

    

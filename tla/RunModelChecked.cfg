CONSTANTS
    ContractCt = 1
    NumLit = 2
    AuxCt = 0
    RoleDefCt = 1
    MethodArgs = 1
    Concrete = FALSE
    Rule = "checked"
    RootCt = 1
    RoleVarCt = 1
    CtorArgs = 0
    Depth = 1
    Values = {0, 1}
    Zero = 0
    InvValues = {0}
    Type = "rolebased"
    Lockstep = TRUE
    CanInfer = TRUE
    UsesCrypto = FALSE
    MaxTime = 1
SPECIFICATION Spec
INVARIANTS
    TypeOK
    AddressesInBounds
    FootprintFits
    NeighbourhoodConforms
    LiteralsDistinct
PROPERTIES
    WitnessUntouched
    ClockAdvances
    DistinguishedStable

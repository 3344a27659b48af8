CONSTANTS
    ContractCt = 3
    NumLit = 0
    AuxCt = 0
    RoleDefCt = 1
    MethodArgs = 1
    Concrete = FALSE
    Rule = "none"
    RootCt = 1
    RoleVarCt = 2
    CtorArgs = 1
    Depth = 1
    Values = {0, 1}
    Zero = 0
    InvValues = {0}
    Type = "universal"
    Lockstep = TRUE
    CanInfer = TRUE
    UsesCrypto = FALSE
    MaxTime = 0
SPECIFICATION Spec
INVARIANTS
    FootprintFits

CONSTANTS
    Contracts = {1, 2}
    Receivers = {2}
    Programs = {{}, {"send"}, {"paid_ctor"}, {"send", "paid_ctor", "allow_fallbacks"}}
    MaxMods = 1
    MaxDepth = 4
    MaxValue = 2
    MaxIn = 4
    Modulus = 4
SPECIFICATION Spec
INVARIANTS
    EtherConserved
    NoEtherFromNothing

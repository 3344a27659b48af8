CONSTANTS
    Contracts = {1, 2}
    Receivers = {2}
    Programs = {{"send", "allow_fallbacks"}}
    MaxMods = 1
    MaxDepth = 4
    MaxValue = 2
    MaxIn = 3
    Modulus = 8
SPECIFICATION Spec
PROPERTIES
    FallbackPaidOnce

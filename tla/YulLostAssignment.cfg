CONSTANTS
    ByteBits = 1
    WordBytes = 5
    AddressBits = 3
    Reserved = {}
    MaxSteps = 60
    MaxSteps2 = 12
    Reach = 6
    StackReach = 16
    Sources <- LoopLeft
    Apply <- MCApply
    NewNames <- MCNewNames
    NamesOf <- MCNamesOf
    SizeOf <- MCSizeOf
    Accepted <- MCAccepted
    Meaning <- MCMeaning
    Generate <- MCGenerate
    Optimise <- MCOptimise
    Assemble <- MCAssemble
    Runs <- MCRuns
    Phrases <- MCPhrases
    MaxPiece = 0
    MaxProbe = 0
    OptimisedPiece <- MCOptimisedPiece
    Effect <- MCEffect
    RuleSound <- MCRuleSound
    ConstantExact <- MCConstantExact
SPECIFICATION Spec
CHECK_DEADLOCK FALSE
INVARIANT MeaningPreserved

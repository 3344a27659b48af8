CONSTANTS
  None = None
  Bits <- Sizes
  Width <- Sizes
  SmallBits <- SmallSizes
  ByteBits = 3
  WordBytes = 4
  AddressBits = 6
  Programs <- MCPrograms
  Transactions <- MCTransactions
  Compiled <- MCCompiled
  Results <- MCResults
  Executions <- MCExecutions
  Untainted <- MCUntainted
  Placed <- MCPlaced
  Instanced <- MCInstanced
  Primitives <- MCPrimitives
  Transacted <- MCTransacted
  MeantNames <- MCMeant
  BaseOrders <- MCOrders
  Storages <- MCStorages
SPECIFICATION Spec
INVARIANTS TranslationAgrees InstancesKnown TaintSound DeclarationsSuffice
           SmtSound MutabilityKept NothingUnassigned NamesMeanInnermost LinearizationExact
           ExpressionsExact LayoutDisjoint

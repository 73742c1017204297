SPECIFICATION MCSpec
CONSTANTS
  BasesOf <- MCBasesOf
  Unannotated <- NoneT
  None = None
  Functions <- MCFunctions
  Scripts <- MCScripts
  Classes <- MCClasses
  Mro <- MCMro
  Multimethods <- MCMultimethods
  Receivers <- MCReceivers
  CallArgs <- MCCallArgs
  MaxMethods = 3
  Chains <- MCChains
  Specs <- MCSpecs
  Programs <- MCPrograms
  Sources <- MCSources
  MaxItems = 15
  Updatings <- MCUpdatings
  Heaps <- MCHeaps
  Calls <- MCCalls
  MaxFactors = 7
  Structures <- MCStructures
  Forms <- MCForms
  MonadChains <- MCMonadChains
  States <- MCStates
  Code <- MCCode
  Sendables = {None, SomeValue}
  SomeValue = SomeValue
  Exceptions = {Error}
  Error = Error
  NoValue = None
  MaxIterators = 2
  MaxObjects = 4
INVARIANTS
  CurriedCallsAgree
  TriedInMroOrder
  ChainsAgree
  StreamsAgree
  StructuresAgree
  SequencesAgree
CHECK_DEADLOCK FALSE

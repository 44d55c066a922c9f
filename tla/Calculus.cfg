SPECIFICATION Spec
CONSTANTS
  Fuel = 2
  W8 = 2
  W32 = 8
  W64 = 32
  Values <- MCValues
  Contexts <- AllContexts
  Programs <- MCPrograms
  Substitutions <- MCSubstitutions
  Shifts <- MCShifts
  Universe <- MCUniverse
  Reduced <- MCReduced
  Called <- MCCalled
  Considered <- MCConsidered
  Size <- MCSize
  Enc <- MCEnc
  Dec <- MCDec
  Infer <- MCInfer
  Shift <- MCShift
  SubstAt <- MCSubstAt
  Step <- MCStep
  Constructors <- MCConstructors
  Occurrences <- MCOccurrences
  AllSigsVerify <- MCAllSigsVerify
  SignNodes <- MCSignNodes
  Keyrings <- MCKeyrings
  Anchors <- MCAnchors
  Presenters <- MCPresenters
INVARIANTS SubstitutionKeepsBindings CoreProgress FragmentKeepsType WeakeningKeepsType
  DecodeInvertsEncode AcceptedIffTypedAndSigned ReductionKeepsSignatures
PROPERTY NoNewFreeVariables

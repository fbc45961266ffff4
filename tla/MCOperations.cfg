\* The parts stop when their bounds are used up.
SPECIFICATION Spec
CONSTANTS
  None = None
INVARIANTS
  TypeInvariant
  EvidenceIsOfOneBlock
  ManifestIsOfTheAsset
  ApprovalsAreSigned
  EvidenceIsOfTheBuild
  ReadsAreOfTheChain
  ClientsComputeTheSame
  ModelsKeepTheirBooks
PROPERTIES
  OutsidersChangeNothing
  ModelsMoveByTheScript
CHECK_DEADLOCK FALSE

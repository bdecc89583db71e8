CONSTANTS
  NumSamples = 4
  MaxRetries = 1
  Displacements <- MCDisplacements
  Reports <- MCReports
  Mappings <- MCMappings
  Inside <- MCInside
  Letter <- MCLetter
SPECIFICATION FairSpec
INVARIANTS TypeOK ReleasedAtEnd ApproachAccounted ReadingsAreSound
PROPERTIES MovesInTurn ImplementsLifecycle CallsReturn

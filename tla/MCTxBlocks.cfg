SPECIFICATION FairSpec
CONSTANTS
  SectionSets <- sectionSets
  MaxBlocks = 3
INVARIANTS SectionsInOrder ControlFollowsStage
PROPERTIES BlocksEnd ImplementsNest

\* As Workflow.cfg, with no program killed.
CONSTANTS
  NameRank <- Ranks
  Sources <- SourceNames
  FragmentsOf <- TheFragments
  SimilarIn <- TheSimilar
  PartitionSize = 2
  MaxKills = 0
SPECIFICATION SpecWorkflow
INVARIANT SubtractRemoves

\* Two runs over two sources, of which one program is killed at any place, and
\* the programs that compare their reports.  cwdetect goes through the file as
\* a whole or in partitions of two blocks.
CONSTANTS
  NameRank <- Ranks
  Sources <- SourceNames
  FragmentsOf <- TheFragments
  SimilarIn <- TheSimilar
  PartitionSize = 2
  MaxKills = 1
SPECIFICATION SpecWorkflow
INVARIANTS
  DetectsWholeBlocks
  ReportTrue
  MergeRight
  DifferenceRight

CONSTANTS
  a = a
  b = b
  c = c
  MaxFrequency = 2
  MaxTokens = 12
  Percentages = {25, 50, 70, 100}
  Terms <- ThreeTerms
  Rank <- ThreeRanks
  Thresholds <- Ceilings
  Inputs <- Everything
SPECIFICATION Spec
INVARIANTS
  TypeOK
  NotABug
  OnlyClones
  AllClones

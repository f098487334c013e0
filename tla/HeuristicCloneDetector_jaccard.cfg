CONSTANTS
  a = a
  b = b
  c = c
  MaxFrequency = 2
  MaxTokens = 12
  Percentages = {50}
  Terms <- ThreeTerms
  Rank <- ThreeRanks
  Thresholds <- Ceilings
  Inputs <- Everything
SPECIFICATION Spec
INVARIANTS
  JaccardSimilar

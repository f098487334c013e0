\* A list of paths, one of which cannot be opened.
CONSTANTS
  Listings <- Good
  FromRoot = FALSE
  Languages = {"java"}
  MinLines = 3
  MaxLines = 20
  MinTokens = 5
  MaxTokens = 100
  Workers = {w1, w2}
  FileCapacity = 2
  BlockCapacity = 2
  GroupSize = 2
  Faults = {"read"}
SPECIFICATION Spec
INVARIANTS
  ListGoesOn

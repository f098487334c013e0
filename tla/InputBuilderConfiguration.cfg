\* All fragments of up to three terms, with files that are refused, files
\* that crash cwbuild and files with up to three term processors.  cwbuild
\* ends.
CONSTANTS
  CommandLines <- SomeCommandLines
  Files <- SomeFiles
  Fragments <- SomeFragments
  Accepts <- OnlyForJava
  Unlimited = 100
SPECIFICATION Spec
CHECK_DEADLOCK FALSE
INVARIANTS
  ReadyToRun
  DiesOnlyUnguarded
  NoBlockFromNothing
  SameIffRenamed

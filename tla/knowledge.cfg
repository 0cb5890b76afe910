SPECIFICATION FairSpec
CONSTANTS
  Sources = {s1, s2}
  Pages = {p, q}
  Index = Index
  Edits = {e1}
  NoSource = NoSource
  NoContext = NoContext
  NoFile = NoFile
INVARIANTS
  EditsSurvive
  NothingForgotten
  NeverHalfPushed
PROPERTIES
  OutboxDrains

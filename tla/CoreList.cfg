SPECIFICATION Spec
CONSTANTS
  a = a
  b = b
  c = c
  Names <- MCNames
  Partials <- MCPartials
  Size <- MCSize
  Slots = 3
  MaxChoices <- MCMaxChoices
  MaxEdits = 1
  MaxFaults = 1
  Free = Free
  None = None
INVARIANTS DetailIsComplete ListIsComplete NumberMeansRow
PROPERTIES MoreAdvances

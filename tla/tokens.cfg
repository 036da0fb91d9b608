SPECIFICATION Spec
CONSTANTS
  Sources <- MCSources
  Keywords <- MCKeywords
  MaxInt = 100
  Excluded <- MCExcluded
INVARIANTS TokensMeant PositionsExact
PROPERTIES Terminates

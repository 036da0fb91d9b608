SPECIFICATION Spec
CONSTANTS
  Names <- AllNames
  Files <- AllFiles
  FileAt <- LookUp
  Contents <- PlainContents
  Primitives <- Int32
  MainPaths <- Main
  PathMax = 6
  should_report_warns = TRUE
INVARIANTS TypeOK ReadOnce OneError OutcomeMeant
PROPERTIES ErrorStops OpensClosure Terminates

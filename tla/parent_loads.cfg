SPECIFICATION Spec
CONSTANTS
  Names <- AllNames
  Files <- AllFiles
  FileAt <- LookUp
  Contents <- ParentContents
  Primitives <- Int32
  MainPaths <- DotMain
  PathMax = 6
  should_report_warns = FALSE
INVARIANT CrashOnlyOnCycle
PROPERTY Terminates

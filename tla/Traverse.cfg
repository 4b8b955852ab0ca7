CONSTANTS
  Root = "root"
  Dirs <- MCDirs
  Files <- MCFiles
  Entries <- MCEntries
  Include <- MCInclude
  Exclude <- MCExclude
  None = None
  MaxFailures = 2
SPECIFICATION Spec
INVARIANTS
  PathsInv
  HandledOnce
  OnlyAskedHandled
PROPERTIES
  Terminates

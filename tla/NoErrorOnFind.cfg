CONSTANTS
  Root = "root"
  Dirs <- MCDirs
  Files <- MCFiles
  Entries <- MCEntries
  Include <- MCInclude
  Exclude <- MCExclude
  None = None
  MaxFailures = 1
SPECIFICATION Spec
INVARIANT ErrorsAreTold

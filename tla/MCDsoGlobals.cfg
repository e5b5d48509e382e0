CONSTANTS
  Instances <- MCInstances
  Paths <- MCPathsOne
  BuildIds <- MCBuildIds
  RecordFiles <- MCRecordFilesFew
  KallsymsFiles <- MCKallsymsFiles
  Unreadable <- MCUnreadable
  SymfsDirs <- MCSymfsDirs
  MaxFileDsos <- MCMaxFileDsos
  MaxDumpIds <- MCMaxDumpIds
SPECIFICATION Spec
INVARIANTS TypeOK ConfigKeptWhileLive DumpIdsUniqueAmongLive

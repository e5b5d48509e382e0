CONSTANTS
  DsoPaths <- MCDsoPaths
  Vdso <- MCVdso
  DirNames <- MCDirNames
  Dirs <- MCDirs
  RelPaths <- MCRelPaths
  BuildIds <- MCBuildIds
  VdsoFiles <- MCVdsoFiles
  ListKeys <- MCListKeys
  DebugFileIds <- MCDebugFileIds
  MaxListLines <- MCMaxListLines
  MaxCwdLines <- MCMaxCwdLines
SPECIFICATION Spec
INVARIANT TypeOK
INVARIANT IndexFollowsSymfs
INVARIANT DebugFileMatchesBuildId

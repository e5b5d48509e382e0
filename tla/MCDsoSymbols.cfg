CONSTANTS
  AddrBits <- MCAddrBits
  DsoTypes <- MCDsoTypes
  ElfCandidates <- MCElfCandidates
  MaxElfSymbols <- MCMaxElfSymbols
  DexOffsets <- MCDexOffsets
  DexContents <- MCDexContents
  KallsymsCandidates <- MCKallsyms
  ElfMinVaddrs <- MCElfMinVaddrsTwo
  MaxDexOffsets <- MCMaxDexOffsets
  UnknownAddrs <- MCUnknownAddrs
  UnknownNames <- MCUnknownNames
  KernelConfigs <- MCKernelBranches
  RecordedSymbols <- MCRecordedSymbols
SPECIFICATION Spec
INVARIANT TypeOK
INVARIANT FindSymbolIffCover
INVARIANT MergeIsSetUnion

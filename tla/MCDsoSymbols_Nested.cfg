CONSTANTS
  AddrBits <- MCAddrBits
  DsoTypes <- MCElfOnly
  ElfCandidates <- MCElfNested
  MaxElfSymbols <- MCMaxElfSymbols
  DexOffsets <- MCDexOffsets
  DexContents <- MCDexContents
  KallsymsCandidates <- MCKallsyms
  ElfMinVaddrs <- MCElfMinVaddrs
  MaxDexOffsets <- MCMaxDexOffsets
  UnknownAddrs <- MCUnknownAddrs
  UnknownNames <- MCUnknownNames
  KernelConfigs <- MCKernelConfigs
  RecordedSymbols <- MCRecordedSymbols
SPECIFICATION Spec
INVARIANT FindSymbolIffCover

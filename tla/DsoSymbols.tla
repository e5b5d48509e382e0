------------------------------ MODULE DsoSymbols ------------------------------
(***************************************************************************)
(* One Dso object of src/simpleperf/dso.cpp and its symbol table: the lazy *)
(* Load on first FindSymbol, the per-variant LoadSymbols followed by       *)
(* SortAndFixSymbols, the set_union merge with symbols given earlier by    *)
(* SetSymbols, the upper_bound lookup, unknown symbols, and the ElfDso     *)
(* that turns into a DEX Dso when AddDexFileOffset is called, with its     *)
(* cached min_vaddr_.                                                      *)
(*                                                                         *)
(* Addresses are uint64_t scaled down to AddrBits bits.  What the files on *)
(* disk hold (ELF symbols, DEX methods per offset, kallsyms lines, the min *)
(* executable vaddr) is chosen once in Init and never changes.             *)
(***************************************************************************)
EXTENDS Naturals, Sequences, SequencesExt, FiniteSets

CONSTANTS
  AddrBits,         \* width of uint64_t, scaled down
  DsoTypes,         \* types CreateDso is called with
  ElfCandidates,    \* ElfFileSymbols the debug file may hold
  MaxElfSymbols,    \* most symbols in one ELF file
  DexOffsets,       \* dex_file_offsets the unwinder may report
  DexContents,      \* symbol sets a DEX file at an offset may hold
  KallsymsCandidates, \* lines the kallsyms text may hold
  ElfMinVaddrs,     \* results ReadMinExecutableVirtualAddress may give
  MaxDexOffsets,    \* most AddDexFileOffset calls
  UnknownAddrs,     \* vaddrs AddUnknownSymbol is called with
  UnknownNames,     \* names AddUnknownSymbol is called with
  KernelConfigs,    \* what KernelDso::LoadSymbols finds configured
  RecordedSymbols   \* symbols a record file may store for the Dso

Addrs   == 0..(2^AddrBits - 1)
AddrMod == 2^AddrBits
U64Max  == 2^AddrBits - 1   \* std::numeric_limits<uint64_t>::max()

ELF == "DSO_ELF_FILE"
DEX == "DSO_DEX_FILE"
KERNEL == "DSO_KERNEL"
KERNEL_MODULE == "DSO_KERNEL_MODULE"
UNKNOWN == "DSO_UNKNOWN_FILE"
\* What ReadSymbolsFromDexFile finds at one offset: the methods, or a
\* header or loader failure.
DexFile(syms) == [ok |-> TRUE, syms |-> syms]
BadDex == [ok |-> FALSE, syms |-> {}]
\* What ReadMinExecutableVirtualAddressFromElfFile returns.
MinVaddrRead(v) == [ok |-> TRUE, vaddr |-> v]
ReadFails == [ok |-> FALSE, vaddr |-> 0]

(***************************************************************************)
(* The process-wide state KernelDso::LoadSymbols reads: vmlinux_ and       *)
(* kallsyms_ set or empty, read_kernel_symbols_from_proc_, the expected    *)
(* build id of the kernel (empty, or equal or not to GetKernelBuildId's),  *)
(* and whether /proc/kallsyms can be read.  The vmlinux file is disk.elf;  *)
(* the kallsyms_ text and /proc/kallsyms are both disk.kallsyms.           *)
(***************************************************************************)
KernelConfigSet ==
  [vmlinux : BOOLEAN, kallsyms : BOOLEAN, from_proc : BOOLEAN,
   build_id : {"empty", "match", "mismatch"}, proc_ok : BOOLEAN]
NoKernelConfig == [vmlinux |-> FALSE, kallsyms |-> FALSE, from_proc |-> FALSE,
                   build_id |-> "empty", proc_ok |-> FALSE]

Symbol(name, addr, len) == [name |-> name, addr |-> addr, len |-> len]
NoSymbol == [name |-> "none"]   \* nullptr

ASSUME /\ AddrBits \in Nat \ {0}
       /\ DsoTypes \subseteq {ELF, DEX, KERNEL, KERNEL_MODULE, UNKNOWN}
       /\ KernelConfigs \subseteq KernelConfigSet
       /\ \A s \in ElfCandidates : s.vaddr \in Addrs /\ s.len \in Addrs
       /\ \A c \in DexContents : \A s \in c.syms : s.addr \in Addrs
       /\ \A r, q \in RecordedSymbols : r # q => r.addr # q.addr

(* What CreateDso builds for each type: the C++ class of the object.      *)
ClassOf(t) == CASE t = ELF -> "ElfDso" [] t = DEX -> "DexFileDso"
                [] t = KERNEL -> "KernelDso" [] t = KERNEL_MODULE -> "KernelModuleDso"
                [] t = UNKNOWN -> "UnknownDso"

\* The files a Dso of type t reads; the others are left empty.
ElfFiles == {S \in SUBSET ElfCandidates : Cardinality(S) <= MaxElfSymbols}
NoDex == [o \in DexOffsets |-> BadDex]

\* A kernel Dso reads the vmlinux file, or else a kallsyms text.
KernelDisks ==
  UNION { [elf : IF c.vmlinux THEN ElfFiles ELSE {{}}, elf_min : {ReadFails},
           dex : {NoDex}, kernel : {c},
           kallsyms : IF c.vmlinux THEN {{}} ELSE SUBSET KallsymsCandidates] :
            c \in KernelConfigs }

DisksFor(t) ==
  IF t = KERNEL THEN KernelDisks
  ELSE [elf : IF t \in {ELF, KERNEL_MODULE} THEN ElfFiles ELSE {{}},
        elf_min : IF t = ELF THEN ElfMinVaddrs ELSE {ReadFails},
        dex : IF t \in {ELF, DEX} THEN [DexOffsets -> DexContents] ELSE {NoDex},
        kernel : {NoKernelConfig}, kallsyms : {{}}]

VARIABLES
  disk,              \* the files the Dso reads (fixed)
  cls,               \* the class CreateDso instantiated
  type,              \* type_
  has_dex_dso,       \* ElfDso::dex_file_dso_ != nullptr
  dex_file_offsets,  \* offsets of the DexFileDso (own or nested)
  is_loaded,         \* is_loaded_
  symbols,           \* symbols_, a sequence of Symbol
  unknown_symbols,   \* unknown_symbols_, as a set of Symbol
  min_vaddr,         \* ElfDso::min_vaddr_
  ret,               \* what the last call returned
  stored_symbols,    \* history: symbols_ when Load ran (what SetSymbols left)
  loaded_symbols     \* history: the table LoadSymbols returned to Load

vars == <<disk, cls, type, has_dex_dso, dex_file_offsets, is_loaded,
          symbols, unknown_symbols, min_vaddr, ret, stored_symbols, loaded_symbols>>

(***************************************************************************)
(* SortAndFixSymbols: std::sort by addr (not stable: symbols with equal    *)
(* addresses come out in any order), then each zero-length symbol gets the *)
(* distance to the symbol after it.                                        *)
(***************************************************************************)
SortedOrders(s) ==
  { [i \in 1..Len(s) |-> s[p[i]]] :
      p \in { q \in [1..Len(s) -> 1..Len(s)] :
                /\ IsInjective(q)
                /\ \A i \in 1..(Len(s) - 1) : s[q[i]].addr <= s[q[i + 1]].addr } }

FixLens(s) ==
  [i \in 1..Len(s) |->
     IF i < Len(s) /\ s[i].len = 0
       THEN [s[i] EXCEPT !.len = s[i + 1].addr - s[i].addr]
       ELSE s[i]]

SortAndFixSymbols(s) == { FixLens(t) : t \in SortedOrders(s) }

(***************************************************************************)
(* LoadSymbols of each variant, as the set of tables it may return.        *)
(***************************************************************************)
ElfAccepted ==   \* ElfDso: is_func || (is_label && is_in_text_section)
  SetToSeq({ Symbol(s.name, s.vaddr, s.len) :
               s \in { e \in disk.elf : e.is_func \/ (e.is_label /\ e.is_in_text_section) } })

\* ReadSymbolsFromDexFile: every offset must open, or nothing is returned.
DexSymbolsOf(offsets) ==
  IF \E i \in 1..Len(offsets) : disk.dex[offsets[i]] = BadDex THEN <<>>
  ELSE FoldLeft(LAMBDA acc, o : acc \o SetToSeq(disk.dex[o].syms), <<>>, offsets)

KallsymsAccepted ==   \* strchr("TtWw", type) && addr != 0, length 0
  SetToSeq({ Symbol(k.name, k.addr, 0) :
               k \in { l \in disk.kallsyms : l.type \in {"T", "t", "W", "w"} /\ l.addr # 0 } })

VmlinuxAccepted ==   \* KernelDso on vmlinux_: is_func only
  SetToSeq({ Symbol(s.name, s.vaddr, s.len) : s \in { e \in disk.elf : e.is_func } })

KernelModuleAccepted ==   \* KernelModuleDso: is_func || is_in_text_section
  SetToSeq({ Symbol(s.name, s.vaddr, s.len) :
               s \in { e \in disk.elf : e.is_func \/ e.is_in_text_section } })

(***************************************************************************)
(* KernelDso::LoadSymbols chooses its source: vmlinux_, else kallsyms_,    *)
(* else /proc/kallsyms when read_kernel_symbols_from_proc_ or a build id   *)
(* is expected, and then only if that build id is empty or matches the     *)
(* running kernel's and the file can be read.                              *)
(***************************************************************************)
KernelSymbolSource(k) ==
  IF k.vmlinux THEN VmlinuxAccepted
  ELSE IF k.kallsyms THEN KallsymsAccepted
  ELSE IF /\ k.from_proc \/ k.build_id # "empty"
          /\ k.build_id # "mismatch"
          /\ k.proc_ok
    THEN KallsymsAccepted
  ELSE <<>>

\* KernelDso: the last symbol reaches the end of the address space.
ExtendLast(t) ==
  IF t = <<>> THEN t
  ELSE [t EXCEPT ![Len(t)].len = U64Max - t[Len(t)].addr]

DexFileDsoLoadSymbols == SortAndFixSymbols(DexSymbolsOf(dex_file_offsets))

\* ElfDso::LoadSymbols: the nested DexFileDso once there is one.
ElfDsoLoadSymbols ==
  IF has_dex_dso THEN DexFileDsoLoadSymbols ELSE SortAndFixSymbols(ElfAccepted)

\* KernelDso::LoadSymbols, reading the kallsyms text.
KernelDsoLoadSymbols ==
  { ExtendLast(t) : t \in SortAndFixSymbols(KernelSymbolSource(disk.kernel)) }

KernelModuleDsoLoadSymbols == SortAndFixSymbols(KernelModuleAccepted)

\* The virtual call: the override of the class CreateDso built.
LoadSymbols ==
  CASE cls = "DexFileDso" -> DexFileDsoLoadSymbols
    [] cls = "ElfDso"     -> ElfDsoLoadSymbols
    [] cls = "KernelDso"  -> KernelDsoLoadSymbols
    [] cls = "KernelModuleDso" -> KernelModuleDsoLoadSymbols
    [] cls = "UnknownDso" -> {<<>>}

(***************************************************************************)
(* std::set_union with CompareValueByAddr: of symbols with equal addr, the *)
(* ones already in symbols_ win.                                           *)
(***************************************************************************)
\* Mutant: on equal addresses only the first range advances.
RECURSIVE SetUnionAdvanceOne(_, _)
SetUnionAdvanceOne(a, b) ==
  IF a = <<>> THEN b
  ELSE IF b = <<>> THEN a
  ELSE IF Head(b).addr < Head(a).addr THEN <<Head(b)>> \o SetUnionAdvanceOne(a, Tail(b))
  ELSE <<Head(a)>> \o SetUnionAdvanceOne(Tail(a), b)

RECURSIVE SetUnion(_, _)
SetUnion(a, b) ==
  IF a = <<>> THEN b
  ELSE IF b = <<>> THEN a
  ELSE IF Head(b).addr < Head(a).addr THEN <<Head(b)>> \o SetUnion(a, Tail(b))
  ELSE IF Head(a).addr < Head(b).addr THEN <<Head(a)>> \o SetUnion(Tail(a), b)
  ELSE <<Head(a)>> \o SetUnion(Tail(a), Tail(b))

\* Dso::Load with the table t LoadSymbols returned.
Load(t) == IF symbols = <<>> THEN t ELSE SetUnion(symbols, t)

(***************************************************************************)
(* The lookup of Dso::FindSymbol: upper_bound, step back, check the range  *)
(* with uint64_t addr + len; then unknown_symbols_.                        *)
(***************************************************************************)
\* Mutant: lower_bound instead of upper_bound (misses a symbol at vaddr).
LookupLowerBound(table, unknown, v) ==
  LET below == {i \in 1..Len(table) : table[i].addr < v}
      at == IF below = {} THEN 0 ELSE CHOOSE j \in below : \A k \in below : k <= j
  IN  IF at # 0 /\ (table[at].addr + table[at].len) % AddrMod > v THEN table[at]
      ELSE IF \E u \in unknown : u.addr = v THEN CHOOSE u \in unknown : u.addr = v
      ELSE NoSymbol

Lookup(table, unknown, v) ==
  LET le == {i \in 1..Len(table) : table[i].addr <= v}
      at == IF le = {} THEN 0 ELSE CHOOSE j \in le : \A k \in le : k <= j
  IN  IF at # 0 /\ (table[at].addr + table[at].len) % AddrMod > v THEN table[at]
      ELSE IF \E u \in unknown : u.addr = v THEN CHOOSE u \in unknown : u.addr = v
      ELSE NoSymbol

Init ==
  /\ type \in DsoTypes
  /\ disk \in DisksFor(type)
  /\ cls = ClassOf(type)
  /\ has_dex_dso = FALSE
  /\ dex_file_offsets = <<>>
  /\ is_loaded = FALSE
  /\ symbols = <<>>
  /\ unknown_symbols = {}
  /\ min_vaddr = U64Max
  /\ ret = [op |-> "none"]
  /\ stored_symbols = <<>>
  /\ loaded_symbols = <<>>

\* Dso::FindSymbol(vaddr_in_dso), loading on first use.
FindSymbol(v) ==
  \E t \in IF is_loaded THEN {loaded_symbols} ELSE LoadSymbols :
     LET table == IF is_loaded THEN symbols ELSE Load(t)
     IN  /\ is_loaded' = TRUE
         /\ symbols' = table
         /\ ret' = [op |-> "FindSymbol", vaddr |-> v,
                    symbol |-> Lookup(table, unknown_symbols, v)]
         /\ stored_symbols' = IF is_loaded THEN stored_symbols ELSE symbols
         /\ loaded_symbols' = t
         /\ UNCHANGED <<disk, cls, type, has_dex_dso, dex_file_offsets,
                    unknown_symbols, min_vaddr>>

\* The tables a record file's file feature may store for a Dso: sorted by
\* addr, one symbol per address, as a loaded table of the recording run.
RecordedTables ==
  { SetToSortSeq(S, LAMBDA a, b : a.addr < b.addr) : S \in SUBSET RecordedSymbols }

\* Dso::SetSymbols: symbols_ is replaced by the recorded table.  Its one
\* caller, the record file reader, calls it on a Dso it has just created
\* while loading the file feature, before any lookup.
SetSymbols ==
  /\ ~is_loaded
  /\ \E r \in RecordedTables : symbols' = r
  /\ ret' = [op |-> "SetSymbols"]
  /\ UNCHANGED <<stored_symbols, loaded_symbols, disk, cls, type, has_dex_dso, dex_file_offsets,
                 is_loaded, unknown_symbols, min_vaddr>>

\* Mutant: the unknown symbol built with length 0 instead of 1.
AddUnknownSymbolZeroLen(v, name) ==
  /\ unknown_symbols' =
       IF \E u \in unknown_symbols : u.addr = v THEN unknown_symbols
       ELSE unknown_symbols \cup {Symbol(name, v, 0)}
  /\ ret' = [op |-> "AddUnknownSymbol"]
  /\ UNCHANGED <<stored_symbols, loaded_symbols, disk, cls, type, has_dex_dso, dex_file_offsets,
                 is_loaded, symbols, min_vaddr>>

\* Dso::AddUnknownSymbol: map insert, which keeps an existing entry.
AddUnknownSymbol(v, name) ==
  /\ unknown_symbols' =
       IF \E u \in unknown_symbols : u.addr = v THEN unknown_symbols
       ELSE unknown_symbols \cup {Symbol(name, v, 1)}
  /\ ret' = [op |-> "AddUnknownSymbol"]
  /\ UNCHANGED <<stored_symbols, loaded_symbols, disk, cls, type, has_dex_dso, dex_file_offsets,
                 is_loaded, symbols, min_vaddr>>

\* ElfDso::AddDexFileOffset and DexFileDso::AddDexFileOffset.  The record
\* file reader adds a DEX Dso's offsets before it calls SetSymbols, so
\* offsets never arrive between SetSymbols and the first load.
AddDexFileOffset(o) ==
  /\ cls \in {"ElfDso", "DexFileDso"}
  /\ is_loaded \/ symbols = <<>>
  /\ Len(dex_file_offsets) < MaxDexOffsets
  /\ IF cls = "ElfDso" /\ type = ELF
       THEN /\ type' = DEX
            /\ has_dex_dso' = TRUE
            /\ dex_file_offsets' = <<o>>
       ELSE /\ dex_file_offsets' = Append(dex_file_offsets, o)
            /\ UNCHANGED <<type, has_dex_dso>>
  /\ ret' = [op |-> "AddDexFileOffset"]
  /\ UNCHANGED <<stored_symbols, loaded_symbols, disk, cls, is_loaded, symbols, unknown_symbols, min_vaddr>>

\* ElfDso::SetMinVirtualAddress, with the min vaddr the record file stored;
\* the record file reader calls it for Dsos of type DSO_ELF_FILE.
SetMinVirtualAddress(v) ==
  /\ cls = "ElfDso"
  /\ type = ELF
  /\ min_vaddr' = v
  /\ ret' = [op |-> "SetMinVirtualAddress"]
  /\ UNCHANGED <<stored_symbols, loaded_symbols, disk, cls, type, has_dex_dso, dex_file_offsets,
                 is_loaded, symbols, unknown_symbols>>

\* ElfDso::MinVirtualAddress: read once, cached, 0 when the read fails or
\* the Dso is no longer of type ELF.  Other classes return 0.
MinVirtualAddress ==
  LET v == IF cls # "ElfDso" THEN 0
           ELSE IF min_vaddr # U64Max THEN min_vaddr
           ELSE IF type = ELF /\ disk.elf_min.ok THEN disk.elf_min.vaddr
           ELSE 0
  IN  /\ min_vaddr' = IF cls = "ElfDso" THEN v ELSE min_vaddr
      /\ ret' = [op |-> "MinVirtualAddress", value |-> v]
      /\ UNCHANGED <<stored_symbols, loaded_symbols, disk, cls, type, has_dex_dso, dex_file_offsets,
                     is_loaded, symbols, unknown_symbols>>

Next ==
  \/ \E v \in Addrs : FindSymbol(v)
  \/ SetSymbols
  \/ \E v \in UnknownAddrs, n \in UnknownNames : AddUnknownSymbol(v, n)
  \/ \E o \in DexOffsets : AddDexFileOffset(o)
  \/ \E r \in ElfMinVaddrs \ {ReadFails} : SetMinVirtualAddress(r.vaddr)
  \/ MinVirtualAddress

Spec == Init /\ [][Next]_vars

Covers(s, v) == s.addr <= v /\ v < s.addr + s.len

TypeOK ==
  /\ type \in DsoTypes \cup {DEX}
  /\ cls \in {ClassOf(t) : t \in DsoTypes}
  /\ has_dex_dso \in BOOLEAN
  /\ dex_file_offsets \in Seq(DexOffsets)
  /\ is_loaded \in BOOLEAN
  /\ \A i \in 1..Len(symbols) : symbols[i].addr \in Addrs /\ symbols[i].len \in Addrs
  /\ \A u \in unknown_symbols : u.addr \in UnknownAddrs /\ u.len = 1
  /\ min_vaddr \in Addrs

(* Spec section 8: FindSymbol(v) returns a symbol s of the table with      *)
(* s.addr <= v < s.addr + s.len whenever the table has one; otherwise the  *)
(* unknown symbol at v, or none.  This exercises the lazy load, the sort,  *)
(* the length fixing, the merge with SetSymbols and the upper_bound step   *)
(* back together.                                                          *)
FindSymbolIffCover ==
  ret.op = "FindSymbol" =>
    LET v == ret.vaddr
        covering == {i \in 1..Len(symbols) : Covers(symbols[i], v)}
        unknown  == {u \in unknown_symbols : u.addr = v}
    IN  IF covering # {} THEN \E i \in covering : ret.symbol = symbols[i]
        ELSE IF unknown # {} THEN ret.symbol \in unknown
        ELSE ret.symbol = NoSymbol

(* dso_test.cpp, dex_file_dso: once an ELF_FILE Dso has become a DEX_FILE  *)
(* Dso, MinVirtualAddress() is 0 (DEX symbols are file offsets).           *)
DexMinVaddrIsZero ==
  ret.op = "MinVirtualAddress" /\ type = DEX => ret.value = 0

(* dso_test.cpp, dex_file_dso: after AddDexFileOffset, the methods of the  *)
(* DEX file at that offset are in the table FindSymbol searches.           *)
DexTableCoversOffsets ==
  LET added == {dex_file_offsets[i] : i \in 1..Len(dex_file_offsets)}
  IN  type = DEX /\ is_loaded /\ BadDex \notin {disk.dex[o] : o \in added} =>
        \A o \in added : \A s \in disk.dex[o].syms :
          \E j \in 1..Len(symbols) : symbols[j].addr = s.addr

(* Spec 4.3 and 9: a table SetSymbols stored is merged with the loaded    *)
(* one by set-union, and where addresses collide the first (stored)       *)
(* symbol is kept.  std::set_union on CompareValueByAddr does this per    *)
(* address: the stored symbols at an address, then those loaded symbols   *)
(* at that address beyond as many as were stored (equal addresses occur   *)
(* for aliases and come out of the unstable sort in any order), and the   *)
(* result is sorted for the upper_bound lookup.                           *)
AtAddr(t, a) == SelectSeq(t, LAMBDA x : x.addr = a)

MergeIsSetUnion ==
  is_loaded =>
    /\ \A i \in 1..(Len(symbols) - 1) : symbols[i].addr <= symbols[i + 1].addr
    /\ \A a \in Addrs :
         LET st == AtAddr(stored_symbols, a)
             ld == AtAddr(loaded_symbols, a)
         IN  AtAddr(symbols, a) = st \o SubSeq(ld, Len(st) + 1, Len(ld))

(* The comment in KernelDso::LoadSymbols and spec 4.3: /proc/kallsyms is   *)
(* tried when the caller asked for it (read_kernel_symbols_from_proc_), or *)
(* when an expected build id matches the running kernel's.  So with no     *)
(* vmlinux_ or kallsyms_, an opted-in kernel Dso whose /proc/kallsyms has  *)
(* text symbols loads a non-empty table.                                   *)
KernelReadsProcWhenAskedTo ==
  LET k == disk.kernel
  IN  is_loaded /\ cls = "KernelDso" /\ k.from_proc /\ ~k.vmlinux /\ ~k.kallsyms
        /\ k.proc_ok /\ KallsymsAccepted # <<>> => symbols # <<>>
=============================================================================

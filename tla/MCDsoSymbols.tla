----------------------------- MODULE MCDsoSymbols -----------------------------
EXTENDS DsoSymbols

\* Addresses 0..7; UINT64_MAX is 7.
MCAddrBits == 3
MCDsoTypes == {ELF, DEX, KERNEL, KERNEL_MODULE, UNKNOWN}

\* Two functions, an alias of the first at the same address (so the
\* unstable sort and the set_union see equal addresses), a label in .text
\* (length 0, patched by SortAndFixSymbols) and a label outside .text
\* (rejected).  None of them nest.
MCElfCandidates ==
  { [name |-> "f1", vaddr |-> 1, len |-> 2, is_func |-> TRUE,
     is_label |-> FALSE, is_in_text_section |-> TRUE],
    [name |-> "f1a", vaddr |-> 1, len |-> 2, is_func |-> TRUE,
     is_label |-> FALSE, is_in_text_section |-> TRUE],
    [name |-> "l1", vaddr |-> 4, len |-> 0, is_func |-> FALSE,
     is_label |-> TRUE, is_in_text_section |-> TRUE],
    [name |-> "d1", vaddr |-> 5, len |-> 0, is_func |-> FALSE,
     is_label |-> TRUE, is_in_text_section |-> FALSE],
    [name |-> "f2", vaddr |-> 6, len |-> 1, is_func |-> TRUE,
     is_label |-> FALSE, is_in_text_section |-> TRUE] }

\* Nested symbols: f0 spans 0..5 and contains f1 and the label l1.
MCElfNested ==
  MCElfCandidates \cup
  { [name |-> "f0", vaddr |-> 0, len |-> 6, is_func |-> TRUE,
     is_label |-> FALSE, is_in_text_section |-> TRUE] }

MCMaxElfSymbols == 3
\* An ELF Dso only: the one that becomes a DEX Dso.
MCElfOnly == {ELF}
MCDexOffsets == {"o1", "o2"}
MCDexContents ==
  { BadDex,
    DexFile({[name |-> "m1", addr |-> 2, len |-> 2]}),
    DexFile({[name |-> "m2", addr |-> 5, len |-> 1]}) }
\* Lines of kallsyms: two text symbols, one at address 0, one data symbol.
MCKallsyms ==
  { [name |-> "k0", addr |-> 0, type |-> "T"],
    [name |-> "k1", addr |-> 2, type |-> "T"],
    [name |-> "kd", addr |-> 3, type |-> "d"],
    [name |-> "k2", addr |-> 5, type |-> "t"] }
MCElfMinVaddrs == {MinVaddrRead(0), MinVaddrRead(2), ReadFails}
\* A nonzero min vaddr, or a failed read.
MCElfMinVaddrsTwo == {MinVaddrRead(2), ReadFails}
MCMaxDexOffsets == 2
MCUnknownAddrs == {3}
MCUnknownNames == {"u"}
\* Symbols a record file may store: one at the address of f1 and its
\* alias (and of a vmlinux f1), and one below every loaded symbol.  A
\* recorded symbol above a kernel table's last symbol would nest in it
\* (that symbol is extended to UINT64_MAX), which is the nested_symbols case.
MCRecordedSymbols ==
  { [name |-> "r0", addr |-> 0, len |-> 1], [name |-> "r1", addr |-> 1, len |-> 1] }
\* Every combination of the kernel symbol settings.
MCKernelConfigs == KernelConfigSet
\* One configuration per branch of KernelDso::LoadSymbols: vmlinux_,
\* kallsyms_, /proc/kallsyms read on opt-in, on a matching build id, refused
\* on a mismatch, failing to read, and not tried at all.
KC(v, k, p, b, ok) == [vmlinux |-> v, kallsyms |-> k, from_proc |-> p, build_id |-> b, proc_ok |-> ok]
MCKernelBranches ==
  { KC(TRUE, FALSE, FALSE, "empty", FALSE), KC(FALSE, TRUE, FALSE, "empty", FALSE),
    KC(FALSE, FALSE, TRUE, "empty", TRUE), KC(FALSE, FALSE, FALSE, "match", TRUE),
    KC(FALSE, FALSE, TRUE, "mismatch", TRUE), KC(FALSE, FALSE, TRUE, "empty", FALSE),
    KC(FALSE, FALSE, FALSE, "empty", TRUE) }
\* A kernel Dso only, for the /proc/kallsyms decision.
MCKernelOnly == {KERNEL}
=============================================================================

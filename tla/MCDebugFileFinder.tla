-------------------------- MODULE MCDebugFileFinder --------------------------
EXTENDS DebugFileFinder

\* One dso path and the vdso; a symfs directory, a name that is not a
\* directory, and "" (which clears symfs_dir_).
MCDsoPaths == {"/a.so", "[vdso]"}
MCVdso == "[vdso]"
MCDirNames == {"", "sym", "nodir"}
MCDirs == {"sym"}
\* Two right-hand sides, so that a later line for the same build id differs.
MCRelPaths == {"r1", "r2"}
\* B1 is the build id the debug files carry; B2 is one nothing matches.
MCBuildIds == {"B1", "B2"}
MCListKeys == {"B1"}
MCDebugFileIds == {"B1"}
MCVdsoFiles == {"v"}
MCMaxListLines == 2
MCMaxCwdLines == 1
=============================================================================

---------------------------- MODULE MCDsoGlobals ----------------------------
EXTENDS DsoGlobals

MCInstances == {"r1", "r2"}
MCPathsOne == {"/a.so"}
MCBuildIds == {"B1", "B2"}
MCKallsymsFiles == {"k1", "unreadable"}
MCUnreadable == "unreadable"
MCSymfsDirs == {"sym"}
MCMaxFileDsos == 1
MCMaxDumpIds == 3

\* The files SetRecordFile and CreateReportLib may name: missing, without
\* build ids or features, and the one path with either build id, once with
\* a file-feature Dso.
MCRecordFilesFew ==
  {[exists |-> FALSE, build_ids |-> <<>>, dsos |-> 0],
   [exists |-> TRUE, build_ids |-> <<>>, dsos |-> 0],
   [exists |-> TRUE, build_ids |-> <<[path |-> "/a.so", id |-> "B1"]>>, dsos |-> 1],
   [exists |-> TRUE, build_ids |-> <<[path |-> "/a.so", id |-> "B2"]>>, dsos |-> 0]}

=============================================================================

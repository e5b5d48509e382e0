----------------------------- MODULE MCReportLib -----------------------------
EXTENDS ReportLib

\* Two threads, so samples of one tid interleave with another's; three
\* timestamps, so successors can be later, equal or earlier; files of four
\* records, enough for three samples of one tid or a COMM between two.
MCTids == {"t1", "t2"}
MCComms == {"c1"}
MCTimeBits == 2
\* Timestamps below UINT64_MAX (3 at this width).
MCTimes == {0, 1, 2}
\* Timestamps reaching UINT64_MAX.
MCTimesAtMax == {2, 3}
MCPeriods == {1}
MCMaxRecords == 4
=============================================================================

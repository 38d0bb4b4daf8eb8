---------------------------- MODULE HistoryRanges ----------------------------
(***************************************************************************)
(* The two loops over ranges of days of data/history_cache.py, as they are: *)
(* what HistoryCache says of sets of ranges is what they compute.           *)
(***************************************************************************)
EXTENDS Integers, Sequences, TLC, SequencesExt

Greater(a, b) == IF a > b THEN a ELSE b
Lesser(a, b) == IF a < b THEN a ELSE b

\* _merge_ranges.
Sorted(ranges) == SortSeq(ranges, LAMBDA a, b : a[1] < b[1] \/ (a[1] = b[1] /\ a[2] < b[2]))
Joined(merged, r) ==
    IF r[1] > r[2] THEN merged
    ELSE IF merged = <<>> \/ r[1] > Last(merged)[2] + 1 THEN Append(merged, r)
    ELSE Append(Front(merged), <<Last(merged)[1], Greater(Last(merged)[2], r[2])>>)
Merge(ranges) == FoldLeft(Joined, <<>>, Sorted(ranges))

\* _missing_ranges: the walk keeps the first day that may be missing and the gaps
\* before it.
Passed(ask, walk, r) ==
    IF r[2] < walk.cursor \/ r[1] > ask[2] \/ walk.cursor > ask[2] THEN walk
    ELSE [cursor |-> Greater(walk.cursor, r[2] + 1),
          gaps |-> IF r[1] > walk.cursor
                   THEN Append(walk.gaps, <<walk.cursor, Lesser(ask[2], r[1] - 1)>>)
                   ELSE walk.gaps]
Missing(ask, coverage) ==
    LET end == FoldLeft(LAMBDA walk, r : Passed(ask, walk, r), [cursor |-> ask[1], gaps |-> <<>>],
                        Merge(coverage))
    IN IF ask[1] > ask[2] THEN <<>>
       ELSE IF end.cursor <= ask[2] THEN Append(end.gaps, <<end.cursor, ask[2]>>) ELSE end.gaps
=============================================================================

----------------------------- MODULE HistoryCache -----------------------------
(***************************************************************************)
(* The permanent cache of market history (data/history_cache.py): one       *)
(* manifest in an object store says which days of a series are covered and  *)
(* holds their rows in a partition per year.  Requests run in the threads   *)
(* of one process, fetch upstream what is missing and commit it.            *)
(*                                                                         *)
(* A partition is stored under the digest of its content, so it is modelled *)
(* by its rows; one series is modelled.  The version of a row stands for    *)
(* its prices, which upstream may revise.                                   *)
(***************************************************************************)
EXTENDS Integers, FiniteSets

CONSTANTS
    Callers,    \* threads with a request
    Asks,       \* the requests, as pairs of first and last day
    Trading,    \* the days that have a row upstream
    Cutoff,     \* the last day that is old enough to be permanent
    MaxVersion
\* Days are numbers, counted from the first one there is.
DaysAreNumbers == Asks \subseteq Nat \X Nat /\ Cutoff \in Nat

NoManifest == [coverage |-> {}, rows |-> {}]
Forgotten == [coverage |-> {<<>>}, rows |-> {}]   \* no manifest is remembered

VARIABLES
    version,    \* of the rows upstream
    manifest,   \* in the store: coverage as ranges, and the rows
    known,      \* the manifest this process remembers for half a minute
    writer,     \* who holds the write lock
    call        \* of each thread: where it is, its snapshot, what it fetched, its answer
vars == <<version, manifest, known, writer, call>>

Idle == [pc |-> "idle", ask |-> <<1, 0>>, snapshot |-> NoManifest, gaps |-> {},
         fetched |-> {}, answer |-> {}]
Init ==
    /\ version = 0 /\ manifest = NoManifest /\ known = Forgotten /\ writer = {}
    /\ call = [c \in Callers |-> Idle]

-----------------------------------------------------------------------------
\* Ranges of days, as pairs of the first and the last.  The loops over sorted
\* lists that compute the next two are in HistoryRanges.
Greater(a, b) == IF a > b THEN a ELSE b
Lesser(a, b) == IF a < b THEN a ELSE b
Days(ranges) == UNION {r[1]..r[2] : r \in ranges}

\* _merge_ranges: ranges that meet become one.
MergeRanges(ranges) ==
    {r \in {s[1] : s \in ranges} \X {s[2] : s \in ranges} :
        /\ r[1] <= r[2] /\ r[1]..r[2] \subseteq Days(ranges)
        /\ r[1] - 1 \notin Days(ranges) /\ r[2] + 1 \notin Days(ranges)}

\* _missing_ranges: what is asked for between two ranges, or before or after all.
MissingRanges(ask, ranges) ==
    {r \in ({ask[1]} \cup {s[2] + 1 : s \in ranges}) \X ({ask[2]} \cup {s[1] - 1 : s \in ranges}) :
        /\ ask[1] <= r[1] /\ r[1] <= r[2] /\ r[2] <= ask[2]
        /\ r[1]..r[2] \cap Days(ranges) = {}
        /\ r[1] = ask[1] \/ r[1] - 1 \in Days(ranges)
        /\ r[2] = ask[2] \/ r[2] + 1 \in Days(ranges)}

-----------------------------------------------------------------------------
Within(rows, days) == {row \in rows : row.day \in days}
Upstream(days) == [day : days \cap Trading, version : {version}]
Permanent(ask) == <<ask[1], Lesser(ask[2], Cutoff)>>
Dynamic(ask) == Greater(ask[1], Cutoff + 1)..ask[2]
Span(ask) == ask[1]..ask[2]

\* get_or_fetch begins with the manifest the process remembers or reads it; what
\* it read is remembered when it has arrived, however old it is by then.
Start(c, ask) ==
    /\ call[c].pc = "idle"
    /\ \/ /\ known # Forgotten
          /\ call' = [call EXCEPT ![c] = [Idle EXCEPT !.pc = "look", !.ask = ask, !.snapshot = known]]
       \/ call' = [call EXCEPT ![c] = [Idle EXCEPT !.pc = "read", !.ask = ask, !.snapshot = manifest]]
    /\ UNCHANGED <<version, manifest, known, writer>>
Remember(c) ==
    /\ call[c].pc = "read" /\ known' = call[c].snapshot
    /\ call' = [call EXCEPT ![c].pc = "look"]
    /\ UNCHANGED <<version, manifest, writer>>
\* MANIFEST_CACHE_SECONDS
Expire == known # Forgotten /\ known' = Forgotten /\ UNCHANGED <<version, manifest, writer, call>>

\* What the snapshot does not cover is fetched, one gap after the other.
Look(c) ==
    /\ call[c].pc = "look"
    /\ LET gaps == MissingRanges(Permanent(call[c].ask), call[c].snapshot.coverage)
       IN call' = [call EXCEPT ![c].gaps = gaps, ![c].pc = IF gaps = {} THEN "answer" ELSE "fetch"]
    /\ UNCHANGED <<version, manifest, known, writer>>
Fetch(c) ==
    /\ call[c].pc = "fetch"
    /\ \E gap \in call[c].gaps :
          /\ \A later \in call[c].gaps : gap[1] <= later[1]
          /\ call' = [call EXCEPT
                ![c].gaps = @ \ {gap}, ![c].pc = IF call[c].gaps = {gap} THEN "commit" ELSE @,
                ![c].fetched = @ \cup Upstream(Span(gap))]
    /\ UNCHANGED <<version, manifest, known, writer>>

\* _commit: under the lock the manifest is read again, and of what was fetched
\* only what it still lacks is added.
OldSnapshot(c) == call[c].snapshot
CommitBase(c) == manifest
Lacking(c) == MissingRanges(Permanent(call[c].ask), call[c].snapshot.coverage)
Lock(c) ==
    /\ call[c].pc = "commit" /\ writer = {}
    /\ known' = manifest
    /\ LET base == CommitBase(c)
           done == MissingRanges(Permanent(call[c].ask), base.coverage) = {}
       IN /\ call' = [call EXCEPT ![c].snapshot = base, ![c].pc = IF done THEN "answer" ELSE "write"]
          /\ writer' = IF done THEN {} ELSE {c}
    /\ UNCHANGED <<version, manifest>>
AllFetched(c) ==
    [coverage |-> MergeRanges(call[c].snapshot.coverage \cup Lacking(c)),
     rows |-> call[c].snapshot.rows \cup call[c].fetched]
Extended(c) ==
    [coverage |-> MergeRanges(call[c].snapshot.coverage \cup Lacking(c)),
     rows |-> call[c].snapshot.rows \cup Within(call[c].fetched, Days(Lacking(c)))]
\* write_manifest: the manifest is written, then read back.
Write(c) ==
    /\ call[c].pc = "write"
    /\ manifest' = Extended(c) /\ known' = Forgotten
    /\ call' = [call EXCEPT ![c].pc = "verify"]
    /\ UNCHANGED <<version, writer>>
Verify(c) ==
    /\ call[c].pc = "verify"
    /\ known' = manifest /\ writer' = {}
    /\ call' = [call EXCEPT ![c].snapshot = manifest, ![c].pc = "answer"]
    /\ UNCHANGED <<version, manifest>>

\* The rows of the partitions, with those that are too new for them.
Answer(c) ==
    /\ call[c].pc = "answer"
    /\ call' = [call EXCEPT ![c].pc = "done", ![c].answer =
          Within(call[c].snapshot.rows, Span(Permanent(call[c].ask))) \cup Upstream(Dynamic(call[c].ask))]
    /\ UNCHANGED <<version, manifest, known, writer>>
\* Any error of the store or of a fetch: everything is fetched without the cache.
Bypass(c) ==
    /\ call[c].pc \notin {"idle", "done"}
    /\ call' = [call EXCEPT ![c].pc = "done", ![c].answer = Upstream(Span(call[c].ask))]
    /\ writer' = writer \ {c}
    /\ UNCHANGED <<version, manifest, known>>
Return(c) ==
    /\ call[c].pc = "done" /\ call' = [call EXCEPT ![c] = Idle]
    /\ UNCHANGED <<version, manifest, known, writer>>

Revise ==
    /\ version < MaxVersion /\ version' = version + 1
    /\ UNCHANGED <<manifest, known, writer, call>>

Next ==
    \/ \E c \in Callers :
          \/ \E ask \in Asks : Start(c, ask)
          \/ Remember(c) \/ Look(c) \/ Fetch(c) \/ Lock(c) \/ Write(c) \/ Verify(c)
          \/ Answer(c) \/ Bypass(c) \/ Return(c)
    \/ Expire \/ Revise

Spec == Init /\ [][Next]_vars

-----------------------------------------------------------------------------
\* Every variable has its type.
TypeOK ==
    /\ version \in 0..MaxVersion /\ writer \subseteq Callers /\ Cardinality(writer) <= 1
    /\ manifest.rows \subseteq [day : Trading, version : 0..MaxVersion]
    /\ \A c \in Callers :
          call[c].pc \in {"idle", "read", "look", "fetch", "commit", "write", "verify", "answer", "done"}

\* What the manifest calls covered has its rows, one for each day, whichever
\* requests overlapped, whatever was stale and wherever one failed.
CoveredIsStored ==
    /\ {row.day : row \in manifest.rows} = Days(manifest.coverage) \cap Trading
    /\ \A a, b \in manifest.rows : a.day = b.day => a = b
    /\ \A r, s \in manifest.coverage : r = s \/ r[2] + 1 < s[1] \/ s[2] + 1 < r[1]

\* A request is answered with all of its days, and with one row for each.
AnswersAreWhole ==
    \A c \in Callers : call[c].pc = "done" =>
        /\ {row.day : row \in call[c].answer} = Span(call[c].ask) \cap Trading
        /\ \A a, b \in call[c].answer : a.day = b.day => a = b

\* Permanent history stays as it was confirmed: a step loses no row and revises
\* none.
HistoryStays == [][manifest.rows \subseteq manifest'.rows]_vars
=============================================================================

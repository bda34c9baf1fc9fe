------------------------------ MODULE SystemStats ------------------------------
(***************************************************************************)
(* The statistics of the host: run_background_stats_collector, which       *)
(* publishes a sample every round and keeps one a minute, and the two      *)
(* requests that read them.  Of a sample the module keeps its time and     *)
(* what was read from disk; the other values are taken the same way.       *)
(***************************************************************************)
EXTENDS Clock, FiniteSets, Integers

CONSTANTS
  Period,       \* sleep between two rounds (2 s)
  RecordEvery,  \* time between two rows (60 s)
  Hour,         \* what the history goes back by default (1 h)
  Limit,        \* ... and how many rows it returns (100)
  MaxTraffic    \* bound: sectors counted

ASSUME StatsAssumption ==
  /\ Period \in Nat /\ RecordEvery \in Nat \ {0}
  /\ Hour \in Nat /\ Limit \in Nat /\ MaxTraffic \in Nat
  /\ Hour < RecordEvery * Limit   \* 3600 < 60 * 100

VARIABLES
  sectors,    \* the counters of /proc/diskstats, summed over its lines
  traffic,    \* history: how much they have counted in all
  collector,  \* locals of the collector
  latest,     \* last_stats
  rows,       \* sys.system_stats
  reported    \* history: the sectors read that the samples published add up to

host == <<sectors, traffic>>
published == <<latest, rows, reported>>
statsVars == <<sectors, traffic, collector, latest, rows, reported>>

Sample == [created : Nat, read : Nat]
NoSample == [created |-> 0, read |-> 0, none |-> TRUE]

\* A collector that starts.
Collector(time) ==
  [pc |-> "sleep", wake |-> time + Period, lastRecord |-> time, lastRead |-> 0, first |-> TRUE]

StatsInit ==
  /\ sectors = 0 /\ traffic = 0
  /\ collector = Collector(now)
  /\ latest = NoSample /\ rows = {} /\ reported = 0

\* External: the disks are read (a sector of a partition counts for its disk as well,
\* as both have a line); a disk that is taken out takes its counters along.
DiskIsRead ==
  /\ traffic < MaxTraffic
  /\ sectors' = sectors + 1 /\ traffic' = traffic + 1
  /\ UNCHANGED <<collector, published>>

DiskIsTaken ==
  /\ sectors' \in 0 .. sectors /\ sectors' # sectors
  /\ UNCHANGED <<traffic, collector, published>>

\* Mutant: the first round, which has no earlier value, is not told apart.
DeltaFromZero(current) ==
  IF current < collector.lastRead THEN 0 ELSE current - collector.lastRead

\* Mutant: a sum that has dropped is subtracted all the same.
DeltaWrapping(current) == IF collector.first THEN 0 ELSE current - collector.lastRead

\* saturating_sub: a sum that has dropped counts as nothing read.
Delta(current) ==
  IF collector.first \/ current < collector.lastRead THEN 0 ELSE current - collector.lastRead

\* A round: sample, publish, and insert the sample if a minute has passed since the
\* last row.  Where /proc/diskstats cannot be read the last values stay.
Round ==
  /\ collector.pc = "sleep" /\ collector.wake <= now
  /\ \E readable \in BOOLEAN :
       LET read == IF readable THEN Delta(sectors) ELSE 0
       IN  /\ latest' = [created |-> now, read |-> read]
           /\ reported' = reported + read
           /\ collector' = [collector EXCEPT
                !.pc = IF now - collector.lastRecord >= RecordEvery THEN "insert" ELSE "sleep",
                !.wake = now + Period,
                !.lastRead = IF readable THEN sectors ELSE @,
                !.first = @ /\ ~readable]
  /\ UNCHANGED <<host, rows>>

\* Mutant: the minute is not started again.
InsertRowOnly ==
  /\ collector.pc = "insert"
  /\ rows' \in {rows, rows \cup {latest}}
  /\ collector' = [collector EXCEPT !.pc = "sleep", !.wake = now + Period]
  /\ UNCHANGED <<host, latest, reported>>

\* The insert ends, its error dropped; the minute starts again either way.
InsertRow ==
  /\ collector.pc = "insert"
  /\ rows' \in {rows, rows \cup {latest}}
  /\ collector' = [collector EXCEPT !.pc = "sleep", !.wake = now + Period, !.lastRecord = now]
  /\ UNCHANGED <<host, latest, reported>>

\* The host goes on, the table stays, all else is lost.
StatsRestart ==
  /\ collector' = Collector(now)
  /\ latest' = NoSample
  /\ UNCHANGED <<host, rows, reported>>

\* get_stats_history: the newest rows of an interval, limit of them ("order by created_at
\* desc limit"; the times of the rows differ, and their order is left out).
History(start, end, limit) ==
  LET within == {r \in rows : r.created >= start /\ r.created <= end}
  IN  {r \in within : Cardinality({s \in within : s.created > r.created}) < limit}

\* Without parameters: the last hour up to now.
DefaultHistory == History(IF now < Hour THEN 0 ELSE now - Hour, now, Limit)

\* get_current_stats: what was published, or values of its own until then, which
\* have nothing of the disk.
CurrentStats == IF latest = NoSample THEN [created |-> now, read |-> 0] ELSE latest

-----------------------------------------------------------------------------
(* Properties *)

StatsTypeOK ==
  /\ sectors \in Nat /\ traffic \in Nat /\ reported \in Nat
  /\ collector \in [pc : {"sleep", "insert"}, wake : Nat, lastRecord : Nat,
                    lastRead : Nat, first : BOOLEAN]
  /\ latest \in Sample \cup {NoSample}
  /\ rows \subseteq Sample

\* What is published as read from disk was counted, and in this life of the server:
\* whatever disks come and go, samples fail, and restarts fall between two rounds,
\* the samples add up to no more than that.
ReadsAreReal == reported <= traffic

\* Two rows are a minute apart, restarts and failed inserts included.
RowsApart ==
  \A r, s \in rows : r.created < s.created => s.created - r.created >= RecordEvery

\* The history of the last hour is whole, as its limit never cuts off a row of it,
\* and no row of it is newer than what is answered as current.
HistoryIsWhole ==
  /\ DefaultHistory = {r \in rows : r.created + Hour >= now}
  /\ \A r \in rows : r.created <= CurrentStats.created
=============================================================================

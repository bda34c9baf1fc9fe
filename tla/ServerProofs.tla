----------------------------- MODULE ServerProofs ------------------------------
(***************************************************************************)
(* The safety properties of Server, for any periods, limits, codes and     *)
(* numbers of restarts.  The three parts of the process share the clock    *)
(* only, so that the invariant is a conjunction of one of each.            *)
(***************************************************************************)
EXTENDS Server, FiniteSetTheorems, TLAPS

(* The collector *)

\* What the next round would report.
Pending ==
  IF collector.first \/ sectors < collector.lastRead THEN 0 ELSE sectors - collector.lastRead

\* Every sector that is reported, or will be in the next round, was counted.
ReadInv == reported + Pending <= traffic

\* Rows are not newer than the minute that runs, nor than what is current; the
\* sample that waits for its insert is a minute newer than any of them.
RowInv ==
  /\ collector.lastRecord <= now
  /\ \A r \in rows : r.created <= collector.lastRecord
  /\ latest # NoSample => latest.created <= now /\ \A r \in rows : r.created <= latest.created
  /\ collector.pc = "insert" =>
       /\ latest \in Sample
       /\ latest.created - collector.lastRecord >= RecordEvery

StatsInv == now \in Nat /\ StatsTypeOK /\ ReadInv /\ RowInv /\ RowsApart

LEMMA StatsStart == ClockInit /\ StatsInit => StatsInv
BY StatsAssumption DEF ClockInit, StatsInit, StatsInv, StatsTypeOK, ReadInv, RowInv,
  RowsApart, Pending, Collector, NoSample, Sample

LEMMA StatsTick == StatsInv /\ Tick /\ UNCHANGED statsVars => StatsInv'
BY StatsAssumption DEF Tick, statsVars, StatsInv, StatsTypeOK, ReadInv, RowInv,
  RowsApart, Pending, Sample

LEMMA StatsDisks == StatsInv /\ UNCHANGED now /\ (DiskIsRead \/ DiskIsTaken) => StatsInv'
BY StatsAssumption DEF DiskIsRead, DiskIsTaken, published, StatsInv, StatsTypeOK, ReadInv, RowInv,
  RowsApart, Pending, Sample

LEMMA StatsRestarts == StatsInv /\ UNCHANGED now /\ StatsRestart => StatsInv'
BY StatsAssumption DEF StatsRestart, host, Collector, StatsInv, StatsTypeOK, ReadInv, RowInv,
  RowsApart, Pending, Sample

LEMMA StatsRound == StatsInv /\ UNCHANGED now /\ Round => StatsInv'
<1> SUFFICES ASSUME StatsInv, UNCHANGED now, Round PROVE StatsInv'
  OBVIOUS
<1> USE DEF StatsInv, StatsTypeOK
<1>1. PICK readable \in BOOLEAN :
        LET read == IF readable THEN Delta(sectors) ELSE 0
        IN  /\ latest' = [created |-> now, read |-> read]
            /\ reported' = reported + read
            /\ collector' = [collector EXCEPT
                 !.pc = IF now - collector.lastRecord >= RecordEvery THEN "insert" ELSE "sleep",
                 !.wake = now + Period,
                 !.lastRead = IF readable THEN sectors ELSE @,
                 !.first = @ /\ ~readable]
  BY DEF Round
<1> DEFINE read == IF readable THEN Delta(sectors) ELSE 0
<1>2. UNCHANGED <<sectors, traffic, rows>> /\ now \in Nat /\ RecordEvery \in Nat /\ Period \in Nat
  BY StatsAssumption DEF Round, host
<1>3. read \in Nat /\ read <= Pending /\ Pending \in Nat
  BY DEF Delta, Pending
<1>4. latest' = [created |-> now, read |-> read] /\ reported' = reported + read
  BY <1>1
<1>5. /\ collector'.pc = IF now - collector.lastRecord >= RecordEvery THEN "insert" ELSE "sleep"
      /\ collector'.lastRead = IF readable THEN sectors ELSE collector.lastRead
      /\ collector'.first = (collector.first /\ ~readable)
      /\ collector'.lastRecord = collector.lastRecord
      /\ collector' \in [pc : {"sleep", "insert"}, wake : Nat, lastRecord : Nat,
                         lastRead : Nat, first : BOOLEAN]
  <2> DEFINE pc == IF now - collector.lastRecord >= RecordEvery THEN "insert" ELSE "sleep"
             lastRead == IF readable THEN sectors ELSE collector.lastRead
             first == collector.first /\ ~readable
  <2>1. collector' = [collector EXCEPT !.pc = pc, !.wake = now + Period,
                                       !.lastRead = lastRead, !.first = first]
    BY <1>1
  <2>2. pc \in {"sleep", "insert"} /\ lastRead \in Nat /\ now + Period \in Nat
    BY <1>2
  <2>3. first \in BOOLEAN
    OBVIOUS
  <2> HIDE DEF pc, lastRead, first
  <2>4. /\ collector'.pc = pc /\ collector'.lastRead = lastRead /\ collector'.first = first
        /\ collector'.lastRecord = collector.lastRecord
        /\ collector' \in [pc : {"sleep", "insert"}, wake : Nat, lastRecord : Nat,
                           lastRead : Nat, first : BOOLEAN]
    BY <2>1, <2>2, <2>3
  <2> QED
    BY <2>4 DEF pc, lastRead, first
<1>6. readable => read = Pending
  BY DEF Delta, Pending
<1>7. ~readable => read = 0
  OBVIOUS
<1> HIDE DEF read
<1>8. StatsTypeOK'
  BY <1>2, <1>3, <1>4, <1>5 DEF Sample
<1>9. ReadInv'
  <2>1. reported + Pending <= traffic
    BY DEF ReadInv
  <2>2. readable => Pending' = 0
    BY <1>2, <1>5 DEF Pending
  <2>3. ~readable => Pending' = Pending
    BY <1>2, <1>5 DEF Pending
  <2> QED
    BY <1>2, <1>3, <1>4, <1>6, <1>7, <2>1, <2>2, <2>3 DEF ReadInv
<1>10. RowInv'
  <2>1. /\ collector.lastRecord <= now
        /\ \A r \in rows : r.created <= collector.lastRecord
    BY DEF RowInv
  <2>2. latest'.created = now /\ latest' \in Sample
    BY <1>2, <1>3, <1>4 DEF Sample
  <2>3. \A r \in rows : r.created \in Nat
    BY DEF Sample
  <2>4. \A r \in rows : r.created <= latest'.created
    BY <1>2, <2>1, <2>2, <2>3
  <2> QED
    BY <1>2, <1>5, <2>1, <2>2, <2>4 DEF RowInv
<1>11. RowsApart'
  BY <1>2 DEF RowsApart
<1> QED
  BY <1>2, <1>8, <1>9, <1>10, <1>11

LEMMA StatsInsert == StatsInv /\ UNCHANGED now /\ InsertRow => StatsInv'
<1> SUFFICES ASSUME StatsInv, UNCHANGED now, InsertRow PROVE StatsInv'
  OBVIOUS
<1> USE DEF StatsInv, StatsTypeOK
<1>1. UNCHANGED <<sectors, traffic, latest, reported>> /\ now \in Nat /\ RecordEvery \in Nat
      /\ Period \in Nat
  BY StatsAssumption DEF InsertRow, host
<1>2. /\ collector'.pc = "sleep" /\ collector'.lastRecord = now
      /\ collector'.lastRead = collector.lastRead
      /\ collector'.first = collector.first
      /\ collector' \in [pc : {"sleep", "insert"}, wake : Nat, lastRecord : Nat,
                         lastRead : Nat, first : BOOLEAN]
  <2>1. collector' = [collector EXCEPT !.pc = "sleep", !.wake = now + Period, !.lastRecord = now]
    BY DEF InsertRow
  <2>2. now + Period \in Nat
    BY <1>1
  <2> QED
    BY <1>1, <2>1, <2>2
<1>3. /\ latest \in Sample /\ latest.created \in Nat
      /\ latest.created - collector.lastRecord >= RecordEvery
      /\ collector.lastRecord \in Nat
  BY DEF InsertRow, RowInv, Sample
<1>4. latest # NoSample
  BY <1>3 DEF Sample, NoSample
<1>5. /\ latest.created <= now
      /\ \A r \in rows : r.created \in Nat /\ r.created <= collector.lastRecord
  BY <1>4 DEF RowInv, Sample
<1>6. rows' = rows \/ rows' = rows \cup {latest}
  BY DEF InsertRow
<1>7. rows' \subseteq Sample /\ \A r \in rows' : r.created <= latest.created
  BY <1>1, <1>3, <1>5, <1>6
<1>8. StatsTypeOK'
  BY <1>1, <1>2, <1>7
<1>9. ReadInv'
  <2>1. Pending' = Pending
    BY <1>1, <1>2 DEF Pending
  <2> QED
    BY <1>1, <2>1 DEF ReadInv
<1>10. RowInv'
  <2>1. \A r \in rows' : r.created <= now
    BY <1>1, <1>3, <1>5, <1>7 DEF Sample
  <2> QED
    BY <1>1, <1>2, <1>5, <1>7, <2>1 DEF RowInv
<1>11. RowsApart'
  <2> SUFFICES ASSUME NEW r \in rows', NEW s \in rows', r.created < s.created
               PROVE  s.created - r.created >= RecordEvery
    BY <1>1 DEF RowsApart
  <2>1. CASE r \in rows /\ s \in rows
    BY <2>1 DEF RowsApart
  <2>2. CASE r \in rows /\ s = latest
    BY <1>1, <1>3, <1>5, <2>2
  <2>3. CASE r = latest
    <3>1. s.created <= latest.created /\ s.created \in Nat
      BY <1>7 DEF Sample
    <3> QED
      BY <1>3, <2>3, <3>1
  <2> QED
    BY <1>6, <2>1, <2>2, <2>3
<1> QED
  BY <1>1, <1>8, <1>9, <1>10, <1>11

(* Codes *)

CodesInv == CodesTypeOK /\ BoundOnce

LEMMA CodesStart == CodesInit => CodesInv
<1> SUFFICES ASSUME CodesInit PROVE CodesInv
  OBVIOUS
<1>1. DOMAIN codes = {}
  BY DEF CodesInit
<1> QED
  BY <1>1 DEF CodesInit, CodesInv, CodesTypeOK, BoundOnce, Outstanding

LEMMA CodesIssue == now \in Nat /\ CodesInv /\ IssueCode => CodesInv'
<1> SUFFICES ASSUME now \in Nat, CodesInv, IssueCode PROVE CodesInv'
  OBVIOUS
<1> USE DEF CodesInv, CodesTypeOK
<1>1. PICK c \in Code :
        /\ codes' = [k \in DOMAIN codes \cup {c} |-> IF k = c THEN now + Lifetime ELSE codes[k]]
        /\ issued' = [issued EXCEPT ![c] = @ + 1]
  BY DEF IssueCode
<1>2. bound' = bound
  BY DEF IssueCode
<1>3. /\ DOMAIN codes' = DOMAIN codes \cup {c}
      /\ \A k \in DOMAIN codes' : codes'[k] = IF k = c THEN now + Lifetime ELSE codes[k]
  BY <1>1
<1>4. CodesTypeOK'
  BY <1>1, <1>2, <1>3, CodesAssumption
<1>5. BoundOnce'
  <2> SUFFICES ASSUME NEW k \in Code
               PROVE  bound'[k] + Outstanding(k)' <= issued'[k]
    BY DEF BoundOnce
  <2>1. bound[k] \in Nat /\ issued[k] \in Nat /\ bound[k] + Outstanding(k) <= issued[k]
    BY DEF BoundOnce
  <2>2. CASE k = c
    BY <1>1, <1>2, <1>3, <2>1, <2>2 DEF Outstanding
  <2>3. CASE k # c
    BY <1>1, <1>2, <1>3, <2>1, <2>3 DEF Outstanding
  <2> QED
    BY <2>2, <2>3
<1> QED
  BY <1>4, <1>5

LEMMA CodesAuthorize ==
  ASSUME NEW c \in Code, CodesInv, Authorize(c)
  PROVE  CodesInv'
<1> USE DEF CodesInv, CodesTypeOK
<1>1. /\ c \in DOMAIN codes /\ issued' = issued
      /\ bound' = [bound EXCEPT ![c] = @ + 1]
      /\ codes' = [k \in DOMAIN codes \ {c} |-> codes[k]]
  BY DEF Authorize, Valid
<1>2. CodesTypeOK'
  BY <1>1
<1>3. BoundOnce'
  BY <1>1 DEF BoundOnce, Outstanding
<1> QED
  BY <1>2, <1>3

LEMMA CodesForgotten == CodesInv /\ CodesRestart => CodesInv'
<1> SUFFICES ASSUME CodesInv, CodesRestart PROVE CodesInv'
  OBVIOUS
<1>1. DOMAIN codes' = {} /\ issued' = issued /\ bound' = bound
  BY DEF CodesRestart
<1> QED
  BY <1>1 DEF CodesInv, CodesTypeOK, BoundOnce, Outstanding

LEMMA CodesStay == CodesInv /\ UNCHANGED codeVars => CodesInv'
BY DEF codeVars, CodesInv, CodesTypeOK, BoundOnce, Outstanding

(* Tasks *)

LEMMA TasksStart == TasksInit => TasksTypeOK
<1> SUFFICES ASSUME TasksInit PROVE TasksTypeOK
  OBVIOUS
<1>1. DOMAIN tasks = {}
  BY DEF TasksInit
<1> QED
  BY <1>1 DEF TasksTypeOK

LEMMA TasksCreate == now \in Nat /\ TasksTypeOK /\ CreateTask => TasksTypeOK'
<1> SUFFICES ASSUME now \in Nat, TasksTypeOK, CreateTask PROVE TasksTypeOK'
  OBVIOUS
<1>1. PICK i \in TaskId \ DOMAIN tasks :
        tasks' = [k \in DOMAIN tasks \cup {i} |->
          IF k = i THEN [status |-> "processing", wake |-> now + PlanningTime] ELSE tasks[k]]
  BY DEF CreateTask
<1>2. /\ DOMAIN tasks' = DOMAIN tasks \cup {i}
      /\ tasks'[i] = [status |-> "processing", wake |-> now + PlanningTime]
      /\ \A k \in DOMAIN tasks : tasks'[k] = tasks[k]
  BY <1>1
<1>3. tasks'[i] \in [status : {"processing", "completed"}, wake : Nat]
  BY <1>2, TasksAssumption
<1> QED
  BY <1>2, <1>3 DEF TasksTypeOK

LEMMA TasksPlan ==
  ASSUME NEW i \in TaskId, TasksTypeOK, PlanTask(i)
  PROVE  TasksTypeOK'
BY DEF PlanTask, TasksTypeOK

LEMMA TasksForgotten == TasksRestart => TasksTypeOK'
<1> SUFFICES ASSUME TasksRestart PROVE TasksTypeOK'
  OBVIOUS
<1>1. DOMAIN tasks' = {}
  BY DEF TasksRestart
<1> QED
  BY <1>1 DEF TasksTypeOK

LEMMA TasksStay == TasksTypeOK /\ UNCHANGED tasks => TasksTypeOK'
BY DEF TasksTypeOK

(* The process *)

CountersOK == requests \in Nat /\ restarts \in Nat

IInv == StatsInv /\ CodesInv /\ TasksTypeOK /\ CountersOK

LEMMA ServerStart == Init => IInv
BY StatsStart, CodesStart, TasksStart DEF Init, IInv, CountersOK

LEMMA StatsStay == StatsInv /\ UNCHANGED <<now, statsVars>> => StatsInv'
BY DEF statsVars, StatsInv, StatsTypeOK, ReadInv, RowInv, RowsApart, Pending

LEMMA ServerStep == IInv /\ [Next]_vars => IInv'
<1> SUFFICES ASSUME IInv, [Next]_vars PROVE IInv'
  OBVIOUS
<1> USE DEF IInv
<1>0. now \in Nat
  BY DEF StatsInv
<1>1. CASE TimePasses
  <2>1. Tick /\ UNCHANGED statsVars /\ UNCHANGED codeVars /\ UNCHANGED tasks /\ UNCHANGED counters
    BY <1>1 DEF TimePasses
  <2> QED
    BY <2>1, StatsTick, CodesStay, TasksStay DEF counters, CountersOK
<1>2. CASE Disks
  <2>1. /\ DiskIsRead \/ DiskIsTaken
        /\ UNCHANGED now /\ UNCHANGED codeVars /\ UNCHANGED tasks /\ UNCHANGED counters
    BY <1>2 DEF Disks
  <2> QED
    BY <2>1, StatsDisks, CodesStay, TasksStay DEF counters, CountersOK
<1>3. CASE Collect
  <2>1. /\ Round \/ InsertRow
        /\ UNCHANGED now /\ UNCHANGED codeVars /\ UNCHANGED tasks /\ UNCHANGED counters
    BY <1>3 DEF Collect
  <2> QED
    BY <2>1, StatsRound, StatsInsert, CodesStay, TasksStay DEF counters, CountersOK
<1>4. CASE Codes
  <2>1. CASE Request /\ IssueCode /\ UNCHANGED tasks
    BY <1>0, <2>1, StatsStay, CodesIssue, TasksStay DEF Request, CountersOK
  <2>2. CASE \E c \in Code : Authorize(c) /\ UNCHANGED <<now, statsVars, tasks, counters>>
    BY <2>2, StatsStay, CodesAuthorize, TasksStay DEF counters, CountersOK
  <2> QED
    BY <1>4, <2>1, <2>2 DEF Codes
<1>5. CASE Begin
  BY <1>0, <1>5, StatsStay, CodesStay, TasksCreate DEF Begin, Request, CountersOK
<1>6. CASE Plan
  BY <1>6, StatsStay, CodesStay, TasksPlan DEF Plan, counters, CountersOK
<1>7. CASE Restart
  BY <1>7, StatsRestarts, CodesForgotten, TasksForgotten DEF Restart, CountersOK
<1>8. CASE UNCHANGED vars
  BY <1>8, StatsStay, CodesStay, TasksStay DEF vars, counters, CountersOK
<1> QED
  BY <1>1, <1>2, <1>3, <1>4, <1>5, <1>6, <1>7, <1>8 DEF Next

LEMMA ServerInv == Spec => []IInv
BY ServerStart, ServerStep, PTL DEF Spec

(* The collector, the codes and the tasks keep their types; the rates of a sample *)
(* are natural numbers above all, whatever the counters of the disks do.          *)
THEOREM ServerTypes == Spec => []TypeOK
<1>1. IInv => TypeOK
  BY DEF IInv, StatsInv, CodesInv, CountersOK, TypeOK, counters
<1> QED
  BY <1>1, ServerInv, PTL

(* What the collector reports as read from disk was counted in its life, over     *)
(* restarts, samples that fail and disks that are taken out.                      *)
THEOREM ReadsReal == Spec => []ReadsAreReal
<1>1. IInv => ReadsAreReal
  BY DEF IInv, StatsInv, StatsTypeOK, ReadInv, ReadsAreReal, Pending
<1> QED
  BY <1>1, ServerInv, PTL

(* Two rows of system_stats are a minute apart, over restarts and late rounds.    *)
THEOREM MinutesApart == Spec => []RowsApart
<1>1. IInv => RowsApart
  BY DEF IInv, StatsInv
<1> QED
  BY <1>1, ServerInv, PTL

(* A device code binds no more devices than it was issued for.                    *)
THEOREM CodesBindOnce == Spec => []BoundOnce
<1>1. IInv => BoundOnce
  BY DEF IInv, CodesInv
<1> QED
  BY <1>1, ServerInv, PTL

(* The history *)

\* The minutes that fit into a stretch of time.
LEMMA Minutes ==
  ASSUME NEW time \in Nat, NEW every \in Nat \ {0}
  PROVE  /\ time \div every \in Nat
         /\ every * (time \div every) <= time
         /\ time < every * (time \div every) + every
BY SMT

LEMMA Cancel ==
  ASSUME NEW a \in Nat, NEW b \in Nat, NEW every \in Nat \ {0}, every * a < every * b
  PROVE  a < b
BY SMT

\* Rows with one time are one row: a new one is newer than all there are.
OneRowATime == \A r, s \in rows : r.created = s.created => r = s

\* No more rows fit behind a row, in the hour, than the limit leaves room for: each
\* begins a minute of its own.
LEMMA HourFits ==
  ASSUME StatsInv, OneRowATime, NEW r \in rows,
         NEW newer \in SUBSET rows,
         \A s \in newer : s.created > r.created /\ s.created - r.created <= Hour
  PROVE  Cardinality(newer) < Limit
<1>1. /\ RecordEvery \in Nat \ {0} /\ Hour \in Nat /\ Limit \in Nat
      /\ Hour < RecordEvery * Limit
  BY StatsAssumption
<1>2. \A s \in rows : s.created \in Nat
  BY DEF StatsInv, StatsTypeOK, Sample
<1> DEFINE age(s) == s.created - r.created
           minute == [s \in newer |-> age(s) \div RecordEvery]
<1>3. ASSUME NEW s \in newer
      PROVE  age(s) \in Nat /\ age(s) >= RecordEvery /\ age(s) <= Hour
  BY <1>1, <1>2, <1>3 DEF StatsInv, RowsApart
<1>4. ASSUME NEW s \in newer PROVE minute[s] \in 1 .. Limit - 1
  <2> DEFINE m == age(s) \div RecordEvery
             t == age(s)
  <2>1. t \in Nat /\ t >= RecordEvery /\ t <= Hour
    BY <1>3
  <2>2. m \in Nat /\ RecordEvery * m <= t /\ t < RecordEvery * m + RecordEvery
    BY <1>1, <2>1, Minutes
  <2> HIDE DEF m, t
  <2>3. m # 0
    BY <1>1, <2>1, <2>2
  <2>4. RecordEvery * m < RecordEvery * Limit
    BY <1>1, <2>1, <2>2
  <2>5. m < Limit
    BY <1>1, <2>2, <2>4, Cancel
  <2>6. m \in 1 .. Limit - 1
    BY <1>1, <2>2, <2>3, <2>5
  <2> QED
    BY <2>6 DEF m
<1>5. ASSUME NEW s \in newer, NEW t \in newer, minute[s] = minute[t]
      PROVE  s = t
  <2> DEFINE m == age(s) \div RecordEvery
             as == age(s)
             at == age(t)
  <2>1. as \in Nat /\ at \in Nat
    BY <1>3
  <2>2. m = at \div RecordEvery
    BY <1>5
  <2>3. /\ m \in Nat
        /\ RecordEvery * m <= as /\ as < RecordEvery * m + RecordEvery
        /\ RecordEvery * m <= at /\ at < RecordEvery * m + RecordEvery
    <3>1. /\ m \in Nat /\ RecordEvery * m <= as /\ as < RecordEvery * m + RecordEvery
      BY <1>1, <2>1, Minutes
    <3>2. /\ RecordEvery * (at \div RecordEvery) <= at
          /\ at < RecordEvery * (at \div RecordEvery) + RecordEvery
      BY <1>1, <2>1, Minutes
    <3> QED
      BY <2>2, <3>1, <3>2
  <2>4. RecordEvery * m \in Nat
    BY <1>1, <2>3
  <2>5. s.created < t.created => t.created - s.created >= RecordEvery
    BY DEF StatsInv, RowsApart
  <2>6. t.created < s.created => s.created - t.created >= RecordEvery
    BY DEF StatsInv, RowsApart
  <2>7. as = s.created - r.created /\ at = t.created - r.created
    OBVIOUS
  <2> HIDE DEF m, as, at
  <2>8. s.created = t.created
    BY <1>1, <1>2, <2>1, <2>3, <2>4, <2>5, <2>6, <2>7
  <2> QED
    BY <2>8 DEF OneRowATime
<1>6. minute \in Injection(newer, 1 .. Limit - 1)
  <2>1. minute \in [newer -> 1 .. Limit - 1]
    BY <1>4
  <2>2. \A s, t \in newer : minute[s] = minute[t] => s = t
    BY <1>5
  <2> HIDE DEF minute
  <2> QED
    BY <2>1, <2>2 DEF Injection, IsInjective
<1>7. Limit >= 1
  BY <1>1
<1>8. IsFiniteSet(1 .. Limit - 1) /\ Cardinality(1 .. Limit - 1) = Limit - 1
  <2>1. 1 \in Int /\ Limit - 1 \in Int /\ (Limit - 1) - 1 + 1 = Limit - 1
        /\ (1 > Limit - 1 => Limit - 1 = 0)
    BY <1>1, <1>7
  <2> QED
    BY <2>1, FS_Interval
<1>9. IsFiniteSet(newer) /\ Cardinality(newer) <= Limit - 1
  BY <1>6, <1>8, FS_Injection
<1> QED
  BY <1>1, <1>9, FS_CardinalityType

HistoryInv == IInv /\ OneRowATime

LEMMA OneRowStep == HistoryInv /\ [Next]_vars => OneRowATime'
<1> SUFFICES ASSUME HistoryInv, [Next]_vars PROVE OneRowATime'
  OBVIOUS
<1>1. CASE UNCHANGED rows
  BY <1>1 DEF HistoryInv, OneRowATime
<1>2. CASE InsertRow
  <2>1. rows' = rows \/ rows' = rows \cup {latest}
    BY <1>2 DEF InsertRow
  <2>2. /\ latest.created \in Nat /\ collector.lastRecord \in Nat /\ RecordEvery \in Nat \ {0}
        /\ latest.created - collector.lastRecord >= RecordEvery
        /\ \A r \in rows : r.created \in Nat /\ r.created <= collector.lastRecord
    BY <1>2, StatsAssumption DEF InsertRow, HistoryInv, IInv, StatsInv, StatsTypeOK, RowInv, Sample
  <2>3. \A r \in rows : r.created # latest.created
    BY <2>2
  <2> QED
    BY <2>1, <2>3 DEF HistoryInv, OneRowATime
<1>3. UNCHANGED rows \/ InsertRow
  BY DEF Next, vars, statsVars, TimePasses, Disks, DiskIsRead, DiskIsTaken, published, Collect,
    Round, Codes, Request, Begin, Plan, Restart, StatsRestart
<1> QED
  BY <1>1, <1>2, <1>3

(* The history of the last hour has all of its rows, however late the rounds and  *)
(* whatever inserts fail, and none of them is newer than the current sample: the  *)
(* minute between two rows and the limit of the query are enough for each other.  *)
THEOREM HistoryWhole == Spec => []HistoryIsWhole
<1>1. Init => HistoryInv
  BY ServerStart DEF Init, StatsInit, HistoryInv, OneRowATime
<1>2. HistoryInv /\ [Next]_vars => HistoryInv'
  BY ServerStep, OneRowStep DEF HistoryInv
<1>3. HistoryInv => HistoryIsWhole
  <2> SUFFICES ASSUME HistoryInv PROVE HistoryIsWhole
    OBVIOUS
  <2>1. StatsInv /\ OneRowATime
    BY DEF HistoryInv, IInv
  <2>2. /\ now \in Nat /\ Hour \in Nat
        /\ \A r \in rows : r.created \in Nat /\ r.created <= now
    BY <2>1, StatsAssumption DEF StatsInv, StatsTypeOK, RowInv, Sample
  <2> DEFINE start == IF now < Hour THEN 0 ELSE now - Hour
             within == {r \in rows : r.created >= start /\ r.created <= now}
             newer(r) == {s \in within : s.created > r.created}
  <2>3. within = {r \in rows : r.created + Hour >= now}
    BY <2>2
  <2>4. ASSUME NEW r \in within PROVE Cardinality(newer(r)) < Limit
    <3>1. r \in rows /\ newer(r) \in SUBSET rows
      OBVIOUS
    <3>2. \A s \in newer(r) : s.created > r.created /\ s.created - r.created <= Hour
      BY <2>2
    <3> HIDE DEF newer
    <3> QED
      BY <2>1, <3>1, <3>2, HourFits
  <2>5. DefaultHistory = {r \in within : Cardinality(newer(r)) < Limit}
    BY DEF DefaultHistory, History
  <2>6. DefaultHistory = within
    BY <2>4, <2>5
  <2>7. \A r \in rows : r.created <= CurrentStats.created
    BY <2>1, <2>2 DEF StatsInv, RowInv, CurrentStats
  <2> QED
    BY <2>3, <2>6, <2>7 DEF HistoryIsWhole
<1> QED
  BY <1>1, <1>2, <1>3, PTL DEF Spec
=============================================================================

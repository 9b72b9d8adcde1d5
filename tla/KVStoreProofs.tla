---------------------------- MODULE KVStoreProofs ---------------------------
(***************************************************************************)
(* The replicated key value store keeps its inductive invariant, so a row  *)
(* that is recorded as synced is what the server has and a sync that went  *)
(* through is current, but for a value fetched over a deletion, and no     *)
(* sync undoes a change, for any number of devices, writes and syncs.      *)
(***************************************************************************)
EXTENDS KVStore, TLAPS

ServerOK == server \in Seq(Version)

-----------------------------------------------------------------------------
(***************************************************************************)
(* The records that a sync carries.                                        *)
(***************************************************************************)

\* What a sync carries at each of its steps.
LEMMA JobShape ==
  ASSUME NEW j \in Jobs
  PROVE  /\ j.step \in {"idle", "done", "listed", "put", "del", "get", "store", "record"}
         /\ j.step = "listed" => j = Listed(j.ver, j.time) /\ j.ver \in Nat /\ j.time \in Nat
         /\ j.step \in {"put", "del", "get"} =>
              j = Request(j.step, j.ver, j.row) /\ j.ver \in Nat /\ j.row \in Row
         /\ j.step = "store" =>
              /\ j = Store(j.ver, j.row, j.value, j.got)
              /\ j.ver \in Nat /\ j.row \in Row /\ j.value \in Value /\ j.got \in Nat
         /\ j.step = "record" => j = Record(j.version, j.got) /\ j.version \in Nat /\ j.got \in Nat
         /\ j.step = "done" => j = Done(j.ver) /\ j.ver \in Nat
BY DEF Jobs, Listed, Request, Store, Record, Done

\* And the other way round.
LEMMA JobsBuilt ==
  ASSUME NEW ver \in Nat, NEW n \in Nat, NEW row \in Row, NEW v \in Value,
         NEW step \in {"put", "del", "get"}
  PROVE  /\ Idle \in Jobs /\ Listed(ver, n) \in Jobs /\ Request(step, ver, row) \in Jobs
         /\ Store(ver, row, v, n) \in Jobs /\ Record(ver, n) \in Jobs /\ Done(ver) \in Jobs
BY DEF Jobs, Idle, Listed, Request, Store, Record, Done

-----------------------------------------------------------------------------
(***************************************************************************)
(* What a step leaves alone.                                               *)
(***************************************************************************)

\* What RecordedAgrees says of a row: the server's version, or a value that was
\* fetched over a deletion.
Same(row, i) == Agrees(row, i) \/ Buried(row, i)

\* RecordedAgrees, of one device.
RowAgrees(d) == local[d].remote > 0 => Same(local[d], local[d].remote)

LEMMA AgreesAll == RecordedAgrees <=> \A d \in Device : RowAgrees(d)
BY DEF RecordedAgrees, RowAgrees, Same

\* The server's versions are only added to.
Grows ==
  /\ server' \in Seq(Version) /\ Len(server) <= Len(server')
  /\ \A i \in DOMAIN server : i \in DOMAIN server' /\ server'[i] = server[i]

LEMMA Unmoved ==
  ASSUME TypeOK, server' = server
  PROVE  Grows
BY DEF TypeOK, Grows

LEMMA Appended ==
  ASSUME TypeOK, NEW x \in Version, server' = Append(server, x)
  PROVE  Grows /\ Len(server') = Len(server) + 1 /\ server'[Len(server')] = x
BY DEF TypeOK, Grows

\* What a device knows stays true while the server goes on.
LEMMA KeptUnderGrowth ==
  ASSUME IInv, Grows, NEW d \in Device, local'[d] = local[d], job'[d] = job[d]
  PROVE  JobOK(d, job[d])' /\ RowAgrees(d)'
<1> DEFINE j == job[d]
<1>1. /\ j \in Jobs /\ local[d] \in Row /\ Len(server) \in Nat /\ DOMAIN server = 1..Len(server)
      /\ Len(server') \in Nat /\ DOMAIN server' = 1..Len(server')
  BY DEF IInv, TypeOK, Grows
<1>2. JobOK(d, j) /\ RowAgrees(d)
  BY AgreesAll DEF IInv
<1>3. RowAgrees(d)'
  BY <1>1, <1>2 DEF RowAgrees, Same, Agrees, Buried, Holds, Grows, Row
<1>4. CASE j.step \in {"idle"}
  BY <1>3, <1>4 DEF JobOK
<1>5. CASE j.step = "listed"
  BY <1>1, <1>2, <1>3, <1>5, JobShape DEF JobOK, ListedOK, Grows
<1>6. CASE j.step \in {"put", "del", "get"}
  BY <1>1, <1>2, <1>3, <1>6, JobShape DEF JobOK, RequestOK, Tracks, Current, Grows
<1>7. CASE j.step = "store"
  BY <1>1, <1>2, <1>3, <1>7, JobShape DEF JobOK, StoreOK, Tracks, Current, Holds, Grows
<1>8. CASE j.step = "record"
  BY <1>1, <1>2, <1>3, <1>8, JobShape DEF JobOK, RecordOK, Agrees, Buried, Current, Holds, Grows
<1>9. CASE j.step = "done"
  BY <1>1, <1>2, <1>3, <1>9, JobShape DEF JobOK, DoneOK, Grows
<1> QED BY <1>1, <1>4, <1>5, <1>6, <1>7, <1>8, <1>9, JobShape

\* A change of its own only makes what a sync knows of the row older.
LEMMA KeptUnderChange ==
  ASSUME IInv, server' = server, NEW d \in Device, local' \in [Device -> Row], job'[d] = job[d],
         local'[d].version = local[d].version + 1, local'[d].remote = 0
  PROVE  JobOK(d, job[d])' /\ RowAgrees(d)'
<1> DEFINE j == job[d]
<1>1. j \in Jobs /\ local[d] \in Row /\ local'[d] \in Row
  BY DEF IInv, TypeOK
<1>2. JobOK(d, j)
  BY DEF IInv
<1>3. RowAgrees(d)'
  BY DEF RowAgrees
<1>4. CASE j.step \in {"idle"}
  BY <1>3, <1>4 DEF JobOK
<1>5. CASE j.step = "listed"
  BY <1>1, <1>2, <1>3, <1>5, JobShape DEF JobOK, ListedOK
<1>6. CASE j.step \in {"put", "del", "get"}
  BY <1>1, <1>2, <1>3, <1>6, JobShape DEF JobOK, RequestOK, Tracks, Current, Row
<1>7. CASE j.step = "store"
  BY <1>1, <1>2, <1>3, <1>7, JobShape DEF JobOK, StoreOK, Tracks, Current, Holds, Row
<1>8. CASE j.step = "record"
  BY <1>1, <1>2, <1>3, <1>8, JobShape DEF JobOK, RecordOK, Agrees, Buried, Current, Holds, Row
<1>9. CASE j.step = "done"
  BY <1>1, <1>2, <1>3, <1>9, JobShape DEF JobOK, DoneOK
<1> QED BY <1>1, <1>4, <1>5, <1>6, <1>7, <1>8, <1>9, JobShape

\* The server's versions.
LEMMA VersionShape ==
  ASSUME TypeOK
  PROVE  \A i \in DOMAIN server :
           server[i] \in Version /\ server[i].time \in Nat /\ server[i].value \in Value
<1>1. \A i \in DOMAIN server : server[i] \in Version
  BY DEF TypeOK
<1>2. \A v \in Version : v.time \in Nat /\ v.value \in Value
  BY DEF Version
<1> QED BY <1>1, <1>2

\* A step of one device needs a look at that device only.
LEMMA OneDevice ==
  ASSUME IInv, Grows, TypeOK', TimesOrdered', NEW d \in Device, JobOK(d, job[d])', RowAgrees(d)',
         \A e \in Device \ {d} : local'[e] = local[e] /\ job'[e] = job[e]
  PROVE  IInv'
<1>1. \A e \in Device : JobOK(e, job[e])' /\ RowAgrees(e)'
  BY KeptUnderGrowth
<1>2. RecordedAgrees'
  BY <1>1 DEF RecordedAgrees, RowAgrees, Same
<1> QED BY <1>1, <1>2 DEF IInv

-----------------------------------------------------------------------------
(***************************************************************************)
(* The steps.                                                              *)
(***************************************************************************)
LEMMA InitHolds == Init => IInv
<1> SUFFICES ASSUME Init PROVE IInv
  OBVIOUS
<1>1. TypeOK
  BY KVStoreAssumption DEF Init, TypeOK, NoRow, NoReader, Idle, Row, Jobs, Value, Version
<1>2. RecordedAgrees /\ TimesOrdered
  BY DEF Init, RecordedAgrees, NoRow, TimesOrdered
<1>3. \A d \in Device : JobOK(d, job[d])
  BY DEF Init, JobOK, Idle
<1> QED BY <1>1, <1>2, <1>3 DEF IInv

LEMMA StutterKeeps == IInv /\ UNCHANGED vars => IInv'
<1> SUFFICES ASSUME IInv, UNCHANGED vars PROVE IInv'
  OBVIOUS
<1>1. TypeOK' /\ TimesOrdered'
  BY DEF IInv, vars, TypeOK, TimesOrdered
<1>2. Grows
  BY Unmoved DEF IInv, vars
<1>3. \A d \in Device : JobOK(d, job[d])' /\ RowAgrees(d)'
  BY <1>2, KeptUnderGrowth DEF vars
<1> QED BY <1>1, <1>3 DEF IInv, RecordedAgrees, RowAgrees, Same

LEMMA TickKeeps == IInv /\ Tick => IInv'
<1> SUFFICES ASSUME IInv, Tick PROVE IInv'
  OBVIOUS
<1>1. TypeOK' /\ TimesOrdered'
  <2>1. TypeOK' /\ server' = server /\ now' = now + 1 /\ now \in Nat
    BY DEF IInv, Tick, TypeOK
  <2>2. \A i \in DOMAIN server : server[i].time \in Nat
    BY VersionShape DEF IInv
  <2> QED BY <2>1, <2>2 DEF IInv, TimesOrdered
<1>2. Grows
  BY Unmoved DEF IInv, Tick
<1>3. \A d \in Device : JobOK(d, job[d])' /\ RowAgrees(d)'
  BY <1>2, KeptUnderGrowth DEF Tick
<1> QED BY <1>1, <1>3 DEF IInv, RecordedAgrees, RowAgrees, Same

LEMMA ReadVersionKeeps == ASSUME IInv, NEW d \in Device, ReadVersion(d) PROVE IInv'
<1>1. TypeOK' /\ TimesOrdered'
  BY DEF IInv, ReadVersion, TypeOK, TimesOrdered, Row
<1>2. Grows
  BY Unmoved DEF IInv, ReadVersion
<1>3. \A e \in Device : JobOK(e, job[e])' /\ RowAgrees(e)'
  BY <1>2, KeptUnderGrowth DEF ReadVersion
<1> QED BY <1>1, <1>3 DEF IInv, RecordedAgrees, RowAgrees, Same

\* A row that records a server version.
LEMMA RecordedRow ==
  ASSUME TypeOK, NEW d \in Device, NEW got \in Nat
  PROVE  /\ Recorded(d, got) \in Row /\ Recorded(d, got).remote = got
         /\ Recorded(d, got).value = local[d].value /\ Recorded(d, got).deleted = local[d].deleted
<1>1. local[d] \in Row /\ now \in Nat
  BY DEF TypeOK
<1> QED BY <1>1 DEF Recorded, Row

\* A row that a change makes.
LEMMA ChangedRow ==
  ASSUME TypeOK, NEW d \in Device, NEW v \in Value, NEW deleted \in BOOLEAN
  PROVE  /\ Changed(d, v, deleted) \in Row
         /\ Changed(d, v, deleted).version = local[d].version + 1
         /\ Changed(d, v, deleted).remote = 0
BY DEF TypeOK, Changed, Row

LEMMA WriteKeeps ==
  ASSUME IInv, NEW d \in Device, NEW row \in Row, Write(d, row),
         row.version = local[d].version + 1, row.remote = 0
  PROVE  IInv'
<1>1. local' \in [Device -> Row]
  BY DEF IInv, TypeOK, Write
<1>2. TypeOK'
  BY <1>1, KVStoreAssumption DEF IInv, TypeOK, Write
<1>3. TimesOrdered' /\ Grows
  BY Unmoved DEF IInv, Write, TimesOrdered
<1>4. JobOK(d, job[d])' /\ RowAgrees(d)'
  <2>1. CASE Unchanged(d, reader[d])
    BY <2>1, <1>1, KeptUnderChange DEF Write, IInv, TypeOK
  <2>2. CASE ~Unchanged(d, reader[d])
    BY <2>2, <1>3, KeptUnderGrowth DEF Write
  <2> QED BY <2>1, <2>2
<1>5. \A e \in Device \ {d} : local'[e] = local[e] /\ job'[e] = job[e]
  BY DEF Write, IInv, TypeOK
<1> QED BY <1>2, <1>3, <1>4, <1>5, OneDevice

LEMMA SetKeeps == ASSUME IInv, NEW d \in Device, Set(d) PROVE IInv'
<1>1. writes + 1 \in Value
  BY KVStoreAssumption DEF IInv, TypeOK, Set, Write, Value
<1> QED BY <1>1, ChangedRow, WriteKeeps DEF Set, IInv

LEMMA DeleteKeeps == ASSUME IInv, NEW d \in Device, Delete(d) PROVE IInv'
<1>1. local[d].value \in Value
  BY DEF IInv, TypeOK, Row
<1> QED BY <1>1, ChangedRow, WriteKeeps DEF Delete, IInv

\* A step of a sync that writes neither the table nor the server.
LEMMA QuietStep ==
  ASSUME IInv, NEW d \in Device, NEW j \in Jobs, Goes(d, j), JobOK(d, j),
         UNCHANGED <<local, server, reader, now, writes>>, syncs' \in [Device -> Nat]
  PROVE  IInv'
<1>1. TypeOK' /\ TimesOrdered' /\ Grows
  BY Unmoved DEF IInv, TypeOK, Goes, TimesOrdered
<1>2. job'[d] = j /\ \A e \in Device \ {d} : local'[e] = local[e] /\ job'[e] = job[e]
  BY DEF IInv, TypeOK, Goes
<1>3. JobOK(d, job[d])'
  BY <1>2 DEF JobOK, ListedOK, RequestOK, StoreOK, RecordOK, DoneOK, Tracks, Current,
     Agrees, Buried, Holds
<1>4. RowAgrees(d)'
  BY AgreesAll DEF IInv, RowAgrees, Same, Agrees, Buried, Holds
<1> QED BY <1>1, <1>2, <1>3, <1>4, OneDevice

LEMMA ListKeeps == ASSUME IInv, NEW d \in Device, List(d) PROVE IInv'
<1> DEFINE j == IF server = <<>> THEN Listed(0, 0) ELSE Listed(Len(server), server[Len(server)].time)
<1>1. server # <<>> => Len(server) \in DOMAIN server /\ server[Len(server)].time \in Nat
  <2>1. server \in Seq(Version)
    BY DEF IInv, TypeOK
  <2> QED BY <2>1, VersionShape DEF IInv
<1>2. j \in Jobs /\ JobOK(d, j)
  BY <1>1 DEF Listed, Jobs, JobOK, ListedOK, IInv, TypeOK
<1>3. Goes(d, j) /\ UNCHANGED <<local, server, reader, now, writes>> /\ syncs' \in [Device -> Nat]
  BY DEF List, IInv, TypeOK
<1> QED BY <1>2, <1>3, QuietStep

LEMMA CompareKeeps == ASSUME IInv, NEW d \in Device, Compare(d) PROVE IInv'
<1> DEFINE row == local[d]
           ver == job[d].ver
           j(step) == Request(step, ver, row)
<1>1. ver \in Nat /\ row \in Row /\ job[d].time \in Nat /\ ListedOK(d, job[d])
  BY JobShape DEF Compare, IInv, TypeOK, JobOK
<1>2. UNCHANGED <<local, server, reader, now, writes>> /\ syncs' \in [Device -> Nat]
  BY DEF Compare, IInv, TypeOK
<1>3. Tracks(d, row)
  BY <1>1 DEF Tracks, Current, Row
<1>4. CASE UpToDate(d)
  <2>1. Done(ver) \in Jobs /\ JobOK(d, Done(ver))
    BY <1>1, <1>4 DEF Done, Jobs, JobOK, DoneOK, UpToDate, ListedOK, IInv, TypeOK
  <2> QED BY <2>1, <1>2, <1>4, QuietStep DEF Compare
<1>5. CASE ~UpToDate(d) /\ row.time < job[d].time
  <2>1. ver > 0
    BY <1>1, <1>5 DEF ListedOK, Row
  <2>2. j("get") \in Jobs /\ JobOK(d, j("get"))
    BY <1>1, <1>3, <1>5, <2>1 DEF Request, Jobs, JobOK, RequestOK, ListedOK
  <2>3. Goes(d, j("get"))
    BY <1>1, <1>5 DEF Compare, Row
  <2> QED BY <2>2, <2>3, <1>2, QuietStep
<1>6. CASE ~UpToDate(d) /\ ~(row.time < job[d].time) /\ row.deleted
  <2>1. j("del") \in Jobs /\ JobOK(d, j("del"))
    BY <1>1, <1>3, <1>6 DEF Request, Jobs, JobOK, RequestOK, ListedOK
  <2>2. Goes(d, j("del"))
    BY <1>1, <1>6 DEF Compare, Row
  <2> QED BY <2>1, <2>2, <1>2, QuietStep
<1>7. CASE ~UpToDate(d) /\ ~(row.time < job[d].time) /\ ~row.deleted
  <2>1. j("put") \in Jobs /\ JobOK(d, j("put"))
    BY <1>1, <1>3, <1>7 DEF Request, Jobs, JobOK, RequestOK, ListedOK
  <2>2. Goes(d, j("put"))
    BY <1>1, <1>7 DEF Compare, Row
  <2> QED BY <2>1, <2>2, <1>2, QuietStep
<1> QED BY <1>4, <1>5, <1>6, <1>7

LEMMA FetchKeeps == ASSUME IInv, NEW d \in Device, Fetch(d) PROVE IInv'
<1> DEFINE n == Len(server)
           j == Store(job[d].ver, job[d].row, server[n].value, n)
<1>1. RequestOK(d, job[d]) /\ job[d].ver \in Nat /\ job[d].row \in Row /\ job[d].step = "get"
  BY JobShape DEF Fetch, IInv, TypeOK, JobOK
<1>2. n \in DOMAIN server /\ n \in Nat /\ server[n] \in Version /\ job[d].ver \in DOMAIN server
  BY <1>1 DEF RequestOK, IInv, TypeOK
<1>3. job[d].row.time < server[n].time
  <2>1. server[job[d].ver].time <= server[n].time /\ server[job[d].ver].time \in Nat
    BY <1>1, <1>2, VersionShape DEF RequestOK, IInv, TimesOrdered, TypeOK
  <2> QED BY <1>1, <1>2, <2>1 DEF RequestOK, Row, Version
<1>4. j \in Jobs
  BY <1>1, <1>2 DEF Store, Jobs, Version
<1>5. JobOK(d, j)
  BY <1>1, <1>2, <1>3 DEF Fetch, Store, JobOK, StoreOK, RequestOK, Holds
<1> QED BY <1>4, <1>5, QuietStep DEF Fetch, IInv, TypeOK

LEMMA FetchGoneKeeps == ASSUME IInv, NEW d \in Device, FetchGone(d) PROVE IInv'
<1>1. Idle \in Jobs /\ JobOK(d, Idle)
  BY DEF Idle, Jobs, JobOK
<1> QED BY <1>1, QuietStep DEF FetchGone, IInv, TypeOK

LEMMA AbandonKeeps == ASSUME IInv, NEW d \in Device, Abandon(d) PROVE IInv'
<1>1. Idle \in Jobs /\ JobOK(d, Idle)
  BY DEF Idle, Jobs, JobOK
<1> QED BY <1>1, QuietStep DEF Abandon, IInv, TypeOK

\* The row that the server has after a put or a del.
LEMMA ReplacedRow ==
  ASSUME IInv, NEW d \in Device, Replace(d)
  PROVE  \E x \in Version :
           /\ server' = Append(server, x)
           /\ x.time <= now /\ \A i \in DOMAIN server : server[i].time <= x.time
           /\ job[d].step = "put" => ~x.deleted /\ x.value = job[d].row.value
           /\ job[d].step = "del" => x.deleted
<1> DEFINE row == job[d].row
           n == Len(server)
<1>1. row \in Row /\ job[d].step \in {"put", "del"}
  BY JobShape DEF Replace, IInv, TypeOK
<1>2. /\ server \in Seq(Version) /\ n \in Nat /\ now \in Nat
      /\ \A i \in DOMAIN server : server[i].time <= now
  BY DEF IInv, TypeOK, TimesOrdered
<1>3. CASE job[d].step = "put"
  <2> DEFINE x == [value |-> row.value, time |-> now, deleted |-> FALSE]
  <2>1. x \in Version /\ server' = Append(server, x)
    BY <1>1, <1>2, <1>3 DEF Replace, Row, Version
  <2> QED BY <2>1, <1>2, <1>3
<1>4. CASE job[d].step = "del"
  <2> DEFINE last == server[n]
  <2>1. n \in DOMAIN server
    BY <1>2, <1>4 DEF Replace
  <2>2. last \in Version
    BY <2>1, <1>2
  <2>3. PICK time \in {last.time, now} :
          server' = Append(server, [last EXCEPT !.deleted = TRUE, !.time = time])
    BY <1>4 DEF Replace
  <2> DEFINE x == [last EXCEPT !.deleted = TRUE, !.time = time]
  <2>4. last.time \in Nat /\ last.time <= now /\ \A i \in DOMAIN server : server[i].time <= last.time
    BY <2>1, <1>2, VersionShape DEF IInv, TimesOrdered
  <2>5. time \in Nat /\ x \in Version /\ x.time = time /\ x.deleted
    BY <2>2, <2>4, <1>2 DEF Version
  <2>6. \A i \in DOMAIN server : server[i].time <= time
    BY <2>4, <1>2
  <2>7. server' = Append(server, x) /\ x \in Version /\ x.time = time /\ x.deleted /\ time <= now
    BY <1>2, <2>3, <2>4, <2>5
  <2> HIDE DEF x
  <2> QED BY <1>4, <2>6, <2>7
<1> QED BY <1>1, <1>3, <1>4

LEMMA ReplaceKeeps == ASSUME IInv, NEW d \in Device, Replace(d) PROVE IInv'
<1>0. PICK row \in Row, n \in Nat : row = job[d].row /\ n = Len(server)
  BY JobShape DEF Replace, IInv, TypeOK
<1> DEFINE j == Record(row.version, n + 1)
<1>1. RequestOK(d, job[d]) /\ job[d].step \in {"put", "del"} /\ local[d] \in Row
  BY JobShape DEF Replace, IInv, TypeOK, JobOK
<1>2. server \in Seq(Version)
  BY DEF IInv, TypeOK
<1>3. PICK x \in Version :
        /\ server' = Append(server, x)
        /\ x.time <= now /\ \A i \in DOMAIN server : server[i].time <= x.time
        /\ job[d].step = "put" => ~x.deleted /\ x.value = row.value
        /\ job[d].step = "del" => x.deleted
  BY <1>0, ReplacedRow
<1>4. /\ Grows /\ Len(server') = n + 1 /\ server'[n + 1] = x /\ DOMAIN server' = 1..(n + 1)
      /\ DOMAIN server = 1..n
  BY <1>0, <1>2, <1>3, Appended DEF IInv, Grows
<1>5. UNCHANGED <<local, reader, now, writes, syncs>> /\ (Goes(d, j) \/ Goes(d, Idle))
  BY <1>0, <1>4 DEF Replace
<1>6. j \in Jobs /\ Idle \in Jobs
  BY DEF Record, Idle, Jobs, Row
<1>7. TypeOK'
  BY <1>4, <1>5, <1>6 DEF IInv, TypeOK, Goes, Grows
<1>8. TimesOrdered'
  <2>1. \A i \in 1..n : server'[i] = server[i] /\ server[i].time <= now /\ server[i].time <= x.time
    BY <1>3, <1>4 DEF IInv, TimesOrdered, Grows
  <2>2. \A i, k \in 1..n : i <= k => server[i].time <= server[k].time
    BY <1>4 DEF IInv, TimesOrdered
  <2>3. x.time <= x.time
    BY DEF Version
  <2>4. \A i \in 1..(n + 1) : i \in 1..n \/ i = n + 1
    BY <1>2
  <2>5. \A i \in 1..n : ~(n + 1 <= i)
    BY <1>2
  <2> QED BY <1>3, <1>4, <1>5, <2>1, <2>2, <2>3, <2>4, <2>5 DEF TimesOrdered
<1>9. \A e \in Device \ {d} : local'[e] = local[e] /\ job'[e] = job[e]
  BY <1>5 DEF Goes, IInv, TypeOK
<1>10. RowAgrees(d)'
  <2>1. RowAgrees(d) /\ local'[d] = local[d] /\ local[d].remote \in Nat
    BY <1>1, <1>5, AgreesAll DEF IInv, Row
  <2> QED BY <2>1, <1>0, <1>2, <1>4 DEF RowAgrees, Same, Agrees, Buried, Holds, Grows
<1>11. JobOK(d, job[d])'
  <2>1. CASE Goes(d, Idle)
    BY <2>1 DEF Goes, JobOK, Idle, IInv, TypeOK
  <2>2. CASE Goes(d, j)
    <3>1. job'[d] = j /\ local'[d] = local[d]
      BY <2>2, <1>5 DEF Goes, IInv, TypeOK
    <3>2. j.step = "record" /\ j.version = row.version /\ j.got = n + 1
      BY DEF Record
    <3>3. Current(d, row.version)' /\ n + 1 \in 1..(n + 1)
      BY <3>1, <1>0, <1>1 DEF RequestOK, Tracks, Current
    <3>4. row.version = local[d].version =>
            IF local[d].deleted THEN x.deleted ELSE ~x.deleted /\ x.value = local[d].value
      BY <1>0, <1>1, <1>3 DEF RequestOK, Tracks
    <3>5. RecordOK(d, j)'
      BY <3>1, <3>2, <3>3, <3>4, <1>4 DEF RecordOK, Agrees, Holds
    <3> QED BY <3>1, <3>2, <3>5 DEF JobOK
  <2> QED BY <2>1, <2>2, <1>5
<1> QED BY <1>4, <1>7, <1>8, <1>9, <1>10, <1>11, OneDevice

LEMMA StoreFetchedKeeps == ASSUME IInv, NEW d \in Device, StoreFetched(d) PROVE IInv'
<1>0. PICK row \in Row, ver \in Nat, got \in Nat, v \in Value :
        job[d].row = row /\ job[d].ver = ver /\ job[d].got = got /\ job[d].value = v
  BY JobShape DEF StoreFetched, IInv, TypeOK
<1>1. StoreOK(d, job[d]) /\ local[d] \in Row /\ server \in Seq(Version) /\ Len(server) \in Nat
  BY DEF StoreFetched, IInv, TypeOK, JobOK
<1>2. CASE ~Unchanged(d, row.version)
  <2> DEFINE j == Done(ver)
  <2>1. Goes(d, j) /\ UNCHANGED <<local, server, reader, now, writes>> /\ syncs' \in [Device -> Nat]
    BY <1>0, <1>2 DEF StoreFetched, IInv, TypeOK
  <2>2. j \in Jobs /\ j.step = "done" /\ j.ver = ver
    BY <1>0 DEF Done, Jobs
  <2>3. local[d].remote = 0
    BY <1>0, <1>1, <1>2 DEF StoreOK, Tracks, Current, Unchanged, Row
  <2>4. JobOK(d, j)
    BY <1>0, <1>1, <2>2, <2>3 DEF JobOK, DoneOK, StoreOK
  <2> QED BY <2>1, <2>2, <2>4, QuietStep
<1>3. CASE Unchanged(d, row.version)
  <2> DEFINE j == Record(row.version + 1, got)
             next == Changed(d, v, row.deleted)
  <2>1. /\ Goes(d, j) /\ local' = [local EXCEPT ![d] = next]
        /\ UNCHANGED <<server, reader, now, writes, syncs>>
    BY <1>0, <1>3 DEF StoreFetched
  <2>2. /\ j \in Jobs /\ j.step = "record" /\ j.version = row.version + 1 /\ j.got = got
        /\ next \in Row /\ next.version = row.version + 1 /\ next.remote = 0 /\ next.value = v
    BY <1>0, <1>3 DEF Record, Jobs, Changed, Unchanged, Row, IInv, TypeOK
  <2> HIDE DEF j, next
  <2>3. TypeOK' /\ TimesOrdered' /\ Grows
    BY <2>1, <2>2, Unmoved DEF IInv, TypeOK, Goes, TimesOrdered
  <2>4. /\ job'[d] = j /\ local'[d] = next
        /\ \A e \in Device \ {d} : local'[e] = local[e] /\ job'[e] = job[e]
    BY <2>1 DEF Goes, IInv, TypeOK
  <2>5. RowAgrees(d)'
    BY <2>2, <2>4 DEF RowAgrees
  <2>6. Holds(got, v) /\ server' = server
    BY <1>0, <1>1, <2>1 DEF StoreOK
  <2>7. RecordOK(d, job[d])'
    BY <2>2, <2>4, <2>6 DEF RecordOK, Agrees, Buried, Current, Holds, Row
  <2>8. JobOK(d, job[d])'
    BY <2>2, <2>4, <2>7 DEF JobOK
  <2> QED BY <2>3, <2>4, <2>5, <2>8, OneDevice
<1> QED BY <1>2, <1>3

LEMMA SetRemoteVersionKeeps == ASSUME IInv, NEW d \in Device, SetRemoteVersion(d) PROVE IInv'
<1>0. PICK version \in Nat, got \in Nat : job[d].version = version /\ job[d].got = got
  BY JobShape DEF SetRemoteVersion, IInv, TypeOK
<1>1. RecordOK(d, job[d]) /\ local[d] \in Row /\ server \in Seq(Version) /\ Len(server) \in Nat
  BY DEF SetRemoteVersion, IInv, TypeOK, JobOK
<1>2. CASE ~Unchanged(d, version)
  <2>1. Goes(d, Idle) /\ UNCHANGED <<local, server, reader, now, writes>> /\ syncs' \in [Device -> Nat]
    BY <1>0, <1>2 DEF SetRemoteVersion, IInv, TypeOK
  <2>2. Idle \in Jobs /\ JobOK(d, Idle)
    BY DEF Idle, Jobs, JobOK
  <2> QED BY <2>1, <2>2, QuietStep
<1>3. CASE Unchanged(d, version)
  <2> DEFINE j == Done(got)
             next == Recorded(d, got)
  <2>1. /\ Goes(d, j) /\ local' = [local EXCEPT ![d] = next]
        /\ UNCHANGED <<server, reader, now, writes, syncs>>
    BY <1>0, <1>3 DEF SetRemoteVersion
  <2>2. /\ j \in Jobs /\ j.step = "done" /\ j.ver = got
        /\ next \in Row /\ next.remote = got
        /\ next.value = local[d].value /\ next.deleted = local[d].deleted
    BY <1>0, RecordedRow DEF Done, Jobs, IInv
  <2> HIDE DEF j, next
  <2>3. TypeOK' /\ TimesOrdered' /\ Grows
    BY <2>1, <2>2, Unmoved DEF IInv, TypeOK, Goes, TimesOrdered
  <2>4. /\ job'[d] = j /\ local'[d] = next
        /\ \A e \in Device \ {d} : local'[e] = local[e] /\ job'[e] = job[e]
    BY <2>1 DEF Goes, IInv, TypeOK
  <2>5. /\ got \in DOMAIN server /\ server' = server
        /\ Same(local[d], got)
    BY <1>0, <1>1, <1>3, <2>1 DEF RecordOK, Unchanged, Same
  <2>6. RowAgrees(d)'
    BY <1>1, <2>2, <2>4, <2>5 DEF RowAgrees, Same, Agrees, Buried, Holds
  <2>7. JobOK(d, job[d])'
    BY <2>2, <2>4, <2>5 DEF JobOK, DoneOK
  <2> QED BY <2>3, <2>4, <2>6, <2>7, OneDevice
<1> QED BY <1>2, <1>3

LEMMA NextKeeps == IInv /\ [Next]_vars => IInv'
<1> SUFFICES ASSUME IInv, [Next]_vars PROVE IInv'
  OBVIOUS
<1>1. CASE UNCHANGED vars
  BY <1>1, StutterKeeps
<1>2. CASE Tick
  BY <1>2, TickKeeps
<1>3. ASSUME NEW d \in Device, ReadVersion(d) \/ Set(d) \/ Delete(d) \/ Sync(d)
      PROVE  IInv'
  <2>1. CASE ReadVersion(d) \/ Set(d) \/ Delete(d)
    BY <2>1, ReadVersionKeeps, SetKeeps, DeleteKeeps
  <2>2. CASE Sync(d)
    BY <2>2, ListKeeps, CompareKeeps, ReplaceKeeps, FetchKeeps, FetchGoneKeeps, AbandonKeeps,
       StoreFetchedKeeps, SetRemoteVersionKeeps DEF Sync
  <2> QED BY <1>3, <2>1, <2>2
<1> QED BY <1>1, <1>2, <1>3 DEF Next

-----------------------------------------------------------------------------
(***************************************************************************)
(* The theorems.                                                           *)
(***************************************************************************)

\* The inductive invariant of the table, the server and the syncs under way holds.
THEOREM Invariance == Spec => []IInv
<1>1. Init => IInv
  BY InitHolds
<1>2. IInv /\ [Next]_vars => IInv'
  BY NextKeeps
<1> QED BY <1>1, <1>2, PTL DEF Spec

\* A row that setRemoteVersion has recorded as synced is what the server has, its
\* deletion included, or a value that was fetched over a deletion.
THEOREM RecordedIsTrue == Spec => []RecordedAgrees
<1>1. IInv => RecordedAgrees
  BY DEF IInv
<1> QED BY <1>1, Invariance, PTL

\* While the server has nothing newer than what a sync went through with, the
\* device has the server's version, or a change of its own, or a value that was
\* fetched over a deletion.
THEOREM SyncIsCurrent == Spec => []SyncedIsCurrent
<1>1. IInv => SyncedIsCurrent
  <2> SUFFICES ASSUME IInv, NEW d \in Device, job[d].step = "done", job[d].ver = Len(server)
               PROVE  \/ local[d].remote = 0
                      \/ local[d].remote = Len(server) /\ Same(local[d], Len(server))
    BY DEF SyncedIsCurrent, Same
  <2>1. local[d].remote \in {0, Len(server)} /\ local[d].remote \in Nat
    BY DEF IInv, TypeOK, JobOK, DoneOK, Row
  <2>2. local[d].remote > 0 => Same(local[d], local[d].remote)
    BY DEF IInv, RecordedAgrees, Same
  <2> QED BY <2>1, <2>2
<1> QED BY <1>1, Invariance, PTL

\* One step of LaterWriteWins.
LaterWins ==
  \A d \in Device :
    (local[d].remote = 0 /\ local'[d].value # local[d].value /\ writes' = writes) =>
      \E i \in DOMAIN server :
        server[i].value = local'[d].value /\ server[i].time > local[d].time

\* Only storing what was fetched changes a value, and only of the row that was compared.
LEMMA NextLaterWins == IInv /\ [Next]_vars => [LaterWins]_vars
<1> SUFFICES ASSUME IInv, Next,
                    NEW d \in Device, local[d].remote = 0, local'[d].value # local[d].value,
                    writes' = writes
             PROVE  \E i \in DOMAIN server :
                      server[i].value = local'[d].value /\ server[i].time > local[d].time
  BY DEF LaterWins
<1>1. /\ writes \in Nat /\ local \in [Device -> Row] /\ job \in [Device -> Jobs]
      /\ server \in Seq(Version)
  BY KVStoreAssumption DEF IInv, TypeOK
<1>2. PICK e \in Device : Sync(e)
  <2>1. ~Tick /\ \A e \in Device : ~ReadVersion(e)
    BY DEF Tick, ReadVersion
  <2>2. \A e \in Device : ~Set(e) /\ ~Delete(e)
    <3>1. \A e \in Device : \A row : ~Write(e, row)
      BY <1>1 DEF Write
    <3> QED BY <3>1 DEF Set, Delete
  <2> QED BY <2>1, <2>2 DEF Next
<1>3. CASE StoreFetched(e)
  <2>1. Unchanged(e, job[e].row.version) /\ e = d
    BY <1>1, <1>2, <1>3 DEF StoreFetched
  <2>2. local' = [local EXCEPT ![d] = Changed(d, job[d].value, job[d].row.deleted)]
    BY <1>3, <2>1 DEF StoreFetched
  <2>3. local'[d].value = job[d].value
    BY <1>1, <2>2 DEF Changed
  <2>4. StoreOK(d, job[d])
    BY <1>3, <2>1 DEF StoreFetched, IInv, JobOK
  <2>5. job[d].row = local[d]
    BY <2>1, <2>4 DEF StoreOK, Tracks, Unchanged
  <2>6. /\ job[d].got \in DOMAIN server /\ server[job[d].got].value = job[d].value
        /\ local[d].time < server[job[d].got].time
    BY <2>4, <2>5 DEF StoreOK, Holds
  <2>7. local[d].time \in Nat /\ server[job[d].got].time \in Nat
    BY <1>1, <2>6, VersionShape DEF Row, IInv
  <2> QED BY <2>3, <2>6, <2>7
<1>4. CASE SetRemoteVersion(e)
  <2>1. \A f \in Device : local'[f].value = local[f].value
    <3>1. /\ local' = local \/ local' = [local EXCEPT ![e] = Recorded(e, job[e].got)]
          /\ job[e].got \in Nat
      BY <1>1, <1>4, JobShape DEF SetRemoteVersion
    <3>2. Recorded(e, job[e].got).value = local[e].value
      BY <3>1, RecordedRow DEF IInv
    <3> HIDE DEF Recorded
    <3> QED BY <1>1, <3>1, <3>2
  <2> QED BY <2>1
<1> QED BY <1>2, <1>3, <1>4 DEF Sync, List, Compare, Replace, Fetch, FetchGone, Abandon

\* No sync undoes a change that the server did not get before it.
THEOREM NoChangeUndone == Spec => LaterWriteWins
<1>1. IInv /\ [Next]_vars => [LaterWins]_vars
  BY NextLaterWins
<1> QED BY <1>1, Invariance, PTL DEF LaterWriteWins, LaterWins, Spec
=============================================================================

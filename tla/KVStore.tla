------------------------------- MODULE KVStore -------------------------------
(***************************************************************************)
(* The replicated key value store, ReplicatedKVStore.java: devices that    *)
(* write and delete one key (keys do not depend on each other) and sync    *)
(* it with a server, the last write winning.                               *)
(*                                                                         *)
(* A device's table holds a row for every version of the key and only the  *)
(* last one is read.  set, delete and setRemoteVersion are synchronised    *)
(* and write in a database transaction, so each is a step; a sync reads,   *)
(* asks the server and writes in steps of their own, and the process may   *)
(* die between any two.  The server's answers are those that               *)
(* RemoteKVStore.java makes of its responses; a request may be lost, or    *)
(* its answer.  The clocks agree.                                          *)
(***************************************************************************)
EXTENDS Integers, Sequences

CONSTANTS
  Device,
  MaxWrites,       \* bounds: writes and deletions, syncs of a device, time
  MaxSyncs,
  MaxTime

ASSUME KVStoreAssumption == MaxWrites \in Nat /\ MaxSyncs \in Nat /\ MaxTime \in Nat

VARIABLES
  local,           \* local[d]: the last row of d's table
  server,          \* the versions of the key; version i is server[i]
  reader,          \* reader[d]: the version that a writer of d has read, or NoReader
  job,             \* job[d]: where the sync of d stands
  now,
  writes,          \* writes and deletions so far, refused ones too
  syncs            \* syncs[d]: syncs that d has begun

vars == <<local, server, reader, job, now, writes, syncs>>

Value == 0..MaxWrites      \* a write is told by its number; 0 is no value

NoRow == [version |-> 0, remote |-> 0, value |-> 0, time |-> 0, deleted |-> FALSE]
NoReader == -1

Idle  == [step |-> "idle"]

Init ==
  /\ local = [d \in Device |-> NoRow] /\ server = <<>>
  /\ reader = [d \in Device |-> NoReader] /\ job = [d \in Device |-> Idle]
  /\ now = 1 /\ writes = 0 /\ syncs = [d \in Device |-> 0]

Tick == now < MaxTime /\ now' = now + 1 /\ UNCHANGED <<local, server, reader, job, writes, syncs>>

-----------------------------------------------------------------------------
(***************************************************************************)
(* The table.                                                              *)
(***************************************************************************)

\* the row that follows d's last: a change is not on the server yet
Changed(d, value, deleted) ==
  [version |-> local[d].version + 1, remote |-> 0, value |-> value, time |-> now, deleted |-> deleted]

\* mutant: writes whatever version is stored
Unchanged_Always(d, version) == TRUE

\* the version check of set, delete and setRemoteVersion
Unchanged(d, version) == local[d].version = version

\* a writer asks for the version first (localVersion)
ReadVersion(d) ==
  /\ reader[d] = NoReader
  /\ reader' = [reader EXCEPT ![d] = local[d].version]
  /\ UNCHANGED <<local, server, job, now, writes, syncs>>

Write(d, row) ==
  /\ reader[d] # NoReader /\ writes < MaxWrites
  /\ reader' = [reader EXCEPT ![d] = NoReader]
  /\ writes' = writes + 1
  /\ local' = IF Unchanged(d, reader[d]) THEN [local EXCEPT ![d] = row] ELSE local
  /\ UNCHANGED <<server, job, now, syncs>>

\* set: a conflict is only logged by the caller
Set(d) == Write(d, Changed(d, writes + 1, FALSE))

\* delete, which keeps the value and needs a row
Delete(d) == reader[d] > 0 /\ Write(d, Changed(d, local[d].value, TRUE))

-----------------------------------------------------------------------------
(***************************************************************************)
(* A sync.                                                                 *)
(***************************************************************************)

Listed(ver, time)         == [step |-> "listed", ver |-> ver, time |-> time]
Request(step, ver, row)   == [step |-> step, ver |-> ver, row |-> row]
Store(ver, row, value, v) == [step |-> "store", ver |-> ver, row |-> row, value |-> value, got |-> v]
Record(version, v)        == [step |-> "record", version |-> version, got |-> v]
Done(ver)                 == [step |-> "done", ver |-> ver]

Goes(d, next) == job' = [job EXCEPT ![d] = next]

\* syncAllKeys: the version and time the server has, or none for a key that only
\* this device has; that the server's version is deleted is not looked at
List(d) ==
  /\ job[d].step \in {"idle", "done"} /\ syncs[d] < MaxSyncs
  /\ server # <<>> \/ local[d].version > 0
  /\ syncs' = [syncs EXCEPT ![d] = @ + 1]
  /\ Goes(d, IF server = <<>> THEN Listed(0, 0) ELSE Listed(Len(server), server[Len(server)].time))
  /\ UNCHANGED <<local, server, reader, now, writes>>

\* mutant: any recorded version will do
UpToDate_Any(d) == local[d].remote > 0

UpToDate(d) == job[d].ver > 0 /\ local[d].remote = job[d].ver

\* _syncKey: nothing to do, or the later of the two rows wins
Compare(d) ==
  LET row == local[d]
  IN /\ job[d].step = "listed"
     /\ Goes(d, IF UpToDate(d) THEN Done(job[d].ver)
                ELSE Request(CASE row.time < job[d].time -> "get"
                               [] row.time >= job[d].time /\ row.deleted -> "del"
                               [] OTHER -> "put", job[d].ver, row))
     /\ UNCHANGED <<local, server, reader, now, writes, syncs>>

\* the version that a put or del names: 1 for a key that is new to the server
Expected(d) ==
  LET j == job[d]
  IN IF j.step = "put" /\ (j.ver = 0 \/ j.ver < j.row.remote) THEN 1 ELSE j.ver

\* The server takes a put or a del that names its version, or creates the key; it
\* may give a deletion the time of what is deleted.  The answer may be lost.
Replace(d) ==
  LET row == job[d].row
  IN /\ job[d].step \in {"put", "del"}
     /\ \/ server = <<>> /\ job[d].step = "put" /\ Expected(d) = 1
        \/ server # <<>> /\ Expected(d) = Len(server)
     /\ IF job[d].step = "put"
        THEN server' = Append(server, [value |-> row.value, time |-> now, deleted |-> FALSE])
        ELSE \E time \in {server[Len(server)].time, now} :
               server' = Append(server, [server[Len(server)] EXCEPT !.deleted = TRUE, !.time = time])
     /\ Goes(d, Record(row.version, Len(server'))) \/ Goes(d, Idle)
     /\ UNCHANGED <<local, reader, now, writes, syncs>>

\* get gives the server's row, which may be a later one than was listed
Fetch(d) ==
  /\ job[d].step = "get" /\ ~server[Len(server)].deleted
  /\ Goes(d, Store(job[d].ver, job[d].row, server[Len(server)].value, Len(server)))
  /\ UNCHANGED <<local, server, reader, now, writes, syncs>>

\* get of a deleted key: the answer is taken for an error, the sync of the key fails
FetchGone(d) ==
  /\ job[d].step = "get" /\ server[Len(server)].deleted
  /\ Goes(d, Idle)
  /\ UNCHANGED <<local, server, reader, now, writes, syncs>>

\* a request that is lost or refused ends the sync of the key; the process may
\* die at any step
Abandon(d) ==
  /\ job[d].step \notin {"idle", "done"}
  /\ Goes(d, Idle)
  /\ UNCHANGED <<local, server, reader, now, writes, syncs>>

\* _set of the fetched value, with the local row's mark of deletion; a conflict
\* counts as success
StoreFetched(d) ==
  LET j == job[d]
  IN /\ j.step = "store"
     /\ IF Unchanged(d, j.row.version)
        THEN /\ local' = [local EXCEPT ![d] = Changed(d, j.value, j.row.deleted)]
             /\ Goes(d, Record(j.row.version + 1, j.got))
        ELSE Goes(d, Done(j.ver)) /\ UNCHANGED local
     /\ UNCHANGED <<server, reader, now, writes, syncs>>

\* the row that follows d's last when the server has it
Recorded(d, got) ==
  [version |-> local[d].version + 1, remote |-> got, value |-> local[d].value, time |-> now,
   deleted |-> local[d].deleted]

\* setRemoteVersion
SetRemoteVersion(d) ==
  LET j == job[d]
  IN /\ j.step = "record"
     /\ IF Unchanged(d, j.version)
        THEN /\ local' = [local EXCEPT ![d] = Recorded(d, j.got)]
             /\ Goes(d, Done(j.got))
        ELSE Goes(d, Idle) /\ UNCHANGED local
     /\ UNCHANGED <<server, reader, now, writes, syncs>>

Sync(d) ==
  List(d) \/ Compare(d) \/ Replace(d) \/ Fetch(d) \/ FetchGone(d) \/ Abandon(d)
    \/ StoreFetched(d) \/ SetRemoteVersion(d)

Next == Tick \/ \E d \in Device : ReadVersion(d) \/ Set(d) \/ Delete(d) \/ Sync(d)

Spec == Init /\ [][Next]_vars

-----------------------------------------------------------------------------
Row  == [version : Nat, remote : Nat, value : Value, time : Nat, deleted : BOOLEAN]
Version == [value : Value, time : Nat, deleted : BOOLEAN]
Jobs == [step : {"idle"}] \cup [step : {"done"}, ver : Nat]
        \cup [step : {"listed"}, ver : Nat, time : Nat]
        \cup [step : {"put", "del", "get"}, ver : Nat, row : Row]
        \cup [step : {"store"}, ver : Nat, row : Row, value : Value, got : Nat]
        \cup [step : {"record"}, version : Nat, got : Nat]

TypeOK ==
  /\ local \in [Device -> Row]
  /\ server \in Seq(Version)
  /\ reader \in [Device -> Nat \cup {NoReader}]
  /\ job \in [Device -> Jobs]
  /\ now \in Nat /\ writes \in 0..MaxWrites /\ syncs \in [Device -> Nat]

\* version i of the server is a value, namely v
Holds(i, v) == i \in DOMAIN server /\ ~server[i].deleted /\ server[i].value = v

\* row is what the server has in version i: its value, or deleted both
Agrees(row, i) ==
  IF row.deleted THEN i \in DOMAIN server /\ server[i].deleted ELSE Holds(i, row.value)

\* row is deleted although the server has its value in version i: the value was
\* fetched over a deletion, whose mark _set keeps
Buried(row, i) == row.deleted /\ Holds(i, row.value)

\* A row with a recorded server version, which no sync will look at again until
\* the server has another, is what the server has in that version, deleted or
\* not, whatever was written between the steps of the sync.  The one exception
\* is a newer value fetched over a deletion: the device has it marked as deleted
\* and the server has it live, where _syncKey says "overwrite ours" (line 479).
RecordedAgrees ==
  \A d \in Device :
    LET row == local[d]
    IN row.remote > 0 => Agrees(row, row.remote) \/ Buried(row, row.remote)

\* A local change that is not on the server gives way only to what the server got
\* after it: no sync overwrites what was written since it has read the row.
LaterWriteWins ==
  [][\A d \in Device :
       (local[d].remote = 0 /\ local'[d].value # local[d].value /\ writes' = writes) =>
         \E i \in DOMAIN server :
           server[i].value = local'[d].value /\ server[i].time > local[d].time]_vars

\* While the server has nothing newer than what a sync went through with, the
\* device has that version, and has it deleted if the server's is, or has a change
\* of its own which is for a later sync.  The exception is again a value fetched
\* over a deletion.  A sync that meets a deletion by another device fails.
SyncedIsCurrent ==
  \A d \in Device :
    LET row == local[d]
        n   == Len(server)
    IN (job[d].step = "done" /\ job[d].ver = n) =>
         \/ row.remote = 0
         \/ row.remote = n /\ (Agrees(row, n) \/ Buried(row, n))

-----------------------------------------------------------------------------
(***************************************************************************)
(* The inductive invariant: what a sync still knows of the table and of    *)
(* the server when it makes its next step.                                 *)
(***************************************************************************)

\* later versions of the server are not older
TimesOrdered ==
  /\ \A i \in DOMAIN server : server[i].time <= now
  /\ \A i, k \in DOMAIN server : i <= k => server[i].time <= server[k].time

\* d's table holds row, or has had a change of its own since it did
Current(d, version) ==
  /\ version <= local[d].version
  /\ version < local[d].version => local[d].remote = 0

Tracks(d, row) == Current(d, row.version) /\ (row.version = local[d].version => row = local[d])

ListedOK(d, j) == j.ver <= Len(server) /\ j.time = (IF j.ver = 0 THEN 0 ELSE server[j.ver].time)

RequestOK(d, j) ==
  /\ j.ver <= Len(server) /\ Tracks(d, j.row)
  /\ j.step = "get" => j.ver > 0 /\ j.row.time < server[j.ver].time
  /\ j.step = "del" => j.row.deleted
  /\ j.step = "put" => ~j.row.deleted

StoreOK(d, j) ==
  /\ j.ver \in DOMAIN server /\ Tracks(d, j.row)
  /\ Holds(j.got, j.value) /\ j.row.time < server[j.got].time

RecordOK(d, j) ==
  /\ j.got \in DOMAIN server /\ Current(d, j.version)
  /\ j.version = local[d].version => Agrees(local[d], j.got) \/ Buried(local[d], j.got)

DoneOK(d, j) ==
  /\ j.ver \in DOMAIN server
  /\ j.ver = Len(server) => local[d].remote \in {0, j.ver}

JobOK(d, j) ==
  /\ j.step = "listed" => ListedOK(d, j)
  /\ j.step \in {"put", "del", "get"} => RequestOK(d, j)
  /\ j.step = "store" => StoreOK(d, j)
  /\ j.step = "record" => RecordOK(d, j)
  /\ j.step = "done" => DoneOK(d, j)

IInv == TypeOK /\ RecordedAgrees /\ TimesOrdered /\ \A d \in Device : JobOK(d, job[d])
=============================================================================

------------------------------ MODULE RunArtifacts ------------------------------
(*****************************************************************************)
(* The artifacts of one run: the files that its executions and the skill       *)
(* installer write, the records that InMemoryArtifactStore keeps of them, and   *)
(* the artifact.created events from which the records are rebuilt after the    *)
(* process has been restarted.                                                *)
(*                                                                           *)
(* Three threads use the store: the execution, which registers at its end what *)
(* write_file has written, a skill installation, and task.artifacts.list, whose *)
(* first request since the start of the process restores the records.  Each    *)
(* takes the store's lock for one step at a time.                            *)
(*****************************************************************************)
EXTENDS Naturals, Sequences, FiniteSets, SequencesExt

CONSTANTS
  Outputs,     \* paths that the agent writes
  Reports,     \* paths of the report files of a skill installation
  MaxWrites,   \* bounds the writes of the whole history
  MaxEvents,   \* bounds the artifact.created events
  MaxRestarts  \* bounds the restarts of the runtime process

Paths   == Outputs \cup Reports
Writers == {"execution", "installer"}

VARIABLES
  file,      \* [Paths -> the number of the write it holds; 0 if there is no file]
  writes,    \* writes there have been
  records,   \* _artifacts of the run: a sequence of records id, path, write
  hosts,     \* ids in _artifact_paths
  issued,    \* ids that new_artifact_id has returned
  log,       \* artifact.created events in the durable event store
  fresh,     \* how many of them this process has not published
  count,     \* RunState.artifact_count
  loaded,    \* the run is in _rehydrated_artifact_runs
  job,       \* [Writers -> where the thread is, what is left to register]
  loading,   \* the events that task.artifacts.list has still to restore
  restarts

avars == <<file, writes, records, hosts, issued, log, fresh, count, loaded, job, loading, restarts>>

NoRecord == [id |-> 0, path |-> CHOOSE p \in Paths : TRUE, write |-> 0]

(* base: artifact_count as the execution read it when it began; known: the      *)
(* paths that the installation found registered.                             *)
Idle == [at |-> "idle", todo |-> <<>>, base |-> 0, known |-> {}, record |-> NoRecord]

Artifact == [id : 1..issued, path : Paths, write : 1..MaxWrites]

TypeOK ==
  /\ file \in [Paths -> 0..MaxWrites] /\ writes \in 0..MaxWrites
  /\ records \in Seq(Artifact) /\ log \in Seq(Artifact) /\ hosts \subseteq 1..issued
  /\ fresh \in 0..Len(log) /\ count \in 0..MaxEvents + 2 /\ loaded \in BOOLEAN
  /\ \A w \in Writers :
       /\ job[w].at \in {"idle", "run", "write", "prepare", "store", "tally", "publish", "dead"}
       /\ ToSet(job[w].todo) \subseteq Paths /\ job[w].record \in Artifact \cup {NoRecord}
  /\ ToSet(loading) \subseteq Artifact \cup {NoRecord} /\ restarts \in 0..MaxRestarts

Init ==
  /\ file = [p \in Paths |-> 0] /\ writes = 0
  /\ records = <<>> /\ hosts = {} /\ issued = 0
  /\ log = <<>> /\ fresh = 0 /\ count = 0 /\ loaded = FALSE
  /\ job = [w \in Writers |-> Idle] /\ loading = <<>> /\ restarts = 0

-----------------------------------------------------------------------------
PathsOf(rs) == {rs[i].path : i \in DOMAIN rs}
IdsOf(rs)   == {rs[i].id : i \in DOMAIN rs}

(* The i-th record is replaced; if there is none, the record is added.          *)
Upserted(i, record) ==
  IF i = 0 THEN Append(records, record) ELSE [records EXCEPT ![i] = record]

Written(p) ==
  /\ writes < MaxWrites
  /\ writes' = writes + 1
  /\ file' = [file EXCEPT ![p] = writes + 1]

Store == <<records, hosts, issued, log, fresh, count>>

(* The execution thread.                                                     *)
Execute ==
  /\ job["execution"].at = "idle"
  /\ job' = [job EXCEPT !["execution"] = [Idle EXCEPT !.at = "run", !.base = count]]
  /\ UNCHANGED <<file, writes, Store, loaded, loading, restarts>>

(* write_file; a path is an output once, however often it is written.          *)
WriteOutput(p) ==
  /\ job["execution"].at = "run"
  /\ Written(p)
  /\ job' = [job EXCEPT !["execution"].todo = IF p \in ToSet(@) THEN @ ELSE Append(@, p)]
  /\ UNCHANGED <<Store, loaded, loading, restarts>>

(* execute_command of rm.                                                    *)
RemoveFile(p) ==
  /\ job["execution"].at = "run" /\ file[p] # 0
  /\ file' = [file EXCEPT ![p] = 0]
  /\ UNCHANGED <<writes, Store, loaded, job, loading, restarts>>

(* What follows the registration of a path.                                  *)
NextPath(w, rest) ==
  IF rest = <<>> THEN Idle
  ELSE [job[w] EXCEPT !.at = IF w = "execution" THEN "prepare" ELSE "write",
                      !.todo = rest, !.record = NoRecord]

(* harness.execute returns: an interrupted execution and a failed one have no   *)
(* output_artifacts, whatever was written.                                    *)
Return ==
  /\ job["execution"].at = "run"
  /\ \E todo \in {job["execution"].todo, <<>>} :
       job' = [job EXCEPT !["execution"] = NextPath("execution", todo)]
  /\ UNCHANGED <<file, writes, Store, loaded, loading, restarts>>

(* skill.install, by the tool or by a client: a file of each report that is    *)
(* not empty.                                                                *)
Install(todo) ==
  /\ job["installer"].at = "idle"
  /\ job' = [job EXCEPT !["installer"] =
               [Idle EXCEPT !.at = "write", !.todo = todo, !.known = PathsOf(records)]]
  /\ UNCHANGED <<file, writes, Store, loaded, loading, restarts>>

WriteReport ==
  /\ job["installer"].at = "write"
  /\ Written(Head(job["installer"].todo))
  /\ job' = [job EXCEPT !["installer"].at = "prepare"]
  /\ UNCHANGED <<Store, loaded, loading, restarts>>

-----------------------------------------------------------------------------
(* register_artifact, before the lock: the file must exist, and the id is the   *)
(* one that the path has in the store.  A file that is gone is a ValueError     *)
(* outside every try: the thread ends.                                        *)
Prepare(w) ==
  LET p   == Head(job[w].todo)
      old == SelectInSeq(records, LAMBDA r : r.path = p)
      id  == IF old = 0 THEN issued + 1 ELSE records[old].id
  IN
  /\ job[w].at = "prepare"
  /\ \/ /\ file[p] = 0
        /\ job' = [job EXCEPT ![w] = [Idle EXCEPT !.at = "dead"]]
        /\ UNCHANGED issued
     \/ /\ file[p] # 0
        /\ job' = [job EXCEPT ![w].at = "store",
                              ![w].record = [id |-> id, path |-> p, write |-> file[p]]]
        /\ issued' = IF old = 0 THEN issued + 1 ELSE issued
  /\ UNCHANGED <<file, writes, records, hosts, log, fresh, count, loaded, loading, restarts>>

(* Mutant of Register: the records are looked through for the id only.         *)
RegisterById(w) ==
  LET r == job[w].record IN
  /\ job[w].at = "store"
  /\ records' = Upserted(SelectInSeq(records, LAMBDA x : x.id = r.id), r)
  /\ hosts' = hosts \cup {r.id}
  /\ job' = [job EXCEPT ![w].at = "tally"]
  /\ UNCHANGED <<file, writes, issued, log, fresh, count, loaded, loading, restarts>>

(* register_artifact, under the lock.                                        *)
Register(w) ==
  LET r == job[w].record IN
  /\ job[w].at = "store"
  /\ records' = Upserted(SelectInSeq(records, LAMBDA x : x.path = r.path), r)
  /\ hosts' = hosts \cup {r.id}
  /\ job' = [job EXCEPT ![w].at = "tally"]
  /\ UNCHANGED <<file, writes, issued, log, fresh, count, loaded, loading, restarts>>

(* The execution counts from what it read when it began; the installation adds  *)
(* one to the record, if it did not know the path.                           *)
Tally(w) ==
  LET j == job[w] IN
  /\ j.at = "tally"
  /\ count' = IF w = "execution" THEN j.base + 1
              ELSE IF j.record.path \in j.known THEN count ELSE count + 1
  /\ job' = [job EXCEPT ![w].at = "publish", ![w].base = @ + 1,
                        ![w].known = @ \cup {j.record.path}]
  /\ UNCHANGED <<file, writes, records, hosts, issued, log, fresh, loaded, loading, restarts>>

(* artifact.created.                                                         *)
Publish(w) ==
  LET j == job[w] IN
  /\ j.at = "publish" /\ Len(log) < MaxEvents
  /\ log' = Append(log, j.record)
  /\ job' = [job EXCEPT ![w] = NextPath(w, Tail(j.todo))]
  /\ UNCHANGED <<file, writes, records, hosts, issued, fresh, count, loaded, loading, restarts>>

-----------------------------------------------------------------------------
(* Mutant of Load: the records are dropped, to be rebuilt.                    *)
LoadAfresh ==
  /\ ~loaded /\ loading = <<>>
  /\ loading' = log \o <<NoRecord>> /\ records' = <<>>
  /\ UNCHANGED <<file, writes, hosts, issued, log, fresh, count, loaded, job, restarts>>

(* task.artifacts.list and _ensure_artifacts_loaded: the events are read once.  *)
Load ==
  /\ ~loaded /\ loading = <<>>
  /\ loading' = log \o <<NoRecord>>
  /\ UNCHANGED <<file, writes, Store, loaded, job, restarts>>

(* Mutant of Restore: the path on the host is not remembered.                 *)
RestoreRecordOnly ==
  LET r == Head(loading) IN
  /\ loading # <<>> /\ r # NoRecord
  /\ records' = IF file[r.path] = 0 THEN records
                ELSE Upserted(SelectInSeq(records, LAMBDA x : x.id = r.id \/ x.path = r.path), r)
  /\ loading' = Tail(loading)
  /\ UNCHANGED <<file, writes, hosts, issued, log, fresh, count, loaded, job, restarts>>

(* restore_artifact; what has no file any more is passed over.                *)
Restore ==
  LET r == Head(loading) IN
  /\ loading # <<>> /\ r # NoRecord
  /\ IF file[r.path] = 0 THEN UNCHANGED <<records, hosts>>
     ELSE /\ records' = Upserted(SelectInSeq(records, LAMBDA x : x.id = r.id \/ x.path = r.path), r)
          /\ hosts' = hosts \cup {r.id}
  /\ loading' = Tail(loading)
  /\ UNCHANGED <<file, writes, issued, log, fresh, count, loaded, job, restarts>>

Loaded ==
  /\ loading = <<NoRecord>>
  /\ loading' = <<>> /\ loaded' = TRUE
  /\ UNCHANGED <<file, writes, Store, job, restarts>>

(* The process ends, in whatever state, and another one recovers the run.      *)
Restart ==
  /\ restarts < MaxRestarts
  /\ restarts' = restarts + 1
  /\ records' = <<>> /\ hosts' = {} /\ loaded' = FALSE /\ loading' = <<>>
  /\ job' = [w \in Writers |-> Idle]
  /\ count' = Len(log) /\ fresh' = Len(log)
  /\ UNCHANGED <<file, writes, issued, log>>

ReportLists == {todo \in UNION {[1..n -> Reports] : n \in 1..Cardinality(Reports)} :
                  IsInjective(todo)}

Next ==
  \/ Execute \/ Return
  \/ \E p \in Outputs : WriteOutput(p) \/ RemoveFile(p)
  \/ (\E todo \in ReportLists : Install(todo)) \/ WriteReport
  \/ \E w \in Writers : Prepare(w) \/ Register(w) \/ Tally(w) \/ Publish(w)
  \/ Load \/ Restore \/ Loaded
  \/ Restart

Spec == Init /\ [][Next]_avars

-----------------------------------------------------------------------------
(* However registering and restoring interleave, before and after a restart,   *)
(* task.artifacts.list shows a path once.                                     *)
OneRecordPerPath == \A i, j \in DOMAIN records : records[i].path = records[j].path => i = j

(* What this process has announced is in the list and can be previewed: the     *)
(* path on the host of its record is known, although the restoring of older     *)
(* events may replace records at the same time.                               *)
AnnouncedCanBePreviewed ==
  \A i \in fresh + 1..Len(log) : \E j \in DOMAIN records :
    records[j].path = log[i].path /\ records[j].id \in hosts

(* What a client is shown of the artifacts of a run.                            *)
ListIsFaithful == OneRecordPerPath /\ AnnouncedCanBePreviewed

(* What the protocol says of artifact_id: it is stable.  Refuted after a        *)
(* restart: a path that is written again before the records are restored gets  *)
(* another id, and the one that clients know is not found any more.           *)
ArtifactIdIsStable ==
  \A i, j \in DOMAIN log : log[i].path = log[j].path => log[i].id = log[j].id
=============================================================================

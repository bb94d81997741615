---------------------------- MODULE ParamsProofs ----------------------------
(***************************************************************************)
(* The parameter store, for every set of processes, keys and values and    *)
(* every number of calls, kills and power losses.                          *)
(*                                                                         *)
(* None of the properties is inductive.  What they need is where each      *)
(* operation is (JobsOK: a file gets its name only after its fsync, who    *)
(* works on the directory holds the lock, a snapshot agrees with the       *)
(* directory as far as it has been read), that everything a power loss may *)
(* leave has been synced (NothingTorn), and that the directory is ahead of *)
(* the disk only while a call is under way or after it was cut (InSync).   *)
(***************************************************************************)
EXTENDS Params, TLAPS

(* The steps between FileLock and its release.                             *)
Holding(j) == j.pc \in {"rename", "unlink", "clear", "dirsync", "read"}

(* Of one operation: its arguments are there while they are needed, and a  *)
(* value is renamed into place only when it is on disk.                    *)
JobOK(j) ==
    /\ j.pc \in {"write", "fsync", "rename"} => j.then = "rename"
    /\ j.pc \in {"unlink", "clear", "read"} => j.then = j.pc
    /\ j.pc = "lock" => j.then # ""
    /\ j.then = "rename" => j.key \in Keys /\ j.val \in Values
    /\ j.then = "unlink" => j.key \in Keys
    /\ j.pc = "push" => j.key \in Keys /\ j.val \in Values
    /\ j.pc \in {"lock", "rename"} /\ j.then = "rename" => j.synced
    /\ j.pc = "lock" /\ j.then = "read" => j.todo = Keys

JobsOK == \A a \in Actors : JobOK(job[a])

(* One actor at a time works on the directory.                             *)
LockHeld == \A a \in Actors : Holding(job[a]) => lock = a

(* As far as a snapshot has been read, it is the directory.                *)
SnapshotsAgree ==
    \A a \in Actors : At(a, "read") =>
        \A k \in Keys \ job[a].todo : job[a].snap[k] = dir[k].val

NothingTorn == \A d \in behind : \A k \in Keys : d[k].synced /\ d[k].val # "torn"

InSync == behind = {dir} \/ cut \/ \E a \in Actors : UnderWay(a)

PInv == TypeOK /\ JobsOK /\ LockHeld /\ SnapshotsAgree /\ NothingTorn /\ InSync
----------------------------------------------------------------------------
(* The record of an actor that does nothing, and of the calls.             *)
LEMMA IdleJob == Idle \in Job /\ JobOK(Idle) /\ ~Holding(Idle) /\ Idle.pc = "idle"
BY DEF Idle, Job, JobOK, Holding

(* put starts with its key and value, and ends in a rename.                *)
LEMMA WriteCall ==
    ASSUME NEW k \in Keys, NEW v \in Values
    PROVE  LET j == [Call("write", "rename") EXCEPT !.key = k, !.val = v]
           IN  j \in Job /\ JobOK(j) /\ j.pc = "write"
BY DEF Call, Idle, Job, JobOK

(* put_nonblocking has the key and value that it will push.                *)
LEMMA PushCall ==
    ASSUME NEW k \in Keys, NEW v \in Values
    PROVE  LET j == [Call("push", "") EXCEPT !.key = k, !.val = v]
           IN  j \in Job /\ JobOK(j) /\ j.pc = "push"
BY DEF Call, Idle, Job, JobOK

(* remove has the key that it will unlink.                                 *)
LEMMA RemoveCall ==
    ASSUME NEW k \in Keys
    PROVE  LET j == [Call("lock", "unlink") EXCEPT !.key = k]
           IN  j \in Job /\ JobOK(j) /\ j.pc = "lock"
BY DEF Call, Idle, Job, JobOK

(* clearAll and readAll need no key; a read has every key to do.           *)
LEMMA AllCalls ==
    /\ LET j == [Call("lock", "clear") EXCEPT !.todo = ClearKeys]
       IN  j \in Job /\ JobOK(j) /\ j.pc = "lock"
    /\ LET j == [Call("lock", "read") EXCEPT !.todo = Keys]
       IN  j \in Job /\ JobOK(j) /\ j.pc = "lock"
BY ClearKeysAssumption DEF Call, Idle, Job, JobOK

(* An empty queue is a queue.                                              *)
LEMMA EmptyQueue == << >> \in Seq(Keys \X Values)
OBVIOUS

(* A lock that is free is held by no actor.                                *)
LEMMA LockIsNobodys == NoLock \notin Actors
BY DEF NoLock, Actors

----------------------------------------------------------------------------
(* The types of the variables that the other invariants do not mention.    *)
RestOK == /\ thread \in [Procs -> {"none", "running", "exiting"}]
          /\ queue \in [Procs -> Seq(Keys \X Values)]
          /\ left \in [calls : Nat, kills : Nat, losses : Nat]

(* A step of one actor that leaves the directory alone.                    *)
LEMMA QuietStep ==
    ASSUME PInv, RestOK', UNCHANGED <<dir, behind, cut>>,
           NEW a \in Actors, NEW j \in Job, job' = [job EXCEPT ![a] = j],
           JobOK(j), lock' \in Actors \cup {NoLock},
           Holding(j) => lock' = a,
           lock' = lock \/ lock = NoLock \/ Holding(job[a]),
           j.pc = "read" => \A k \in Keys \ j.todo : j.snap[k] = dir[k].val,
           UnderWay(a) => j.pc \in {"dirsync", "clear"}
    PROVE  PInv'
<1>0. TypeOK /\ job \in [Actors -> Job] BY DEF PInv, TypeOK
<1>1. job'[a] = j /\ \A b \in Actors \ {a} : job'[b] = job[b]  BY <1>0
<1>2. TypeOK'
  <2>1. job' \in [Actors -> Job] BY <1>0
  <2> QED BY <1>0, <2>1 DEF TypeOK, RestOK
<1>3. JobsOK' BY <1>1 DEF JobsOK, PInv
<1>4. LockHeld'
  <2> SUFFICES ASSUME NEW b \in Actors, b # a, Holding(job[b]) PROVE lock' = b
      BY <1>1 DEF LockHeld
  <2>1. lock = b BY DEF PInv, LockHeld
  <2>2. lock # NoLock BY <2>1, LockIsNobodys
  <2>3. ~Holding(job[a]) BY <2>1 DEF PInv, LockHeld
  <2> QED BY <2>1, <2>2, <2>3
<1>5. SnapshotsAgree'
  <2> SUFFICES ASSUME NEW b \in Actors, job'[b].pc = "read"
               PROVE  \A k \in Keys \ job'[b].todo : job'[b].snap[k] = dir'[k].val
      BY DEF SnapshotsAgree, At
  <2>1. CASE b = a BY <2>1, <1>1
  <2>2. CASE b # a BY <2>2, <1>1 DEF PInv, SnapshotsAgree, At
  <2> QED BY <2>1, <2>2
<1>6. NothingTorn' BY DEF PInv, NothingTorn
<1>7. InSync'
  <2>1. CASE behind = {dir} \/ cut BY <2>1 DEF InSync
  <2>2. CASE \E b \in Actors : UnderWay(b)
    <3>1. PICK b \in Actors : UnderWay(b) BY <2>2
    <3>2. UnderWay(b)' BY <3>1, <1>1 DEF UnderWay
    <3> QED BY <3>2 DEF InSync
  <2> QED BY <2>1, <2>2 DEF PInv, InSync
<1> QED BY <1>2, <1>3, <1>4, <1>5, <1>6, <1>7 DEF PInv

(* A step of the actor that holds the lock and changes the directory.      *)
LEMMA DirStep ==
    ASSUME PInv, RestOK', UNCHANGED <<lock, cut>>,
           NEW d \in [Keys -> File], SetDir(d),
           \A k \in Keys : d[k].synced /\ d[k].val # "torn",
           NEW a \in Actors, NEW j \in Job, job' = [job EXCEPT ![a] = j],
           JobOK(j), Holding(job[a]), j.pc \in {"dirsync", "clear"}
    PROVE  PInv'
<1>0. TypeOK /\ job \in [Actors -> Job] BY DEF PInv, TypeOK
<1>1. job'[a] = j /\ \A b \in Actors \ {a} : job'[b] = job[b]  BY <1>0
<1>2. TypeOK'
  <2>1. job' \in [Actors -> Job] BY <1>0
  <2>2. dir' \in [Keys -> File] /\ behind' \subseteq [Keys -> File] /\ dir' \in behind'
      BY <1>0 DEF TypeOK, SetDir
  <2> QED BY <1>0, <2>1, <2>2 DEF TypeOK, RestOK
<1>3. JobsOK' BY <1>1 DEF JobsOK, PInv
<1>4. lock = a BY DEF PInv, LockHeld
<1>5. \A b \in Actors \ {a} : ~Holding(job'[b]) BY <1>1, <1>4 DEF PInv, LockHeld
<1>6. LockHeld' BY <1>4, <1>5 DEF LockHeld
<1>7. SnapshotsAgree' BY <1>1, <1>5 DEF SnapshotsAgree, At, Holding
<1>8. NothingTorn' BY DEF PInv, NothingTorn, SetDir
<1>9. InSync' BY <1>1 DEF InSync, UnderWay
<1> QED BY <1>2, <1>3, <1>6, <1>7, <1>8, <1>9 DEF PInv
----------------------------------------------------------------------------
(* The calls: a record takes the place of the idle one.                    *)
LEMMA StartStep ==
    ASSUME PInv, NEW p \in Procs, NEW op, NEW first \in Job, Start(p, op, first),
           JobOK(first), first.pc \in {"write", "push", "lock"}
    PROVE  PInv'
<1>1. Main(p) \in Actors BY DEF Main, Actors
<1>2. RestOK' BY DEF PInv, TypeOK, RestOK, Start
<1>3. ~UnderWay(Main(p)) BY DEF Start, At, UnderWay
<1>4. ~Holding(first) BY DEF Holding
<1>5. lock' \in Actors \cup {NoLock} /\ lock' = lock BY DEF PInv, TypeOK, Start
<1> QED BY <1>1, <1>2, <1>3, <1>4, <1>5, QuietStep DEF Start

(* A call begins with a job in order and touches nothing else.             *)
LEMMA CallsKeepInv ==
    ASSUME PInv, NEW p \in Procs,
           Put(p) \/ Remove(p) \/ ClearAll(p) \/ ReadAll(p) \/ PutNonBlocking(p)
    PROVE  PInv'
<1>1. CASE Put(p)
  <2>1. PICK k \in Keys, v \in Values :
            Start(p, "put", [Call("write", "rename") EXCEPT !.key = k, !.val = v])
      BY <1>1 DEF Put
  <2> QED BY <2>1, WriteCall, StartStep
<1>2. CASE Remove(p)
  <2>1. PICK k \in Keys : Start(p, "remove", [Call("lock", "unlink") EXCEPT !.key = k])
      BY <1>2 DEF Remove
  <2> QED BY <2>1, RemoveCall, StartStep
<1>3. CASE ClearAll(p) BY <1>3, AllCalls, StartStep DEF ClearAll
<1>4. CASE ReadAll(p)  BY <1>4, AllCalls, StartStep DEF ReadAll
<1>5. CASE PutNonBlocking(p)
  <2>1. PICK k \in Keys, v \in Values :
            Start(p, "put_nonblocking", [Call("push", "") EXCEPT !.key = k, !.val = v])
      BY <1>5 DEF PutNonBlocking
  <2> QED BY <2>1, PushCall, StartStep
<1> QED BY <1>1, <1>2, <1>3, <1>4, <1>5

(* An actor whose call ends without work on the directory.                 *)
LEMMA DoneStep ==
    ASSUME PInv, RestOK', UNCHANGED <<dir, behind, cut>>,
           NEW a \in Actors, Done(a), ~UnderWay(a),
           lock' = lock \/ (lock' = NoLock /\ Holding(job[a]))
    PROVE  PInv'
<1>1. job' = [job EXCEPT ![a] = Idle] BY DEF Done
<1>2. lock' \in Actors \cup {NoLock} BY DEF PInv, TypeOK
<1> QED BY <1>1, <1>2, IdleJob, QuietStep

(* An actor that goes on to a step outside the lock.                       *)
LEMMA GotoStep ==
    ASSUME PInv, RestOK', UNCHANGED <<dir, behind, lock, cut>>,
           NEW a \in Actors, NEW pc \in {"fsync", "spawn", "destroyed"}, Goto(a, pc),
           At(a, "write") \/ pc # "fsync",
           ~UnderWay(a)
    PROVE  PInv'
<1> DEFINE j == [job[a] EXCEPT !.pc = pc]
<1>0. job \in [Actors -> Job] /\ job[a] \in Job /\ JobOK(job[a]) BY DEF PInv, TypeOK, JobsOK
<1>1. job' = [job EXCEPT ![a] = j] BY <1>0 DEF Goto
<1>2. j \in Job /\ JobOK(j) /\ ~Holding(j) /\ j.pc = pc BY <1>0 DEF Job, JobOK, Holding, At
<1>3. lock' \in Actors \cup {NoLock} BY DEF PInv, TypeOK
<1> HIDE DEF j
<1> QED BY <1>1, <1>2, <1>3, QuietStep

(* The temporary file is written: it has no name yet.                      *)
LEMMA WriteKeepsInv == ASSUME PInv, NEW a \in Actors, Write(a) PROVE PInv'
<1>1. RestOK' BY DEF PInv, TypeOK, RestOK, Write
<1>2. ~UnderWay(a) BY DEF Write, At, UnderWay
<1>3. UNCHANGED <<dir, behind, lock, cut>> /\ lock' = lock /\ At(a, "write") BY DEF Write
<1>4. CASE Goto(a, "fsync") BY <1>1, <1>2, <1>3, <1>4, GotoStep
<1>5. CASE Done(a) BY <1>1, <1>2, <1>3, <1>5, DoneStep
<1> QED BY <1>4, <1>5 DEF Write

(* After its fsync the value may be renamed into place.                    *)
LEMMA FsyncKeepsInv == ASSUME PInv, NEW a \in Actors, Fsync(a) PROVE PInv'
<1>1. RestOK' BY DEF PInv, TypeOK, RestOK, Fsync
<1>2. ~UnderWay(a) BY DEF Fsync, At, UnderWay
<1>3. CASE job' = [job EXCEPT ![a].pc = "lock", ![a].synced = TRUE]
  <2> DEFINE j == [job[a] EXCEPT !.pc = "lock", !.synced = TRUE]
  <2>0. job \in [Actors -> Job] /\ job[a] \in Job /\ JobOK(job[a]) /\ job[a].pc = "fsync"
      BY DEF PInv, TypeOK, JobsOK, Fsync, At
  <2>1. job' = [job EXCEPT ![a] = j] BY <2>0, <1>3
  <2>2. j \in Job /\ JobOK(j) /\ ~Holding(j) /\ j.pc = "lock" BY <2>0 DEF Job, JobOK, Holding
  <2>3. lock' \in Actors \cup {NoLock} BY DEF PInv, TypeOK, Fsync
  <2> HIDE DEF j
  <2> QED BY <1>1, <1>2, <2>1, <2>2, <2>3, QuietStep DEF Fsync
<1>4. CASE Done(a)
  <2>1. UNCHANGED <<dir, behind, cut>> /\ lock' = lock BY DEF Fsync
  <2> QED BY <1>1, <1>2, <1>4, <2>1, DoneStep
<1> QED BY <1>3, <1>4 DEF Fsync

(* Only a free lock is taken.                                              *)
LEMMA FileLockKeepsInv == ASSUME PInv, NEW a \in Actors, FileLock(a) PROVE PInv'
<1> DEFINE j == [job[a] EXCEPT !.pc = job[a].then]
<1>0. job \in [Actors -> Job] /\ job[a] \in Job /\ JobOK(job[a]) /\ job[a].pc = "lock"
    BY DEF PInv, TypeOK, JobsOK, FileLock, At
<1>1. RestOK' BY DEF PInv, TypeOK, RestOK, FileLock
<1>2. job' = [job EXCEPT ![a] = j] BY <1>0 DEF FileLock, Goto
<1>3. j \in Job /\ JobOK(j) BY <1>0 DEF Job, JobOK
<1>4. j.pc = "read" => j.todo = Keys BY <1>0 DEF Job, JobOK
<1>5. ~UnderWay(a) BY <1>0 DEF UnderWay
<1> HIDE DEF j
<1> QED BY <1>1, <1>2, <1>3, <1>4, <1>5, QuietStep DEF FileLock

(* The value that gets its name is on disk, and nobody else is at work.    *)
LEMMA RenameKeepsInv == ASSUME PInv, NEW a \in Actors, Rename(a) PROVE PInv'
<1>0. /\ job \in [Actors -> Job] /\ job[a] \in Job /\ JobOK(job[a]) /\ job[a].pc = "rename"
      /\ dir \in [Keys -> File] /\ \A k \in Keys : dir[k].synced /\ dir[k].val # "torn"
    BY DEF PInv, TypeOK, JobsOK, Rename, At, NothingTorn
<1>1. RestOK' BY DEF PInv, TypeOK, RestOK, Rename
<1>2. Holding(job[a]) /\ ~UnderWay(a) BY <1>0 DEF UnderWay, Holding
<1>3. CASE Done(a) /\ lock' = NoLock /\ UNCHANGED <<dir, behind>>
    BY <1>1, <1>2, <1>3, DoneStep DEF Rename
<1>4. CASE /\ SetDir([dir EXCEPT ![job[a].key] = [val |-> job[a].val, synced |-> job[a].synced]])
           /\ Goto(a, "dirsync") /\ UNCHANGED lock
  <2> DEFINE j == [job[a] EXCEPT !.pc = "dirsync"]
             f == [val |-> job[a].val, synced |-> job[a].synced]
             d == [dir EXCEPT ![job[a].key] = f]
  <2>1. job[a].key \in Keys /\ job[a].val \in Values /\ job[a].synced = TRUE
      BY <1>0 DEF JobOK, Job
  <2>2. f \in File /\ f.synced /\ f.val # "torn" BY <2>1, ValuesAssumption DEF File
  <2>3. d \in [Keys -> File] /\ \A k \in Keys : d[k].synced /\ d[k].val # "torn"
      <3> HIDE DEF f
      <3> QED BY <1>0, <2>1, <2>2
  <2>4. job' = [job EXCEPT ![a] = j] BY <1>0, <1>4 DEF Goto
  <2>5. j \in Job /\ JobOK(j) /\ j.pc = "dirsync" BY <1>0 DEF Job, JobOK
  <2>6. SetDir(d) BY <1>4
  <2> HIDE DEF j, d
  <2> QED BY <1>1, <1>2, <1>4, <2>3, <2>4, <2>5, <2>6, DirStep DEF Rename
<1> QED BY <1>3, <1>4 DEF Rename

(* A removed key has the value of one that was never there.                *)
LEMMA UnlinkKeepsInv == ASSUME PInv, NEW a \in Actors, Unlink(a) PROVE PInv'
<1>0. /\ job \in [Actors -> Job] /\ job[a] \in Job /\ JobOK(job[a]) /\ job[a].pc = "unlink"
      /\ dir \in [Keys -> File] /\ \A k \in Keys : dir[k].synced /\ dir[k].val # "torn"
    BY DEF PInv, TypeOK, JobsOK, Unlink, At, NothingTorn
<1>1. RestOK' BY DEF PInv, TypeOK, RestOK, Unlink
<1>2. Holding(job[a]) /\ ~UnderWay(a) BY <1>0 DEF UnderWay, Holding
<1>3. CASE Done(a) /\ lock' = NoLock /\ UNCHANGED <<dir, behind>>
    BY <1>1, <1>2, <1>3, DoneStep DEF Unlink
<1>4. CASE /\ SetDir([dir EXCEPT ![job[a].key] = NoFile])
           /\ Goto(a, "dirsync") /\ UNCHANGED lock
  <2> DEFINE j == [job[a] EXCEPT !.pc = "dirsync"]
             d == [dir EXCEPT ![job[a].key] = NoFile]
  <2>1. NoFile \in File /\ NoFile.synced /\ NoFile.val # "torn" BY DEF File, NoFile
  <2>2. d \in [Keys -> File] /\ \A k \in Keys : d[k].synced /\ d[k].val # "torn"
      BY <1>0, <2>1
  <2>3. job' = [job EXCEPT ![a] = j] BY <1>0, <1>4 DEF Goto
  <2>4. j \in Job /\ JobOK(j) /\ j.pc = "dirsync" BY <1>0 DEF Job, JobOK
  <2>5. SetDir(d) BY <1>4
  <2> HIDE DEF j, d
  <2> QED BY <1>1, <1>2, <1>4, <2>2, <2>3, <2>4, <2>5, DirStep DEF Unlink
<1> QED BY <1>3, <1>4 DEF Unlink

(* clearAll removes the keys that it is to remove, one at a time.          *)
LEMMA ClearKeepsInv == ASSUME PInv, NEW a \in Actors, Clear(a) PROVE PInv'
<1>0. /\ job \in [Actors -> Job] /\ job[a] \in Job /\ JobOK(job[a]) /\ job[a].pc = "clear"
      /\ dir \in [Keys -> File] /\ \A k \in Keys : dir[k].synced /\ dir[k].val # "torn"
    BY DEF PInv, TypeOK, JobsOK, Clear, At, NothingTorn
<1>1. RestOK' /\ lock' \in Actors \cup {NoLock} BY DEF PInv, TypeOK, RestOK, Clear
<1>2. Holding(job[a]) /\ lock = a BY <1>0 DEF Holding, PInv, LockHeld
<1>3. CASE \E k \in job[a].todo : /\ SetDir([dir EXCEPT ![k] = NoFile])
                                  /\ job' = [job EXCEPT ![a].todo = @ \ {k}]
  <2>1. PICK k \in job[a].todo : /\ SetDir([dir EXCEPT ![k] = NoFile])
                                 /\ job' = [job EXCEPT ![a].todo = @ \ {k}]
      BY <1>3
  <2> DEFINE j == [job[a] EXCEPT !.todo = @ \ {k}]
             d == [dir EXCEPT ![k] = NoFile]
  <2>2. NoFile \in File /\ NoFile.synced /\ NoFile.val # "torn" BY DEF File, NoFile
  <2>3. d \in [Keys -> File] /\ \A i \in Keys : d[i].synced /\ d[i].val # "torn"
      BY <1>0, <2>2
  <2>4. job' = [job EXCEPT ![a] = j] BY <1>0, <2>1
  <2>5. j \in Job /\ JobOK(j) /\ j.pc = "clear" BY <1>0 DEF Job, JobOK
  <2>6. SetDir(d) BY <2>1
  <2> HIDE DEF j, d
  <2> QED BY <1>1, <1>2, <2>3, <2>4, <2>5, <2>6, DirStep DEF Clear
<1>4. CASE Goto(a, "dirsync") /\ UNCHANGED <<dir, behind>>
  <2> DEFINE j == [job[a] EXCEPT !.pc = "dirsync"]
  <2>1. job' = [job EXCEPT ![a] = j] BY <1>0, <1>4 DEF Goto
  <2>2. j \in Job /\ JobOK(j) /\ j.pc = "dirsync" BY <1>0 DEF Job, JobOK
  <2> HIDE DEF j
  <2> QED BY <1>1, <1>2, <1>4, <2>1, <2>2, QuietStep DEF Clear
<1> QED BY <1>3, <1>4 DEF Clear

(* readAll reads one key more, under the lock.                             *)
LEMMA ReadKeepsInv == ASSUME PInv, NEW a \in Actors, Read(a) PROVE PInv'
<1>0. /\ job \in [Actors -> Job] /\ job[a] \in Job /\ JobOK(job[a]) /\ job[a].pc = "read"
      /\ dir \in [Keys -> File]
    BY DEF PInv, TypeOK, JobsOK, Read, At
<1>1. RestOK' BY DEF PInv, TypeOK, RestOK, Read
<1>2. Holding(job[a]) /\ lock = a /\ ~UnderWay(a) BY <1>0 DEF Holding, UnderWay, PInv, LockHeld
<1>3. CASE \E k \in job[a].todo :
              job' = [job EXCEPT ![a].todo = @ \ {k}, ![a].snap[k] = dir[k].val]
              /\ UNCHANGED lock
  <2>1. PICK k \in job[a].todo :
              job' = [job EXCEPT ![a].todo = @ \ {k}, ![a].snap[k] = dir[k].val]
              /\ UNCHANGED lock
      BY <1>3
  <2> DEFINE s == [job[a].snap EXCEPT ![k] = dir[k].val]
             j == [job[a] EXCEPT !.todo = @ \ {k}, !.snap = s]
  <2>2. job' = [job EXCEPT ![a] = j] BY <1>0, <2>1
  <2>3. job[a].todo \subseteq Keys /\ job[a].snap \in [Keys -> Values \cup {"none", "torn"}]
      BY <1>0 DEF Job
  <2>4. dir[k].val \in Values \cup {"none", "torn"} BY <1>0, <2>3 DEF File
  <2>5. s \in [Keys -> Values \cup {"none", "torn"}] /\ s[k] = dir[k].val
        /\ \A i \in Keys \ {k} : s[i] = job[a].snap[i]
      BY <2>3, <2>4
  <2>6. \A i \in Keys \ job[a].todo : job[a].snap[i] = dir[i].val
      BY <1>0 DEF PInv, SnapshotsAgree, At
  <2>7. \A i \in Keys \ (job[a].todo \ {k}) : s[i] = dir[i].val BY <2>5, <2>6
  <2> HIDE DEF s
  <2>8. j \in Job /\ JobOK(j) /\ j.todo = job[a].todo \ {k} /\ j.snap = s
      BY <1>0, <2>3, <2>5 DEF Job, JobOK
  <2> HIDE DEF j
  <2> QED BY <1>1, <1>2, <2>1, <2>2, <2>7, <2>8, QuietStep DEF Read
<1>4. CASE Done(a) /\ lock' = NoLock BY <1>1, <1>2, <1>4, DoneStep DEF Read
<1> QED BY <1>3, <1>4 DEF Read

(* The directory is on disk from here on.                                  *)
LEMMA FsyncDirKeepsInv == ASSUME PInv, NEW a \in Actors, FsyncDir(a) PROVE PInv'
<1>0. TypeOK /\ job \in [Actors -> Job] /\ job[a].pc = "dirsync"
    BY DEF PInv, TypeOK, FsyncDir, At
<1>1. job'[a] = Idle /\ \A b \in Actors \ {a} : job'[b] = job[b]
    BY <1>0 DEF FsyncDir, Done
<1>2. lock = a /\ lock' = NoLock BY <1>0 DEF FsyncDir, PInv, LockHeld, Holding
<1>3. TypeOK'
  <2>1. job' \in [Actors -> Job] BY <1>0, IdleJob DEF FsyncDir, Done
  <2> QED BY <1>0, <1>2, <2>1 DEF TypeOK, FsyncDir
<1>4. JobsOK' BY <1>1, IdleJob DEF JobsOK, PInv
<1>5. \A b \in Actors : ~Holding(job'[b]) BY <1>1, <1>2, IdleJob DEF PInv, LockHeld
<1>6. LockHeld' BY <1>5 DEF LockHeld
<1>7. SnapshotsAgree' BY <1>5 DEF SnapshotsAgree, At, Holding
<1>8. NothingTorn' BY <1>0 DEF PInv, NothingTorn, FsyncDir, TypeOK
<1>9. InSync' BY DEF InSync, FsyncDir
<1> QED BY <1>3, <1>4, <1>6, <1>7, <1>8, <1>9 DEF PInv

(* Every step of an operation.                                             *)
LEMMA StepKeepsInv == ASSUME PInv, NEW a \in Actors, Step(a) PROVE PInv'
BY WriteKeepsInv, FsyncKeepsInv, FileLockKeepsInv, RenameKeepsInv, UnlinkKeepsInv,
   ClearKeepsInv, FsyncDirKeepsInv, ReadKeepsInv DEF Step

(* The thread that writes in the background starts, pops and ends.         *)
LEMMA ThreadKeepsInv == ASSUME PInv, NEW p \in Procs, Thread(p) PROVE PInv'
<1>0. /\ Main(p) \in Actors /\ Writer(p) \in Actors
      /\ TypeOK /\ queue \in [Procs -> Seq(Keys \X Values)]
      /\ lock \in Actors \cup {NoLock}
    BY DEF PInv, TypeOK, Main, Writer, Actors
<1>1. CASE Push(p)
  <2>0. job[Main(p)].pc = "push" /\ JobOK(job[Main(p)]) BY <1>0, <1>1 DEF Push, At, PInv, JobsOK
  <2>1. <<job[Main(p)].key, job[Main(p)].val>> \in Keys \X Values BY <2>0 DEF JobOK
  <2>2. Append(queue[p], <<job[Main(p)].key, job[Main(p)].val>>) \in Seq(Keys \X Values)
      BY <1>0, <2>1
  <2>3. RestOK' BY <1>0, <1>1, <2>2 DEF Push, RestOK, TypeOK
  <2>4. ~UnderWay(Main(p)) BY <2>0 DEF UnderWay
  <2>5. UNCHANGED <<dir, behind, lock, cut>> /\ Goto(Main(p), "spawn") BY <1>1 DEF Push
  <2> QED BY <1>0, <2>3, <2>4, <2>5, GotoStep
<1>2. CASE Spawn(p)
  <2>1. RestOK' BY <1>0, <1>2 DEF Spawn, RestOK, TypeOK
  <2>2. ~UnderWay(Main(p)) BY <1>2 DEF UnderWay, Spawn, At
  <2>3. UNCHANGED <<dir, behind, cut>> /\ lock' = lock /\ Done(Main(p)) BY <1>2 DEF Spawn
  <2> QED BY <1>0, <2>1, <2>2, <2>3, DoneStep
<1>3. CASE TryPop(p) /\ queue[p] # << >>
  <2> DEFINE k == Head(queue[p])[1]
             v == Head(queue[p])[2]
             j == [Call("write", "rename") EXCEPT !.key = k, !.val = v]
  <2>1. Head(queue[p]) \in Keys \X Values /\ Tail(queue[p]) \in Seq(Keys \X Values)
      BY <1>0, <1>3
  <2>2. k \in Keys /\ v \in Values BY <2>1
  <2>3. RestOK' BY <1>0, <1>3, <2>1 DEF TryPop, RestOK, TypeOK
  <2>4. ~UnderWay(Writer(p)) BY <1>3 DEF UnderWay, TryPop, At
  <2>5. UNCHANGED <<dir, behind, cut>> /\ lock' = lock /\ job' = [job EXCEPT ![Writer(p)] = j]
      BY <1>3 DEF TryPop
  <2> HIDE DEF k, v
  <2>6. j \in Job /\ JobOK(j) /\ j.pc = "write" BY <2>2, WriteCall
  <2>7. ~Holding(j) BY <2>6 DEF Holding
  <2> HIDE DEF j
  <2> QED BY <1>0, <2>3, <2>4, <2>5, <2>6, <2>7, QuietStep
<1>4. CASE (TryPop(p) /\ queue[p] = << >>) \/ Finish(p)
  <2>1. UNCHANGED <<dir, behind, lock, job, queue, left, cut>> BY <1>4 DEF TryPop, Finish
  <2>2. thread' \in [Procs -> {"none", "running", "exiting"}]
      BY <1>0, <1>4 DEF TryPop, Finish, TypeOK
  <2> QED BY <1>0, <2>1, <2>2 DEF PInv, TypeOK, JobsOK, LockHeld, SnapshotsAgree, NothingTorn,
                                  InSync, UnderWay, At
<1> QED BY <1>1, <1>2, <1>3, <1>4 DEF Thread

(* The destructor waits for that thread.                                   *)
LEMMA DestroyKeepsInv == ASSUME PInv, NEW p \in Procs, Destroy(p) PROVE PInv'
<1>1. Main(p) \in Actors BY DEF Main, Actors
<1>2. RestOK' BY DEF PInv, TypeOK, RestOK, Destroy
<1>3. ~UnderWay(Main(p)) BY DEF UnderWay, Destroy, At
<1>4. UNCHANGED <<dir, behind, lock, cut>> /\ Goto(Main(p), "destroyed") BY DEF Destroy
<1> QED BY <1>1, <1>2, <1>3, <1>4, GotoStep

(* Both threads of a process are gone, and with them the lock it held.     *)
LEMMA KillKeepsInv == ASSUME PInv, NEW p \in Procs, Kill(p) PROVE PInv'
<1>0. /\ TypeOK /\ job \in [Actors -> Job]
      /\ job' = [a \in Actors |-> IF a[1] = p THEN Idle ELSE job[a]]
    BY DEF PInv, TypeOK, Kill
<1>1. \A a \in Actors : (job'[a] = job[a] /\ a[1] # p) \/ job'[a] = Idle BY <1>0
<1>2. TypeOK'
  <2>1. job' \in [Actors -> Job] BY <1>0, IdleJob
  <2>2. lock' \in Actors \cup {NoLock} BY <1>0 DEF TypeOK, Kill
  <2>3. RestOK'
    <3>1. thread' \in [Procs -> {"none", "running", "exiting"}] BY <1>0 DEF TypeOK, Kill
    <3>2. queue' \in [Procs -> Seq(Keys \X Values)] BY <1>0, EmptyQueue DEF TypeOK, Kill
    <3>3. left' \in [calls : Nat, kills : Nat, losses : Nat]
      <4>1. left.kills > 0 /\ left' = [left EXCEPT !.kills = @ - 1] BY DEF Kill
      <4>2. left \in [calls : Nat, kills : Nat, losses : Nat] BY <1>0 DEF TypeOK
      <4> QED BY <4>1, <4>2
    <3> QED BY <3>1, <3>2, <3>3 DEF RestOK
  <2>4. cut' \in BOOLEAN BY <1>0 DEF TypeOK, Kill, UnderWay
  <2>5. UNCHANGED <<dir, behind>> BY DEF Kill
  <2> QED BY <1>0, <2>1, <2>2, <2>3, <2>4, <2>5 DEF TypeOK, RestOK
<1>3. JobsOK' BY <1>1, IdleJob DEF JobsOK, PInv
<1>4. LockHeld'
  <2> SUFFICES ASSUME NEW a \in Actors, Holding(job'[a]) PROVE lock' = a BY DEF LockHeld
  <2>1. job'[a] = job[a] /\ a[1] # p BY <1>1, IdleJob
  <2>2. lock = a BY <2>1 DEF PInv, LockHeld
  <2> QED BY <2>1, <2>2 DEF Kill
<1>5. SnapshotsAgree' BY <1>1, IdleJob DEF PInv, SnapshotsAgree, At, Kill
<1>6. NothingTorn' BY DEF PInv, NothingTorn, Kill
<1>7. InSync'
  <2>1. CASE behind = {dir} BY <2>1 DEF InSync, Kill
  <2>2. CASE cut BY <2>2 DEF InSync, Kill
  <2>3. CASE \E a \in Actors : UnderWay(a)
    <3>1. PICK a \in Actors : UnderWay(a) BY <2>3
    <3>2. CASE a[1] = p
      <4>1. a = Main(p) \/ a = Writer(p) BY <3>2 DEF Actors, Main, Writer
      <4> QED BY <3>1, <4>1 DEF InSync, Kill
    <3>3. CASE a[1] # p
      <4>1. job'[a] = job[a] BY <1>0, <3>3
      <4> QED BY <3>1, <4>1 DEF InSync, UnderWay
    <3> QED BY <3>2, <3>3
  <2> QED BY <2>1, <2>2, <2>3 DEF PInv, InSync
<1> QED BY <1>2, <1>3, <1>4, <1>5, <1>6, <1>7 DEF PInv

(* What power loss leaves is one of the states behind, which are whole.    *)
LEMMA PowerLossLeaves ==
    ASSUME PInv, PowerLoss
    PROVE  dir' \in behind /\ behind' = {dir'}
<1>1. PICK d \in behind : \E torn \in SUBSET {k \in Keys : ~d[k].synced} :
          dir' = [k \in Keys |-> [val |-> IF k \in torn THEN "torn" ELSE d[k].val,
                                  synced |-> TRUE]]
    BY DEF PowerLoss
<1>2. d \in [Keys -> File] /\ \A k \in Keys : d[k].synced
    BY DEF PInv, TypeOK, NothingTorn
<1>3. {k \in Keys : ~d[k].synced} = {} BY <1>2
<1>4. \A k \in Keys : [val |-> d[k].val, synced |-> TRUE] = d[k] BY <1>2 DEF File
<1>5. dir' = [k \in Keys |-> d[k]] BY <1>1, <1>3, <1>4
<1>6. dir' = d BY <1>2, <1>5
<1> QED BY <1>6 DEF PowerLoss

(* A power loss leaves one of the directories that it may leave.           *)
LEMMA PowerLossKeepsInv == ASSUME PInv, PowerLoss PROVE PInv'
<1>0. TypeOK BY DEF PInv
<1>1. \A a \in Actors : job'[a] = Idle BY DEF PowerLoss
<1>2. TypeOK'
  <2>1. job' \in [Actors -> Job] BY IdleJob DEF PowerLoss
  <2>2. RestOK'
    <3>1. thread' \in [Procs -> {"none", "running", "exiting"}] BY DEF PowerLoss
    <3>2. queue' \in [Procs -> Seq(Keys \X Values)] BY EmptyQueue DEF PowerLoss
    <3>3. left' \in [calls : Nat, kills : Nat, losses : Nat]
      <4>1. left.losses > 0 /\ left' = [left EXCEPT !.losses = @ - 1] BY DEF PowerLoss
      <4>2. left \in [calls : Nat, kills : Nat, losses : Nat] BY <1>0 DEF TypeOK
      <4> QED BY <4>1, <4>2
    <3> QED BY <3>1, <3>2, <3>3 DEF RestOK
  <2>3. dir' \in [Keys -> File] BY <1>0, PowerLossLeaves DEF TypeOK
  <2> QED BY <2>1, <2>2, <2>3, PowerLossLeaves DEF TypeOK, RestOK, PowerLoss
<1>3. JobsOK' BY <1>1, IdleJob DEF JobsOK
<1>4. LockHeld' BY <1>1, IdleJob DEF LockHeld
<1>5. SnapshotsAgree' BY <1>1, IdleJob DEF SnapshotsAgree, At
<1>6. NothingTorn' BY PowerLossLeaves DEF PInv, NothingTorn
<1>7. InSync' BY PowerLossLeaves DEF InSync
<1> QED BY <1>2, <1>3, <1>4, <1>5, <1>6, <1>7 DEF PInv
----------------------------------------------------------------------------
(* At boot every file has its value on disk, and nobody is at work.        *)
LEMMA InitHasInv == Init => PInv
<1> SUFFICES ASSUME Init PROVE PInv OBVIOUS
<1>1. NoFile \in File /\ NoFile.synced /\ NoFile.val # "torn" BY DEF NoFile, File
<1>2. TypeOK BY <1>1, IdleJob, EmptyQueue, BudgetsAssumption DEF Init, TypeOK
<1>3. \A a \in Actors : job[a] = Idle BY DEF Init
<1>4. JobsOK /\ LockHeld /\ SnapshotsAgree
    BY <1>3, IdleJob DEF JobsOK, LockHeld, SnapshotsAgree, At
<1>5. NothingTorn /\ InSync BY <1>1 DEF Init, NothingTorn, InSync
<1> QED BY <1>2, <1>4, <1>5 DEF PInv

(* Every step keeps the invariant.                                         *)
LEMMA NextKeepsInv == PInv /\ [Next]_vars => PInv'
<1> SUFFICES ASSUME PInv, [Next]_vars PROVE PInv' OBVIOUS
<1>1. CASE UNCHANGED vars
    BY <1>1 DEF vars, PInv, TypeOK, JobsOK, LockHeld, SnapshotsAgree, NothingTorn, InSync,
                UnderWay, At
<1>2. CASE Next
    BY <1>2, CallsKeepInv, StepKeepsInv, ThreadKeepsInv, DestroyKeepsInv, KillKeepsInv,
       PowerLossKeepsInv DEF Next
<1> QED BY <1>1, <1>2

(* In every reachable state the operations are where their locks and their *)
(* arguments say, and the disk is behind only by calls under way.          *)
THEOREM ParamsInv == Spec => []PInv
<1>1. Init => PInv BY InitHasInv
<1>2. PInv /\ [Next]_vars => PInv' BY NextKeepsInv
<1> QED BY <1>1, <1>2, PTL DEF Spec

(* Whatever is called, killed or loses power, the variables have their     *)
(* types.                                                                  *)
THEOREM ParamsTypeCorrect == Spec => []TypeOK
<1>1. PInv => TypeOK BY DEF PInv
<1> QED BY <1>1, ParamsInv, PTL

(* No sequence of calls, kills and power losses leaves a value in a        *)
(* parameter that nobody wrote.                                            *)
THEOREM ParamsNeverTorn == Spec => []NeverTorn
<1>1. PInv => NeverTorn BY DEF PInv, TypeOK, NothingTorn, NeverTorn
<1> QED BY <1>1, ParamsInv, PTL

(* A power loss undoes nothing of a call that has returned.                *)
THEOREM ParamsReturnedIsDurable == Spec => ReturnedIsDurable
<1> DEFINE Durable == left'.losses # left.losses =>
                          dir' = dir \/ cut \/ \E a \in Actors : UnderWay(a)
<1>1. PInv /\ [Next]_vars => [Durable]_vars
  <2> SUFFICES ASSUME PInv, Next, left'.losses # left.losses
               PROVE  dir' = dir \/ cut \/ \E a \in Actors : UnderWay(a)
      OBVIOUS
  <2>1. left \in [calls : Nat, kills : Nat, losses : Nat] BY DEF PInv, TypeOK
  <2>2. PowerLoss
    <3>1. ASSUME NEW p \in Procs,
                 Put(p) \/ Remove(p) \/ ClearAll(p) \/ ReadAll(p) \/ PutNonBlocking(p)
          PROVE  FALSE
        BY <2>1, <3>1 DEF Put, Remove, ClearAll, ReadAll, PutNonBlocking, Start
    <3>2. ASSUME NEW p \in Procs, Thread(p) \/ Destroy(p) \/ Kill(p) PROVE FALSE
        BY <2>1, <3>2 DEF Thread, Push, Spawn, TryPop, Finish, Destroy, Kill
    <3>3. ASSUME NEW a \in Actors, Step(a) PROVE FALSE
        BY <3>3 DEF Step, Write, Fsync, FileLock, Rename, Unlink, Clear, FsyncDir, Read
    <3> QED BY <3>1, <3>2, <3>3 DEF Next
  <2> QED BY <2>2, PowerLossLeaves DEF PInv, InSync
<1> QED BY <1>1, ParamsInv, PTL DEF Spec, ReturnedIsDurable

(* A snapshot that readAll returns is the directory at that moment.        *)
THEOREM ParamsSnapshotConsistent == Spec => SnapshotConsistent
<1> DEFINE Consistent == \A a \in Actors : At(a, "read") /\ job'[a].pc = "idle" /\ left' = left =>
                             \A k \in Keys : job[a].snap[k] = dir[k].val
<1>1. PInv /\ [Next]_vars => [Consistent]_vars
  <2> SUFFICES ASSUME PInv, Next, NEW a \in Actors, At(a, "read"), job'[a].pc = "idle", left' = left,
                      NEW k \in Keys
               PROVE  job[a].snap[k] = dir[k].val
      OBVIOUS
  <2>0. /\ job \in [Actors -> Job] /\ left \in [calls : Nat, kills : Nat, losses : Nat]
        /\ job[a].pc = "read"
      BY DEF PInv, TypeOK, At
  <2>1. ~PowerLoss BY <2>0 DEF PowerLoss
  <2>2. ASSUME NEW p \in Procs, Kill(p) \/ Destroy(p) PROVE FALSE BY <2>0, <2>2 DEF Kill, Destroy
  <2>3. ASSUME NEW p \in Procs,
               Put(p) \/ Remove(p) \/ ClearAll(p) \/ ReadAll(p) \/ PutNonBlocking(p)
        PROVE  FALSE
    <3>1. ASSUME NEW op, NEW first, Start(p, op, first) PROVE FALSE
      <4>1. left.calls \in Nat /\ left'.calls = left.calls - 1 BY <2>0, <3>1 DEF Start
      <4> QED BY <4>1
    <3> QED BY <2>3, <3>1 DEF Put, Remove, ClearAll, ReadAll, PutNonBlocking
  <2>4. ASSUME NEW p \in Procs, Thread(p) PROVE FALSE
    <3>1. Main(p) \in Actors /\ Writer(p) \in Actors BY DEF Main, Writer, Actors
    <3>2. At(Main(p), "push") \/ At(Main(p), "spawn") \/ At(Writer(p), "idle") \/ job' = job
        BY <2>4 DEF Thread, Push, Spawn, TryPop, Finish
    <3> QED BY <2>0, <2>4, <3>1, <3>2, IdleJob
            DEF Thread, Push, Spawn, TryPop, Finish, At, Goto, Done
  <2>5. PICK b \in Actors : Step(b) BY <2>1, <2>2, <2>3, <2>4 DEF Next
  <2>6. b = a
      BY <2>0, <2>5 DEF Step, Write, Fsync, FileLock, Rename, Unlink, Clear, FsyncDir, Read,
                        Goto, Done
  <2>7. Read(a) BY <2>0, <2>5, <2>6
                DEF Step, Write, Fsync, FileLock, Rename, Unlink, Clear, FsyncDir, At
  <2>8. job[a].todo = {}
    <3> SUFFICES ASSUME NEW i \in job[a].todo,
                        job' = [job EXCEPT ![a].todo = @ \ {i}, ![a].snap[i] = dir[i].val]
                 PROVE  FALSE
        BY <2>7 DEF Read
    <3>1. job'[a].pc = job[a].pc BY <2>0 DEF Job
    <3> QED BY <2>0, <3>1
  <2> QED BY <2>0, <2>8 DEF PInv, SnapshotsAgree, At
<1> QED BY <1>1, ParamsInv, PTL DEF Spec, SnapshotConsistent
=============================================================================

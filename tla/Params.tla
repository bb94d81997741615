------------------------------- MODULE Params -------------------------------
(***************************************************************************)
(* The parameter store: one file per key in a directory that all processes *)
(* share.  A value is written to a temporary file and renamed into place;  *)
(* renames and removals are done under a file lock, single reads are not.  *)
(* put_nonblocking hands the value to a thread that is started on demand.  *)
(*                                                                         *)
(* Processes may be killed, and power may be lost, at any step.  What a    *)
(* power loss leaves is any state of the directory since it was last       *)
(* synced, with any file that was not synced itself possibly torn.         *)
(***************************************************************************)
EXTENDS Naturals, Sequences, FiniteSets

CONSTANTS
    Procs,
    Keys,
    ClearKeys,      \* the keys with the flag that clearAll is called with
    Values,
    Ops,            \* the operations that processes may call
    Budgets         \* bounds of a behaviour: [calls, kills, losses]

ASSUME ClearKeysAssumption == ClearKeys \subseteq Keys
ASSUME OpsAssumption == Ops \subseteq {"put", "remove", "clearAll", "readAll", "put_nonblocking"}
(* The value of a torn file is one that nobody wrote.                      *)
ASSUME ValuesAssumption == "torn" \notin Values
ASSUME BudgetsAssumption == Budgets \subseteq [calls : Nat, kills : Nat, losses : Nat]

Actors == Procs \X {"main", "writer"}
NoFile == [val |-> "none", synced |-> TRUE]
NoLock == <<"nobody", "nobody">>
File   == [val : Values \cup {"none", "torn"}, synced : BOOLEAN]

VARIABLES
    dir,        \* key -> its file, as any process sees it
    behind,     \* what the directory may be after a power loss
    lock,       \* the actor that holds .lock
    job,        \* actor -> the operation it is in: where, on what, its locals
    queue,      \* process -> SafeQueue of put_nonblocking
    thread,     \* process -> its writer thread: "none", "running", "exiting"
    left,       \* what is left of the budget
    cut         \* history: a call was killed since the directory was last synced

vars == <<dir, behind, lock, job, queue, thread, left, cut>>

Idle == [pc |-> "idle", then |-> "", key |-> "", val |-> "none", synced |-> FALSE,
         todo |-> {}, snap |-> [k \in Keys |-> "none"]]

At(a, pc)       == job[a].pc = pc
Goto(a, pc)     == job' = [job EXCEPT ![a].pc = pc]
SetDir(d)       == dir' = d /\ behind' = behind \cup {d}
Done(a)         == job' = [job EXCEPT ![a] = Idle]
UnderWay(a)     == job[a].pc \in {"dirsync", "clear"}
Main(p)         == <<p, "main">>
Writer(p)       == <<p, "writer">>
----------------------------------------------------------------------------
(* The calls a process makes.                                              *)

Start(p, op, first) ==
    /\ op \in Ops /\ At(Main(p), "idle") /\ left.calls > 0
    /\ left' = [left EXCEPT !.calls = @ - 1]
    /\ job' = [job EXCEPT ![Main(p)] = first]
    /\ UNCHANGED <<dir, behind, lock, queue, thread, cut>>

Call(pc, then) == [Idle EXCEPT !.pc = pc, !.then = then]

Put(p) == \E k \in Keys, v \in Values :
    Start(p, "put", [Call("write", "rename") EXCEPT !.key = k, !.val = v])

Remove(p) == \E k \in Keys :
    Start(p, "remove", [Call("lock", "unlink") EXCEPT !.key = k])

ClearAll(p) == Start(p, "clearAll", [Call("lock", "clear") EXCEPT !.todo = ClearKeys])

ReadAll(p)  == Start(p, "readAll", [Call("lock", "read") EXCEPT !.todo = Keys])

PutNonBlocking(p) == \E k \in Keys, v \in Values :
    Start(p, "put_nonblocking", [Call("push", "") EXCEPT !.key = k, !.val = v])

(* put: write, fsync and rename of a temporary file; a failure ends it.    *)
Write(a) == /\ At(a, "write")
            /\ Goto(a, "fsync") \/ Done(a)
            /\ UNCHANGED <<dir, behind, lock, queue, thread, left, cut>>

(* Mutant: no fsync of the temporary file.                                 *)
FsyncNot(a) == /\ At(a, "fsync")
               /\ Goto(a, "lock")
               /\ UNCHANGED <<dir, behind, lock, queue, thread, left, cut>>

Fsync(a) == /\ At(a, "fsync")
            /\ \/ job' = [job EXCEPT ![a].pc = "lock", ![a].synced = TRUE]
               \/ Done(a)
            /\ UNCHANGED <<dir, behind, lock, queue, thread, left, cut>>

FileLock(a) == /\ At(a, "lock") /\ lock = NoLock
               /\ lock' = a
               /\ Goto(a, job[a].then)
               /\ UNCHANGED <<dir, behind, queue, thread, left, cut>>

(* Mutant: the file is moved into place without the lock.                  *)
RenameUnlocked(a) ==
    /\ job[a].pc \in {"rename", "lock"} /\ job[a].then = "rename"
    /\ SetDir([dir EXCEPT ![job[a].key] = [val |-> job[a].val, synced |-> job[a].synced]])
    /\ Goto(a, "dirsync")
    /\ UNCHANGED <<lock, queue, thread, left, cut>>

Rename(a) ==
    /\ At(a, "rename")
    /\ \/ /\ SetDir([dir EXCEPT ![job[a].key] = [val |-> job[a].val, synced |-> job[a].synced]])
          /\ Goto(a, "dirsync") /\ UNCHANGED lock
       \/ Done(a) /\ lock' = NoLock /\ UNCHANGED <<dir, behind>>
    /\ UNCHANGED <<queue, thread, left, cut>>

(* remove: of a key without a file, it returns at once.                    *)
Unlink(a) ==
    /\ At(a, "unlink")
    /\ \/ /\ dir[job[a].key] # NoFile
          /\ SetDir([dir EXCEPT ![job[a].key] = NoFile])
          /\ Goto(a, "dirsync") /\ UNCHANGED lock
       \/ /\ dir[job[a].key] = NoFile
          /\ Done(a) /\ lock' = NoLock
          /\ UNCHANGED <<dir, behind>>
    /\ UNCHANGED <<queue, thread, left, cut>>

(* clearAll: file after file, in the order of the directory.               *)
Clear(a) ==
    /\ At(a, "clear")
    /\ \/ \E k \in job[a].todo :
              /\ SetDir([dir EXCEPT ![k] = NoFile])
              /\ job' = [job EXCEPT ![a].todo = @ \ {k}]
       \/ /\ job[a].todo = {}
          /\ Goto(a, "dirsync")
          /\ UNCHANGED <<dir, behind>>
    /\ UNCHANGED <<lock, queue, thread, left, cut>>

(* Mutant: the directory is not synced.                                    *)
FsyncDirNot(a) == /\ At(a, "dirsync")
                  /\ Done(a)
                  /\ lock' = IF lock = a THEN NoLock ELSE lock
                  /\ UNCHANGED <<dir, behind, queue, thread, left, cut>>

(* Mutant: the lock is kept.                                               *)
FsyncDirHolding(a) == /\ At(a, "dirsync")
                      /\ behind' = {dir}
                      /\ Done(a)
                      /\ cut' = FALSE
                      /\ UNCHANGED <<dir, lock, queue, thread, left>>

(* fsync_dir, and the lock is released.                                    *)
FsyncDir(a) == /\ At(a, "dirsync")
               /\ behind' = {dir}
               /\ Done(a)
               /\ lock' = IF lock = a THEN NoLock ELSE lock
               /\ cut' = FALSE
               /\ UNCHANGED <<dir, queue, thread, left>>

(* readAll: file after file, under the lock.                               *)
Read(a) ==
    /\ At(a, "read")
    /\ \/ \E k \in job[a].todo :
              job' = [job EXCEPT ![a].todo = @ \ {k}, ![a].snap[k] = dir[k].val]
              /\ UNCHANGED lock
       \/ /\ job[a].todo = {}
          /\ Done(a) /\ lock' = NoLock
    /\ UNCHANGED <<dir, behind, queue, thread, left, cut>>

(* putNonBlocking: push, then start the thread if there is none or it has  *)
(* finished.                                                               *)
Push(p) == /\ At(Main(p), "push")
           /\ queue' = [queue EXCEPT ![p] = Append(@, <<job[Main(p)].key, job[Main(p)].val>>)]
           /\ Goto(Main(p), "spawn")
           /\ UNCHANGED <<dir, behind, lock, thread, left, cut>>

Spawn(p) == /\ At(Main(p), "spawn")
            /\ thread' = [thread EXCEPT ![p] = IF @ = "none" THEN "running" ELSE @]
            /\ Done(Main(p))
            /\ UNCHANGED <<dir, behind, lock, queue, left, cut>>

(* asyncWriteThread: until try_pop fails; the future is ready a little     *)
(* later.                                                                  *)
TryPop(p) ==
    /\ thread[p] = "running" /\ At(Writer(p), "idle")
    /\ \/ /\ queue[p] # << >>
          /\ job' = [job EXCEPT ![Writer(p)] =
                        [Call("write", "rename") EXCEPT !.key = Head(queue[p])[1],
                                                        !.val = Head(queue[p])[2]]]
          /\ queue' = [queue EXCEPT ![p] = Tail(@)]
          /\ UNCHANGED thread
       \/ /\ queue[p] = << >>
          /\ thread' = [thread EXCEPT ![p] = "exiting"]
          /\ UNCHANGED <<job, queue>>
    /\ UNCHANGED <<dir, behind, lock, left, cut>>

Finish(p) == /\ thread[p] = "exiting"
             /\ thread' = [thread EXCEPT ![p] = "none"]
             /\ UNCHANGED <<dir, behind, lock, job, queue, left, cut>>

(* ~Params: the future is waited for, and the queue has to be empty.       *)
Destroy(p) == /\ At(Main(p), "idle") /\ thread[p] = "none" /\ left.kills > 0
              /\ left' = [left EXCEPT !.kills = @ - 1]
              /\ Goto(Main(p), "destroyed")
              /\ UNCHANGED <<dir, behind, lock, queue, thread, cut>>

Step(a) == \/ Write(a) \/ Fsync(a) \/ FileLock(a) \/ Rename(a) \/ Unlink(a)
           \/ Clear(a) \/ FsyncDir(a) \/ Read(a)
Thread(p) == Push(p) \/ Spawn(p) \/ TryPop(p) \/ Finish(p)
----------------------------------------------------------------------------
(* The operating system: a killed process's lock is released.              *)

Kill(p) == /\ left.kills > 0
           /\ left' = [left EXCEPT !.kills = @ - 1]
           /\ job' = [a \in Actors |-> IF a[1] = p THEN Idle ELSE job[a]]
           /\ lock' = IF lock[1] = p THEN NoLock ELSE lock
           /\ queue' = [queue EXCEPT ![p] = << >>]
           /\ thread' = [thread EXCEPT ![p] = "none"]
           /\ cut' = (cut \/ UnderWay(Main(p)) \/ UnderWay(Writer(p)))
           /\ UNCHANGED <<dir, behind>>

PowerLoss ==
    /\ left.losses > 0
    /\ left' = [left EXCEPT !.losses = @ - 1]
    /\ \E d \in behind : \E torn \in SUBSET {k \in Keys : ~d[k].synced} :
           dir' = [k \in Keys |-> [val |-> IF k \in torn THEN "torn" ELSE d[k].val,
                                   synced |-> TRUE]]
    /\ behind' = {dir'}
    /\ lock' = NoLock
    /\ job' = [a \in Actors |-> Idle]
    /\ queue' = [p \in Procs |-> << >>]
    /\ thread' = [p \in Procs |-> "none"]
    /\ cut' = FALSE

Init == /\ dir = [k \in Keys |-> NoFile]
        /\ behind = {dir}
        /\ lock = NoLock
        /\ job = [a \in Actors |-> Idle]
        /\ queue = [p \in Procs |-> << >>]
        /\ thread = [p \in Procs |-> "none"]
        /\ left \in Budgets
        /\ cut = FALSE

Next == \/ \E p \in Procs : \/ Put(p) \/ Remove(p) \/ ClearAll(p) \/ ReadAll(p)
                            \/ PutNonBlocking(p) \/ Thread(p) \/ Destroy(p) \/ Kill(p)
        \/ \E a \in Actors : Step(a)
        \/ PowerLoss

(* Threads run; the lock goes to somebody who waits for it.                *)
Fairness == /\ \A a \in Actors : WF_vars(Step(a))
            /\ \A p \in Procs : WF_vars(Thread(p))

Spec     == Init /\ [][Next]_vars
FairSpec == Spec /\ Fairness
----------------------------------------------------------------------------
(* Properties. *)

(* The variables have their types.                                         *)
Job == [pc   : {"idle", "write", "fsync", "lock", "rename", "unlink", "clear", "dirsync",
                "read", "push", "spawn", "destroyed"},
        then : {"", "rename", "unlink", "clear", "read"},
        key  : Keys \cup {""}, val : Values \cup {"none"}, synced : BOOLEAN,
        todo : SUBSET Keys, snap : [Keys -> Values \cup {"none", "torn"}]]

TypeOK ==
    /\ dir \in [Keys -> File]
    /\ behind \subseteq [Keys -> File] /\ dir \in behind
    /\ lock \in Actors \cup {NoLock}
    /\ job \in [Actors -> Job]
    /\ thread \in [Procs -> {"none", "running", "exiting"}]
    /\ queue \in [Procs -> Seq(Keys \X Values)]
    /\ left \in [calls : Nat, kills : Nat, losses : Nat]
    /\ cut \in BOOLEAN

(* No power loss, at any step of any write, leaves a value that nobody     *)
(* wrote: the temporary file is on disk before it gets its name.           *)
NeverTorn == \A k \in Keys : dir[k].val # "torn"

(* What was written, removed or cleared by a call that has returned stays  *)
(* so over a power loss: only calls that are under way, or were when their *)
(* process was killed, can be undone.                                      *)
ReturnedIsDurable ==
    [][left'.losses # left.losses => dir' = dir \/ cut \/ \E a \in Actors : UnderWay(a)]_vars

(* readAll returns the directory as it was at one moment, however many     *)
(* processes write at the same time.                                       *)
SnapshotConsistent ==
    [][\A a \in Actors : At(a, "read") /\ job'[a].pc = "idle" /\ left' = left =>
           \A k \in Keys : job[a].snap[k] = dir[k].val]_vars

(* A call returns, whatever happens to the other processes.                *)
CallsReturn == \A a \in Actors : (job[a].pc # "idle") ~> (job[a].pc \in {"idle", "destroyed"})

(* The assertion of ~Params: no value is left in the queue.                *)
QueueEmptyAtExit == \A p \in Procs : At(Main(p), "destroyed") => queue[p] = << >>
=============================================================================

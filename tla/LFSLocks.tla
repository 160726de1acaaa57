------------------------------ MODULE LFSLocks ------------------------------
(***************************************************************************)
(* Git LFS file locks (pkg/oci/lfs_lock.go, driven by lfs-lock and         *)
(* lfs-unlock of pkg/cli/lfslock.go): one list in one blob, rewritten      *)
(* whole under the lock on a pseudo-ref.                                   *)
(*                                                                         *)
(* That lock is the one of RefLock, reduced to who holds it; LockLapses    *)
(* adds what its TTL and its races allow: a holder that is not alone.      *)
(* Whether it does, and whether the blob may go missing, is a setting,     *)
(* chosen once for a behaviour.                                            *)
(***************************************************************************)
EXTENDS Naturals, FiniteSets

CONSTANTS
  Users,      \* processes, each running one command at a time
  Paths,
  Owners,     \* names a lock may be taken or released under
  Nobody,     \* no owner; as a command's path, none given
  Free,       \* nobody holds the index lock
  Settings    \* the settings to choose from

\* lapses: may a live holder lose the index lock?  vanish: may the list's blob be missing
\* behind its manifest?  ops: bound on the commands started in a behaviour.
Setting == [lapses : BOOLEAN, vanish : BOOLEAN, ops : Nat]

ASSUME NobodyAssumption == Nobody \notin Owners \union Paths
ASSUME FreeAssumption == Free \notin Users
ASSUME SettingsAssumption == Settings \subseteq Setting

VARIABLES
  setting, \* the setting of this behaviour
  locks, \* the published list
  lock,  \* who holds _lfs_locks_index_lock
  pc,
  op,    \* each user's command and its local variables
  ops    \* commands started (bound); the id of the lock the latest may take

vars == <<setting, locks, lock, pc, op, ops>>

LockLapses == setting.lapses
BlobsVanish == setting.vanish
MaxOps == setting.ops

Ids == 0 .. MaxOps \* 0: no lock
LFSLock == [id : Ids \ {0}, path : Paths, owner : Owners]

\* found: the list lfs-unlock looked its path up in.  list: existingLocks.
Op == [kind : {"none", "lock", "unlock"}, path : Paths \union {Nobody}, id : Ids,
       owner : Owners \union {Nobody}, force : BOOLEAN,
       found : SUBSET LFSLock, list : SUBSET LFSLock]
NoOp == [kind |-> "none", path |-> Nobody, id |-> 0, owner |-> Nobody, force |-> FALSE,
         found |-> {}, list |-> {}]

TypeOK ==
  /\ setting \in Settings
  /\ locks \subseteq LFSLock
  /\ \A l, m \in locks : l.id = m.id => l = m
  /\ lock \in Users \union {Free}
  /\ pc \in [Users -> {"idle", "lookup", "wait", "read", "write", "release"}]
  /\ op \in [Users -> Op]
  /\ ops \in 0 .. MaxOps

Init ==
  /\ setting \in Settings
  /\ locks = {}
  /\ lock = Free
  /\ pc = [u \in Users |-> "idle"]
  /\ op = [u \in Users |-> NoOp]
  /\ ops = 0
-----------------------------------------------------------------------------
At(u, stage) == pc[u] = stage
Goto(u, stage) == pc' = [pc EXCEPT ![u] = stage]

\* Mutants of the definitions below.
Unserialised == TRUE
PathIgnored(u) == {}
SamePath(u) == {l \in op[u].list : l.path = op[u].path \/ l.id = op[u].id}

LockFree == lock = Free

\* GenerateLockID hashes the path, the owner and the time: no id comes twice.
NewId == ops + 1

\* AcquireLFSLock: the locks in its way.
InTheWay(u) == {l \in op[u].list : l.path = op[u].path}

\* ReleaseLFSLock: by id alone.
Named(u) == {l \in op[u].list : l.id = op[u].id}
MayUnlock(u) == op[u].force \/ \A l \in Named(u) : l.owner = op[u].owner

\* What either publishes.
Rewritten(u) ==
  IF op[u].kind = "lock"
  THEN op[u].list \union {[id |-> op[u].id, path |-> op[u].path, owner |-> op[u].owner]}
  ELSE op[u].list \ Named(u)

Allowed(u) ==
  IF op[u].kind = "lock" THEN InTheWay(u) = {} ELSE Named(u) # {} /\ MayUnlock(u)

\* FetchLFSLocks: no manifest and no blob are both an empty list.
Fetched == {locks} \union (IF BlobsVanish THEN {{}} ELSE {})
-----------------------------------------------------------------------------
Start(u, kind, p, i, owner, force, stage) ==
  /\ At(u, "idle")
  /\ ops < MaxOps
  /\ ops' = ops + 1
  /\ op' = [op EXCEPT ![u] = [NoOp EXCEPT !.kind = kind, !.path = p, !.id = i,
                                          !.owner = owner, !.force = force]]
  /\ Goto(u, stage)
  /\ UNCHANGED <<locks, lock>>

\* lfs-lock.
StartLock(u, p, owner) == Start(u, "lock", p, NewId, owner, FALSE, "wait")

\* lfs-unlock, by path or by an id some listing showed.
StartUnlock(u, p, owner, force) == Start(u, "unlock", p, 0, owner, force, "lookup")
StartUnlockId(u, i, owner, force) == Start(u, "unlock", Nobody, i, owner, force, "wait")

\* FindLFSLockByPath, before any lock is taken.
LookUp(u) ==
  /\ At(u, "lookup")
  /\ \E list \in Fetched :
       /\ \E i \in Ids :
            /\ \/ \E l \in list : l.path = op[u].path /\ l.id = i
               \/ i = 0 /\ \A l \in list : l.path # op[u].path
            /\ op' = [op EXCEPT ![u].id = i, ![u].found = list]
       /\ Goto(u, "wait")
  /\ UNCHANGED <<locks, lock, ops>>

\* withLFSLocksIndexLock.
Acquire(u) ==
  /\ At(u, "wait")
  /\ LockFree
  /\ lock' = u
  /\ Goto(u, "read")
  /\ UNCHANGED <<locks, op, ops>>

Return(u) ==
  /\ Goto(u, "idle")
  /\ op' = [op EXCEPT ![u] = NoOp]

\* The wait ends at lfsLocksIndexWait.
GiveUp(u) ==
  /\ At(u, "wait")
  /\ lock # Free
  /\ Return(u)
  /\ UNCHANGED <<locks, lock, ops>>

Read(u) ==
  /\ At(u, "read")
  /\ \E list \in Fetched : op' = [op EXCEPT ![u].list = list]
  /\ Goto(u, "write")
  /\ UNCHANGED <<locks, lock, ops>>

\* Already locked, not found, or another's.
Refuse(u) ==
  /\ At(u, "write")
  /\ ~Allowed(u)
  /\ Goto(u, "release")
  /\ UNCHANGED <<locks, lock, op, ops>>

Write(u) ==
  /\ At(u, "write")
  /\ Allowed(u)
  /\ locks' = Rewritten(u)
  /\ Goto(u, "release")
  /\ UNCHANGED <<lock, op, ops>>

\* The deferred release; when it fails the index stays locked until its TTL.
Release(u) ==
  /\ At(u, "release")
  /\ lock' \in {lock} \union (IF lock = u THEN {Free} ELSE {})
  /\ Return(u)
  /\ UNCHANGED <<locks, ops>>

\* A read or the write fails.
Fail(u) ==
  /\ At(u, "read") \/ At(u, "write")
  /\ Goto(u, "release")
  /\ UNCHANGED <<locks, lock, op, ops>>

Crash(u) ==
  /\ ~At(u, "idle")
  /\ Return(u)
  /\ UNCHANGED <<locks, lock, ops>>

\* The TTL runs out on a lock left behind or, if LockLapses, on one in use.
Lapse ==
  /\ lock # Free
  /\ LockLapses \/ At(lock, "idle") \/ At(lock, "wait") \/ At(lock, "lookup")
  /\ lock' = Free
  /\ UNCHANGED <<locks, pc, op, ops>>

Next ==
  /\ \/ \E u \in Users :
          \/ \E p \in Paths, o \in Owners : StartLock(u, p, o)
          \/ \E o \in Owners, force \in BOOLEAN :
               \/ \E p \in Paths : StartUnlock(u, p, o, force)
               \/ \E l \in locks : StartUnlockId(u, l.id, o, force)
          \/ LookUp(u) \/ Acquire(u) \/ GiveUp(u) \/ Read(u) \/ Refuse(u) \/ Write(u)
          \/ Release(u) \/ Fail(u) \/ Crash(u)
     \/ Lapse
  /\ UNCHANGED setting

Spec == Init /\ [][Next]_vars
-----------------------------------------------------------------------------
\* A file has one lock at most, even when the index lock has let two writers through or the
\* list has gone missing: each checks the very list it writes (AcquireLFSLock).
PathsLockedOnce == \A l, m \in locks : l.path = m.path => l = m

\* Nobody writes over another's write, nor over a list that could not be read.
Serialised == ~LockLapses /\ ~BlobsVanish

\* A lock leaves the list by a release of that very lock, forced or by its owner, never as
\* the side effect of another update ("two concurrent lockers each publish a list containing
\* only their own lock and one of them silently disappears", lfs_lock.go:133-134); and a release
\* by path takes the lock the path had when it was looked up, and spares the next one ("a caller
\* that only has a path resolves it explicitly and can report which lock it is about to
\* release", :108-109).
LocksLeaveByRelease ==
  [][\A l \in locks \ locks' : Serialised => \E u \in Users :
       /\ Write(u)
       /\ op[u].kind = "unlock" /\ op[u].id = l.id
       /\ op[u].force \/ op[u].owner = l.owner
       /\ op[u].path # Nobody => l \in op[u].found]_vars
=============================================================================

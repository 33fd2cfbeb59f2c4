-------------------------------- MODULE PidLock --------------------------------
(***************************************************************************)
(* The PID file of a daemon (lib/pidSupport.py): a factory, an entry group,  *)
(* a frontend or a frontend group registers by taking an exclusive flock on  *)
(* the file and writing its PID in it; the tools that check, start or stop   *)
(* the daemon find out about it by trying the same lock.                     *)
(*                                                                         *)
(* flock belongs to the open file description, which the processes a daemon  *)
(* forks (lib/fork.py) share with it: the lock lasts until the last of them  *)
(* has closed it.                                                            *)
(***************************************************************************)
EXTENDS FiniteSets

CONSTANTS
    Daemons,    \* the processes that register, each once, named by their PIDs
    Observers,  \* the processes that call load_registered
    NoPid,      \* an empty file; nobody's PID
    NoOne       \* nobody holds the lock

ASSUME NamesAssumption ==
    /\ NoPid \notin Daemons
    /\ NoOne \notin Daemons \cup Observers
    /\ Daemons \cap Observers = {}

VARIABLES
    exists,   \* is there a PID file?
    content,  \* the PID that is written in it
    lock,     \* whose open file description has the flock
    pc,       \* how far each daemon is
    forked,   \* has the daemon a forked child that is alive?
    look,     \* how far each observer is with load_registered
    mypid     \* the PID each observer has read

lockVars == <<exists, content, lock, pc, forked, look, mypid>>

Positions == {"off", "create", "open", "locked", "truncated", "registered",
              "cleared", "left", "refused", "dead"}

(* Opening the file, a PID in it, or a lock on it, needs a file. *)
LockTypeOK ==
    /\ exists \in BOOLEAN
    /\ content \in Daemons \cup {NoPid}
    /\ lock \in Daemons \cup Observers \cup {NoOne}
    /\ pc \in [Daemons -> Positions]
    /\ forked \in [Daemons -> BOOLEAN]
    /\ look \in [Observers -> {"idle", "probing", "blocked", "read"}]
    /\ mypid \in [Observers -> Daemons \cup {NoPid}]
    /\ ~exists => /\ content = NoPid /\ lock = NoOne
                  /\ \A p \in Daemons : pc[p] \in {"off", "create", "dead"}

LockInit ==
    /\ exists = FALSE /\ content = NoPid /\ lock = NoOne
    /\ pc = [p \in Daemons |-> "off"]
    /\ forked = [p \in Daemons |-> FALSE]
    /\ look = [o \in Observers |-> "idle"]
    /\ mypid = [o \in Observers |-> NoPid]

Alive(p) == pc[p] \notin {"off", "dead"}

(* p has the description that register opened and locked. *)
HasFile(p) == pc[p] \in {"locked", "truncated", "registered", "cleared"}

Goes(p, from, to) == pc[p] = from /\ pc' = [pc EXCEPT ![p] = to]

-----------------------------------------------------------------------------
(* register *)

(* os.path.exists *)
LookForFile(p) ==
    /\ Goes(p, "off", IF exists THEN "open" ELSE "create")
    /\ UNCHANGED <<exists, content, lock, forked, look, mypid>>

(* Mutant of CreateFile: the lock file is not created after all. *)
CreateNoFile(p) ==
    /\ Goes(p, "create", "open")
    /\ content' = NoPid
    /\ UNCHANGED <<exists, lock, forked, look, mypid>>

(* open(pid_fname, "w"): it may be there by now, and is emptied. *)
CreateFile(p) ==
    /\ Goes(p, "create", "open")
    /\ exists' = TRUE /\ content' = NoPid
    /\ UNCHANGED <<lock, forked, look, mypid>>

TakeLock(p) ==
    /\ lock = NoOne
    /\ Goes(p, "open", "locked")
    /\ lock' = p
    /\ UNCHANGED <<exists, content, forked, look, mypid>>

(* AlreadyRunning. *)
Refuse(p) ==
    /\ lock # NoOne
    /\ Goes(p, "open", "refused")
    /\ UNCHANGED <<exists, content, lock, forked, look, mypid>>

Truncate(p) ==
    /\ Goes(p, "locked", "truncated")
    /\ content' = NoPid
    /\ UNCHANGED <<exists, lock, forked, look, mypid>>

WritePid(p) ==
    /\ Goes(p, "truncated", "registered")
    /\ content' = p
    /\ UNCHANGED <<exists, lock, forked, look, mypid>>

-----------------------------------------------------------------------------
(* The daemon's life and relinquish *)

Fork(p) ==
    /\ pc[p] = "registered"
    /\ forked' = [forked EXCEPT ![p] = TRUE]
    /\ UNCHANGED <<exists, content, lock, pc, look, mypid>>

(* Mutant of LockWithout: the lock is the process's, as with fcntl.lockf. *)
LockWithoutFork(p, stillOpen) == IF lock = p THEN NoOne ELSE lock

(* The lock once daemon p, or its children, have closed the file. *)
LockWithout(p, stillOpen) == IF lock = p /\ ~stillOpen THEN NoOne ELSE lock

ChildrenExit(p) ==
    /\ forked[p]
    /\ forked' = [forked EXCEPT ![p] = FALSE]
    /\ lock' = LockWithout(p, HasFile(p))
    /\ UNCHANGED <<exists, content, pc, look, mypid>>

(* Mutant of Clear: the PID stays in the file. *)
ClearNothing(p) ==
    /\ Goes(p, "registered", "cleared")
    /\ UNCHANGED <<exists, content, lock, forked, look, mypid>>

Clear(p) ==
    /\ Goes(p, "registered", "cleared")
    /\ content' = NoPid
    /\ UNCHANGED <<exists, lock, forked, look, mypid>>

Close(p) ==
    /\ Goes(p, "cleared", "left")
    /\ lock' = LockWithout(p, forked[p])
    /\ UNCHANGED <<exists, content, forked, look, mypid>>

(* The process ends: as it should, refused, or killed at any moment. *)
Die(p) ==
    /\ Alive(p)
    /\ Goes(p, pc[p], "dead")
    /\ lock' = LockWithout(p, forked[p])
    /\ UNCHANGED <<exists, content, forked, look, mypid>>

-----------------------------------------------------------------------------
(* load_registered *)

(* It gets the lock: no process.  The file is closed on return. *)
Probe(o) ==
    /\ look[o] = "idle" /\ exists /\ lock = NoOne
    /\ look' = [look EXCEPT ![o] = "probing"]
    /\ lock' = o
    /\ mypid' = [mypid EXCEPT ![o] = NoPid]
    /\ UNCHANGED <<exists, content, pc, forked>>

EndProbe(o) ==
    /\ look[o] = "probing"
    /\ look' = [look EXCEPT ![o] = "idle"]
    /\ lock' = NoOne
    /\ UNCHANGED <<exists, content, pc, forked, mypid>>

(* It does not: there is a process, and its PID is read all the same. *)
ProbeLocked(o) ==
    /\ look[o] = "idle" /\ exists /\ lock # NoOne
    /\ look' = [look EXCEPT ![o] = "blocked"]
    /\ mypid' = [mypid EXCEPT ![o] = NoPid]
    /\ UNCHANGED <<exists, content, lock, pc, forked>>

ReadPid(o) ==
    /\ look[o] = "blocked"
    /\ look' = [look EXCEPT ![o] = "read"]
    /\ mypid' = [mypid EXCEPT ![o] = content]
    /\ UNCHANGED <<exists, content, lock, pc, forked>>

(* Mutant of CheckPid: whatever the file says is reported. *)
TrustPid(o) ==
    /\ look[o] = "read"
    /\ look' = [look EXCEPT ![o] = "idle"]
    /\ UNCHANGED <<exists, content, lock, pc, forked, mypid>>

(* check_pid *)
CheckPid(o) ==
    /\ look[o] = "read"
    /\ look' = [look EXCEPT ![o] = "idle"]
    /\ mypid' = [mypid EXCEPT ![o] = IF @ \in Daemons /\ Alive(@) THEN @ ELSE NoPid]
    /\ UNCHANGED <<exists, content, lock, pc, forked>>

-----------------------------------------------------------------------------
LockNext ==
    \/ \E p \in Daemons :
          \/ LookForFile(p) \/ CreateFile(p) \/ TakeLock(p) \/ Refuse(p)
          \/ Truncate(p) \/ WritePid(p)
          \/ Fork(p) \/ ChildrenExit(p) \/ Clear(p) \/ Close(p) \/ Die(p)
    \/ \E o \in Observers :
          Probe(o) \/ EndProbe(o) \/ ProbeLocked(o) \/ ReadPid(o) \/ CheckPid(o)

LockSpec == LockInit /\ [][LockNext]_lockVars

-----------------------------------------------------------------------------
(* A daemon is at work from the moment it has the lock until it and all that *)
(* it forked have closed the file.                                           *)
AtWork(p) == HasFile(p) \/ forked[p]

(* Only one daemon is at work: a new one does not begin, even after a crash, *)
(* while a forked child of the old one is still at it.                       *)
OneAtWork == \A p, q \in Daemons : AtWork(p) /\ AtWork(q) => p = q

(* A PID in the file is that of the daemon at work, or of one that is dead:  *)
(* a process that has given the file up is never taken for the daemon.       *)
PidIsOwners == content # NoPid /\ Alive(content) => pc[content] = "registered"

(* load_registered reports only a process that is alive and did register,    *)
(* whatever was written, truncated or crashed while it looked.               *)
ReportsARegistrant ==
    [][\A o \in Observers :
          look[o] = "read" /\ look'[o] = "idle" /\ mypid'[o] # NoPid =>
              pc[mypid'[o]] \in {"registered", "cleared", "left"}]_lockVars
==============================================================================

------------------------------ MODULE WorkerLock ------------------------------
(***************************************************************************)
(* The advisory lock of `lode work`: a file beside the database that holds *)
(* the pid of the worker that runs. acquire looks at the file, reads the   *)
(* pid, asks the system whether a process has it, and overwrites the file, *)
(* each with a call of its own; release unlinks the file whoever wrote it. *)
(*                                                                         *)
(* A process is its pid. A killed worker leaves the file behind, and its   *)
(* pid can come back as another program or as a new worker.                *)
(***************************************************************************)
EXTENDS Naturals

CONSTANTS
  Pids,     \* the pids of the machine
  Overlap,  \* can one worker start while another is acquiring the lock?
  MaxKills  \* bound: workers killed

NoPid == "no pid"

ASSUME WorkerLockAssumption ==
  /\ Overlap \in BOOLEAN /\ MaxKills \in Nat
  /\ Pids \cap {NoPid, "absent"} = {}

VARIABLES
  file,   \* "absent", the pid the file holds, or NoPid for anything else
  doing,  \* what the process with each pid is doing
  seen,   \* what acquire read from the file, per process
  kills   \* workers killed so far

lockVars == <<file, doing, seen, kills>>

Acquiring == {"exists", "read", "probe", "write", "fill"}

LockInit ==
  /\ file \in {"absent", NoPid} \cup Pids
  /\ doing = [p \in Pids |-> "off"]
  /\ seen = [p \in Pids |-> NoPid]
  /\ kills = 0

Go(p, to) == doing' = [doing EXCEPT ![p] = to]

\* `lode work` starts, or another program that gets the pid.
Start(p) ==
  /\ doing[p] = "off"
  /\ Overlap \/ \A q \in Pids : doing[q] \notin Acquiring
  /\ Go(p, "exists")
  /\ UNCHANGED <<file, seen, kills>>

StartOther(p) ==
  /\ doing[p] = "off"
  /\ Go(p, "other")
  /\ UNCHANGED <<file, seen, kills>>

OtherEnds(p) ==
  /\ doing[p] = "other"
  /\ Go(p, "off")
  /\ UNCHANGED <<file, seen, kills>>

\* self._lock.exists()
Exists(p) ==
  /\ doing[p] = "exists"
  /\ Go(p, IF file = "absent" THEN "write" ELSE "read")
  /\ UNCHANGED <<file, seen, kills>>

\* _read_pid: None for a file that has gone, or holds no integer.
ReadPid(p) ==
  /\ doing[p] = "read"
  /\ seen' = [seen EXCEPT ![p] = IF file = "absent" THEN NoPid ELSE file]
  /\ Go(p, "probe")
  /\ UNCHANGED <<file, kills>>

\* _pid_alive: any process that has the pid will do, this one included.
PidAlive(q) == q \in Pids /\ doing[q] # "off"

\* Slip: a present file is not probed.
ProbeTrusting(p) ==
  /\ doing[p] = "probe"
  /\ Go(p, "off")
  /\ seen' = [seen EXCEPT ![p] = NoPid]
  /\ UNCHANGED <<file, kills>>

\* Slip: a live pid does not refuse.
ProbeIgnoring(p) ==
  /\ doing[p] = "probe"
  /\ Go(p, "write")
  /\ seen' = [seen EXCEPT ![p] = NoPid]
  /\ UNCHANGED <<file, kills>>

\* LockHeld, or a stale file to overwrite.
Probe(p) ==
  /\ doing[p] = "probe"
  /\ Go(p, IF PidAlive(seen[p]) THEN "off" ELSE "write")
  /\ seen' = [seen EXCEPT ![p] = NoPid]
  /\ UNCHANGED <<file, kills>>

\* write_text opens the file, which empties it, then writes the pid.
Truncate(p) ==
  /\ doing[p] = "write"
  /\ file' = NoPid
  /\ Go(p, "fill")
  /\ UNCHANGED <<seen, kills>>

Fill(p) ==
  /\ doing[p] = "fill"
  /\ file' = p
  /\ Go(p, "held")
  /\ UNCHANGED <<seen, kills>>

\* release, on the way out of the with block.
Release(p) ==
  /\ doing[p] = "held"
  /\ file' = "absent"
  /\ Go(p, "off")
  /\ UNCHANGED <<seen, kills>>

\* Killed: no finally runs.
Kill(p) ==
  /\ doing[p] \in Acquiring \cup {"held"}
  /\ kills < MaxKills
  /\ kills' = kills + 1
  /\ Go(p, "off")
  /\ seen' = [seen EXCEPT ![p] = NoPid]
  /\ UNCHANGED file

AcquireStep(p) == Exists(p) \/ ReadPid(p) \/ Probe(p) \/ Truncate(p) \/ Fill(p)

LockNext ==
  \E p \in Pids :
    \/ Start(p) \/ AcquireStep(p) \/ Release(p)
    \/ Kill(p) \/ StartOther(p) \/ OtherEnds(p)

LockSpec == LockInit /\ [][LockNext]_lockVars

\* A worker that has started goes on, other programs end, and a worker is
\* started again and again, under every pid.
LockFairness ==
  \A p \in Pids :
    /\ WF_lockVars(AcquireStep(p))
    /\ WF_lockVars(OtherEnds(p))
    /\ SF_lockVars(Start(p))

FairLockSpec == LockSpec /\ LockFairness

-----------------------------------------------------------------------------
(* Properties.                                                             *)

LockTypeOK ==
  /\ file \in {"absent", NoPid} \cup Pids
  /\ doing \in [Pids -> Acquiring \cup {"off", "other", "held"}]
  /\ seen \in [Pids -> {NoPid} \cup Pids]
  /\ kills \in 0..MaxKills

\* "At most one worker runs at a time" (lock.py:3).
AtMostOneWorker ==
  \A p, q \in Pids : doing[p] = "held" /\ doing[q] = "held" => p = q

\* A worker that runs is the one the file names: another worker that starts
\* will find it, and no stranger's release has removed the file under it.
HolderIsNamed == \A p \in Pids : doing[p] = "held" => file = p

\* Whatever killed workers have left in the file, and whoever had their pids
\* for a while, the lock is taken again and again once other programs no longer
\* come and go under these pids: a stale file does not keep the lock.
LockIsTaken ==
  <>[](\A p \in Pids : doing[p] # "other")
    => []<>(\E p \in Pids : doing[p] = "held")
=============================================================================

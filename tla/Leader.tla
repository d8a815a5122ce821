------------------------------- MODULE Leader -------------------------------
(***************************************************************************)
(* core/scheduler_leader.py: which server process runs the background jobs.*)
(* Every process runs the same scheduler; before each run of a job         *)
(* leader_only calls is_leader, and only a process whose database          *)
(* connection holds the advisory lock goes on.  The lock belongs to the    *)
(* connection, so the process and the database can disagree: the process   *)
(* finds out that its connection is gone only at the next check, and the   *)
(* database may take a while to notice that a client is gone.              *)
(*                                                                         *)
(* The modules of the jobs extend this one and start a job where           *)
(* IsLeaderTrue(p) is taken.                                               *)
(***************************************************************************)
EXTENDS Naturals

CONSTANTS
  Procs,      \* the server processes
  Enabled,    \* those with SCHEDULER_ENABLED (the default)
  NoProc,     \* "nobody"
  MaxFaults   \* bound: lost connections, crashes, restarts and failed statements

ASSUME ProcsAssumption ==
  /\ Enabled \subseteq Procs
  /\ NoProc \notin Procs
  /\ MaxFaults \in Nat

VARIABLES
  lock,     \* the process whose connection holds the advisory lock, as the database sees it
  conn,     \* _leader_conn of each process: "none", "held", or "dead" and not noticed yet
  up,       \* a process is "up", "closing" (lifespan after yield) or "down"
  faults    \* how many faults there have been

leaderVars == <<lock, conn, up, faults>>

LeaderTypeOK ==
  /\ lock \in Procs \cup {NoProc}
  /\ conn \in [Procs -> {"none", "held", "dead"}]
  /\ up \in [Procs -> {"up", "closing", "down"}]
  /\ faults \in 0..MaxFaults

LeaderInit ==
  /\ lock = NoProc
  /\ conn = [p \in Procs |-> "none"]
  /\ up = [p \in Procs |-> "up"]
  /\ faults = 0

\* One more of the things that go wrong now and then.
Fault == faults < MaxFaults /\ faults' = faults + 1

\* is_leader answers True: the connection still answers SELECT 1, or a new one gets the lock.
IsLeaderTrue(p) ==
  /\ up[p] = "up" /\ p \in Enabled
  /\ \/ conn[p] = "held" /\ UNCHANGED <<lock, conn>>
     \/ conn[p] # "held" /\ lock = NoProc
        /\ lock' = p /\ conn' = [conn EXCEPT ![p] = "held"]
  /\ UNCHANGED <<up, faults>>

\* is_leader answers False: a dead connection is closed and forgotten, and the lock is taken
\* or the database cannot be reached.
IsLeaderFalse(p) ==
  /\ up[p] = "up" /\ p \in Enabled
  /\ conn[p] # "held"
  /\ \/ lock # NoProc /\ UNCHANGED faults
     \/ Fault
  /\ conn' = [conn EXCEPT ![p] = "none"]
  /\ UNCHANGED <<lock, up>>

\* The leader's connection breaks; the database has not noticed yet.
ConnLost(p) ==
  /\ conn[p] = "held" /\ Fault
  /\ conn' = [conn EXCEPT ![p] = "dead"]
  /\ UNCHANGED <<lock, up>>

\* The database ends a session whose client is gone, and with it the lock.
SessionEnds ==
  /\ lock # NoProc /\ conn[lock] # "held"
  /\ lock' = NoProc
  /\ UNCHANGED <<conn, up, faults>>

\* Shutdown: scheduler.shutdown() starts no further job, release() closes the connection.
\* A job thread that is running runs on until its end.
Release(p) ==
  /\ up[p] = "up" /\ Fault
  /\ up' = [up EXCEPT ![p] = "closing"]
  /\ conn' = [conn EXCEPT ![p] = "none"]
  /\ lock' = IF lock = p /\ conn[p] = "held" THEN NoProc ELSE lock

Crash(p) ==
  /\ up[p] # "down" /\ Fault
  /\ up' = [up EXCEPT ![p] = "down"]
  /\ conn' = [conn EXCEPT ![p] = "none"]
  /\ UNCHANGED lock

Restart(p) ==
  /\ up[p] # "up"
  /\ up' = [up EXCEPT ![p] = "up"]
  /\ UNCHANGED <<lock, conn, faults>>
=============================================================================

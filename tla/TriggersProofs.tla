--------------------------- MODULE TriggersProofs ---------------------------
(***************************************************************************)
(* Proofs about the proactive triggers, for any number of processes,       *)
(* triggers and editors and any crontabs.                                  *)
(***************************************************************************)
EXTENDS Triggers, SequenceTheorems, WellFoundedInduction, TLAPS

\* A claim has computed what it needs before it reaches its UPDATE.
JobOK ==
  \A p \in Procs : job[p].pc = "update" =>
    /\ job[p].cur \in Copies
    /\ job[p].cur.cron # None => job[p].next \in Nat

TypeInv == TypeOK /\ JobOK

\* A crontab with slots left has a first one.
LEMMA EarliestLater ==
  ASSUME now \in Nat, NEW c \in Crons, Later(c) # {}
  PROVE  \E s \in Later(c) : \A u \in Later(c) : s <= u
<1> DEFINE R == {ss \in Nat \X Nat : ss[1] < ss[2]}
<1>1. Later(c) \subseteq Nat
  BY TriggersAssumption DEF Later
<1>2. \E s \in Later(c) : \A u \in Later(c) : ~(<<u, s>> \in R)
  <2>1. IsWellFoundedOn(R, Nat)
    BY NatLessThanWellFounded, Zenon DEF OpToRel
  <2> HIDE DEF R
  <2> QED BY <1>1, <2>1, WFMin
<1> PICK s \in Later(c) : \A u \in Later(c) : ~(<<u, s>> \in R)
  BY <1>2
<1>3. \A u \in Nat : (<<u, s>> \in R) <=> u < s
  BY <1>1
<1> HIDE DEF R
<1>4. ASSUME NEW u \in Later(c) PROVE s <= u
  <2>1. u \in Nat /\ s \in Nat /\ ~(u < s)
    BY <1>1, <1>3
  <2> QED BY <2>1
<1> QED BY <1>4

\* next_cron_run, with the fallback of _claim, always answers a time that is still to come.
LEMMA NextCronIsLater ==
  ASSUME now \in Nat, NEW c \in Crons
  PROVE  NextCron(c) \in Nat /\ NextCron(c) > now
<1>1. CASE Later(c) = {}
  BY <1>1, TriggersAssumption DEF NextCron
<1>2. CASE Later(c) # {}
  <2>1. Later(c) \subseteq Nat
    BY TriggersAssumption DEF Later
  <2>2. \E s \in Later(c) : \A u \in Later(c) : s <= u
    BY <1>2, EarliestLater
  <2> QED BY <2>1, <2>2, <1>2 DEF NextCron, Later
<1> QED BY <1>1, <1>2

\* An edit leaves a trigger with a row that is well typed, and never moves it to a time that has
\* already come.
LEMMA EditedIsRow ==
  ASSUME now \in Nat, NEW r \in Rows, NEW current \in Rows, NEW arg \in Arguments
  PROVE  /\ Edited(r, current, arg) \in Rows
         /\ Edited(r, current, arg).next = r.next \/ Edited(r, current, arg).next > now
<1>1. /\ arg.active \in BOOLEAN \cup {None}
      /\ arg.minutes \in Minutes \cup {None}
      /\ arg.cron \in Crons \cup {None}
  BY DEF Arguments
<1>2. Minutes \subseteq Nat \ {0}
  BY TriggersAssumption
<1>3. arg.cron # None => NextCron(arg.cron) \in Nat /\ NextCron(arg.cron) > now
  BY <1>1, NextCronIsLater
<1> DEFINE new == Edited(r, current, arg)
<1>4. new.active \in BOOLEAN /\ new.minutes \in Minutes \cup {None} /\ new.cron \in Crons \cup {None}
  <2>1. r.active \in BOOLEAN /\ new.active = IF arg.active = None THEN r.active ELSE arg.active
    BY DEF Edited, Rows
  <2>2. new.active \in BOOLEAN
    BY <1>1, <2>1, Zenon
  <2>3. new.minutes \in Minutes \cup {None} /\ new.cron \in Crons \cup {None}
    BY <1>1 DEF Edited, Rows
  <2> QED BY <2>2, <2>3
<1>5. new.next \in Nat /\ (new.next = r.next \/ new.next > now)
  <2>1. new.next = IF arg.cron # None THEN NextCron(arg.cron)
                   ELSE IF arg.minutes # None /\ current.cron # None THEN now + arg.minutes
                   ELSE r.next
    BY DEF Edited
  <2>2. r.next \in Nat
    BY DEF Rows
  <2> HIDE DEF new
  <2>3. CASE arg.cron # None
    BY <1>3, <2>1, <2>3
  <2>4. CASE arg.cron = None /\ arg.minutes # None /\ current.cron # None
    <3>1. arg.minutes \in Nat \ {0}
      BY <1>1, <1>2, <2>4, Zenon
    <3>2. new.next = now + arg.minutes
      BY <2>1, <2>4, Zenon
    <3> QED BY <3>1, <3>2
  <2>5. CASE arg.cron = None /\ ~(arg.minutes # None /\ current.cron # None)
    BY <2>1, <2>2, <2>5
  <2> QED BY <2>3, <2>4, <2>5
<1>6. new = [active |-> new.active, minutes |-> new.minutes, cron |-> new.cron, next |-> new.next]
  BY DEF Edited
<1> HIDE DEF new
<1>7. new \in Rows
  BY <1>4, <1>5, <1>6 DEF Rows
<1> QED BY <1>5, <1>7 DEF new

\* Every step keeps the types.
LEMMA TypeStep == TypeInv /\ [Next]_vars => TypeInv'
<1> SUFFICES ASSUME TypeInv, [Next]_vars PROVE TypeInv'
  OBVIOUS
<1> USE DEF TypeInv, TypeOK
<1>0. now \in Nat /\ \A t \in Ids : row[t] # None => row[t] \in Rows
  BY TriggersAssumption
<1>j. Idle \in Jobs /\ \A p \in Procs : Rest(p) \in Jobs /\ Rest(p).pc # "update"
  BY DEF Idle, Jobs, Rest
<1>1. CASE Tick
  BY <1>1, TriggersAssumption DEF Tick, leaderVars, LeaderTypeOK, JobOK
<1>2. ASSUME NEW t \in Ids, NEW s \in Schedules, NEW a \in BOOLEAN, CreateTrigger(t, s, a) PROVE TypeInv'
  <2> DEFINE new == [active |-> a, minutes |-> s.minutes, cron |-> s.cron,
                     next |-> IF s.cron = None THEN now ELSE NextCron(s.cron)]
  <2>1. /\ s.minutes \in Minutes \cup {None} /\ s.cron \in Crons \cup {None}
        /\ OneSchedule(s)
    BY TriggersAssumption DEF Schedules, OneSchedule
  <2>2. (IF s.cron = None THEN now ELSE NextCron(s.cron)) \in Nat
    BY <1>0, <2>1, NextCronIsLater
  <2>3. new \in Rows /\ OneSchedule(new)
    BY <2>1, <2>2 DEF Rows, OneSchedule
  <2> HIDE DEF new
  <2>4. row' = [row EXCEPT ![t] = new] /\ UNCHANGED <<lock, conn, up, faults, now, job, edit, edits, claims>>
    BY <1>2 DEF CreateTrigger, leaderVars, new
  <2>5. row' \in [Ids -> Rows \cup {None}] /\ \A i \in Ids : row'[i] # None => OneSchedule(row'[i])
    BY <2>3, <2>4
  <2>6. made' \subseteq Ids
    BY <1>2 DEF CreateTrigger
  <2> QED BY <2>4, <2>5, <2>6 DEF LeaderTypeOK, JobOK
<1>3. ASSUME NEW e \in Editors, NEW t \in Ids, NEW arg \in Arguments, EditRead(e, t, arg) PROVE TypeInv'
  <2>1. [id |-> t, current |-> row[t], arg |-> arg] \in Edits
    BY <1>0, <1>3 DEF EditRead, Edits
  <2> QED BY <1>3, <2>1 DEF EditRead, leaderVars, LeaderTypeOK, JobOK
<1>4. ASSUME NEW e \in Editors, EditWrite(e) PROVE TypeInv'
  <2> DEFINE t == edit[e].id
             new == Edited(row[t], edit[e].current, edit[e].arg)
  <2>1. edit[e] \in [id : Ids, current : Rows, arg : Arguments]
    BY <1>4 DEF EditWrite, Edits
  <2>2. row[t] # None => new \in Rows
    BY <1>0, <2>1, EditedIsRow
  <2>3. row' = row \/ (row[t] # None /\ OneSchedule(new) /\ row' = [row EXCEPT ![t] = new])
    BY <1>4 DEF EditWrite
  <2> HIDE DEF new
  <2>4. row' \in [Ids -> Rows \cup {None}] /\ \A i \in Ids : row'[i] # None => OneSchedule(row'[i])
    BY <2>1, <2>2, <2>3
  <2>5. edit' \in [Editors -> Edits]
    BY <1>4 DEF EditWrite, Edits
  <2> QED BY <1>4, <2>4, <2>5 DEF EditWrite, leaderVars, LeaderTypeOK, JobOK
<1>5. ASSUME NEW t \in Ids, DeleteTrigger(t) PROVE TypeInv'
  BY <1>5 DEF DeleteTrigger, leaderVars, LeaderTypeOK, JobOK
<1>6. ASSUME NEW p \in Procs, StartJob(p) PROVE TypeInv'
  <2>1. job' \in [Procs -> Jobs] /\ JobOK'
    BY <1>6 DEF StartJob, jobOnly, Jobs, JobOK
  <2>2. LeaderTypeOK'
    BY <1>6 DEF StartJob, IsLeaderTrue, LeaderTypeOK
  <2> QED BY <1>6, <2>1, <2>2 DEF StartJob, jobOnly
<1>7. ASSUME NEW p \in Procs, NotLeader(p) PROVE TypeInv'
  <2>1. LeaderTypeOK'
    BY <1>7, ProcsAssumption DEF NotLeader, IsLeaderFalse, LeaderTypeOK, Fault
  <2> QED BY <1>7, <2>1 DEF NotLeader, trigVars, JobOK
<1>8. ASSUME NEW p \in Procs, LoadDue(p) PROVE TypeInv'
  <2> DEFINE due == {t \in Ids : Due(row[t])}
             copies == {[id |-> t, cron |-> row[t].cron, next |-> row[t].next] : t \in due}
             loaded == IF due = {} THEN Idle ELSE [Idle EXCEPT !.pc = "claim", !.due = copies]
  <2>1. copies \subseteq Copies
    BY <1>0 DEF Due, Copies, Rows
  <2> HIDE DEF copies
  <2>2. loaded \in Jobs /\ loaded.pc # "update"
    BY <2>1 DEF Idle, Jobs
  <2>3. job' = [job EXCEPT ![p] = loaded]
    BY <1>8 DEF LoadDue, copies
  <2> HIDE DEF loaded
  <2>4. job' \in [Procs -> Jobs] /\ JobOK'
    BY <2>2, <2>3 DEF JobOK
  <2> QED BY <1>8, <2>4 DEF LoadDue, leaderVars, LeaderTypeOK, jobOnly
<1>9. ASSUME NEW p \in Procs, Compute(p) PROVE TypeInv'
  <2> PICK c \in job[p].due :
         job' = [job EXCEPT ![p] =
           [pc |-> "update", due |-> job[p].due \ {c}, cur |-> c,
            next |-> IF c.cron = None THEN None ELSE NextCron(c.cron)]]
    BY <1>9 DEF Compute
  <2>1. job[p].due \subseteq Copies
    BY DEF Jobs
  <2>2. c \in Copies /\ c.cron \in Crons \cup {None}
    BY <2>1 DEF Copies
  <2>3. c.cron # None => NextCron(c.cron) \in Nat
    BY <1>0, <2>2, NextCronIsLater
  <2> DEFINE new == [pc |-> "update", due |-> job[p].due \ {c}, cur |-> c,
                     next |-> IF c.cron = None THEN None ELSE NextCron(c.cron)]
  <2>4. new \in Jobs /\ new.cur = c /\ (c.cron # None => new.next \in Nat)
    BY <2>1, <2>2, <2>3 DEF Jobs
  <2> HIDE DEF new
  <2>5. job' = [job EXCEPT ![p] = new]
    BY DEF new
  <2>6. job' \in [Procs -> Jobs] /\ JobOK'
    BY <2>2, <2>4, <2>5 DEF JobOK
  <2> QED BY <1>9, <2>6 DEF Compute, leaderVars, LeaderTypeOK, jobOnly
<1>a. ASSUME NEW p \in Procs, Update(p) PROVE TypeInv'
  <2> DEFINE c == job[p].cur
  <2>1. c \in Copies /\ c.id \in Ids /\ (c.cron # None => job[p].next \in Nat)
    BY <1>a DEF Update, JobOK, Copies
  <2>2. CASE ~Claimable(c)
    <3>1. job' = [job EXCEPT ![p] = Rest(p)]
      BY <1>a, <2>2 DEF Update
    <3>2. job' \in [Procs -> Jobs] /\ JobOK'
      BY <1>j, <3>1 DEF JobOK
    <3> QED BY <1>a, <2>2, <3>2 DEF Update, leaderVars, LeaderTypeOK
  <2>3. CASE Claimable(c)
    <3>1. row[c.id] \in Rows /\ row[c.id] # None
      BY <1>0, <2>1, <2>3 DEF Claimable, Due
    <3>2. Advanced(c, job[p].next) \in Nat
      <4>1. c.cron = None => row[c.id].minutes \in Nat
        BY <2>3, <3>1, TriggersAssumption DEF Claimable, Rows
      <4> QED BY <1>0, <2>1, <4>1 DEF Advanced
    <3>3. row' = [row EXCEPT ![c.id] = [row[c.id] EXCEPT !.next = Advanced(c, job[p].next)]]
      BY <1>a, <2>3 DEF Update
    <3>4. /\ [row[c.id] EXCEPT !.next = Advanced(c, job[p].next)] \in Rows
          /\ OneSchedule([row[c.id] EXCEPT !.next = Advanced(c, job[p].next)])
      BY <2>1, <3>1, <3>2 DEF Rows, OneSchedule
    <3>5. row' \in [Ids -> Rows \cup {None}] /\ \A i \in Ids : row'[i] # None => OneSchedule(row'[i])
      BY <2>1, <3>3, <3>4
    <3>6. job' = [job EXCEPT ![p].pc = "ask"]
      BY <1>a, <2>3 DEF Update
    <3>7. job' \in [Procs -> Jobs] /\ JobOK'
      BY <3>6 DEF Jobs, JobOK
    <3> DEFINE claim == [due |-> row[c.id].next, at |-> now, by |-> p, copy |-> c.cron,
                         minutes |-> row[c.id].minutes, cron |-> row[c.id].cron, edits |-> edits]
    <3>8. claim \in ClaimRecords
      BY <1>0, <2>1, <3>1 DEF ClaimRecords, Rows, Copies
    <3>9. claims' = [claims EXCEPT ![c.id] = Append(claims[c.id], claim)]
      BY <1>a, <2>3 DEF Update
    <3> HIDE DEF claim
    <3>10. claims' \in [Ids -> Seq(ClaimRecords)]
      BY <2>1, <3>8, <3>9
    <3> QED BY <1>a, <3>5, <3>7, <3>10 DEF Update, leaderVars, LeaderTypeOK
  <2> QED BY <2>2, <2>3
<1>b. ASSUME NEW p \in Procs, Ask(p) PROVE TypeInv'
  <2>1. job' \in [Procs -> Jobs] /\ JobOK'
    BY <1>b, <1>j DEF Ask, JobOK
  <2> QED BY <1>b, <2>1 DEF Ask, leaderVars, LeaderTypeOK, jobOnly
<1>c. ASSUME NEW p \in Procs, StepFails(p) PROVE TypeInv'
  <2>1. job' \in [Procs -> Jobs] /\ JobOK'
    BY <1>c, <1>j DEF StepFails, JobOK
  <2>2. LeaderTypeOK'
    BY <1>c, ProcsAssumption DEF StepFails, Fault, LeaderTypeOK
  <2> QED BY <1>c, <2>1, <2>2 DEF StepFails, jobOnly
<1>d. ASSUME NEW p \in Procs, ServerStops(p) \/ ServerStarts(p) \/ ConnectionLost(p) PROVE TypeInv'
  <2>1. CASE ServerStops(p)
    <3>1. LeaderTypeOK'
      BY <2>1, ProcsAssumption DEF ServerStops, Release, Fault, LeaderTypeOK
    <3> QED BY <2>1, <3>1 DEF ServerStops, trigVars, JobOK
  <2>2. CASE ServerStarts(p)
    BY <2>2 DEF ServerStarts, Restart, LeaderTypeOK, trigVars, JobOK
  <2>3. CASE ConnectionLost(p)
    <3>1. LeaderTypeOK'
      BY <2>3, ProcsAssumption DEF ConnectionLost, ConnLost, Fault, LeaderTypeOK
    <3> QED BY <2>3, <3>1 DEF ConnectionLost, trigVars, JobOK
  <2> QED BY <1>d, <2>1, <2>2, <2>3
<1>e. ASSUME NEW p \in Procs, ServerCrashes(p) PROVE TypeInv'
  <2>1. LeaderTypeOK'
    BY <1>e, ProcsAssumption DEF ServerCrashes, Crash, Fault, LeaderTypeOK
  <2>2. Idle.pc # "update"
    BY DEF Idle
  <2>3. job' \in [Procs -> Jobs] /\ JobOK'
    BY <1>e, <1>j, <2>2 DEF ServerCrashes, JobOK
  <2> QED BY <1>e, <2>1, <2>3 DEF ServerCrashes, jobOnly
<1>f. CASE LockDropped
  BY <1>f DEF LockDropped, SessionEnds, LeaderTypeOK, trigVars, JobOK
<1>g. CASE UNCHANGED vars
  BY <1>g DEF vars, leaderVars, trigVars, LeaderTypeOK, JobOK
<1> QED BY <1>1, <1>2, <1>3, <1>4, <1>5, <1>6, <1>7, <1>8, <1>9, <1>a, <1>b, <1>c, <1>d, <1>e, <1>f, <1>g
        DEF Next, Owner, JobStep

\* The initial state is well typed.
LEMMA TypeInit == Init => TypeInv
<1> SUFFICES ASSUME Init PROVE TypeInv
  OBVIOUS
<1>1. Idle \in Jobs
  BY DEF Idle, Jobs
<1>2. LeaderTypeOK
  BY ProcsAssumption DEF Init, LeaderInit, LeaderTypeOK
<1>3. JobOK
  BY DEF Init, JobOK, Idle
<1>4. <<>> \in Seq(ClaimRecords)
  OBVIOUS
<1> QED BY <1>1, <1>2, <1>3, <1>4, TriggersAssumption DEF Init, TypeInv, TypeOK, Edits

\* The jobs, the requests and the processes keep every variable well typed; in particular a row
\* has exactly one schedule and a next run after every edit, claim and fallback.
THEOREM TypeCorrect == Spec => []TypeInv
BY TypeInit, TypeStep, PTL DEF Spec

\* Why a due time is claimed once.  A new id has no past; the cron time a job is about to store is
\* still to come; and the next run of a trigger lies after all its claims, each of which came no
\* earlier than the time it was due.
FreshOK == \A t \in Ids : t \notin made => row[t] = None /\ claims[t] = <<>>
ComputedOK == \A p \in Procs : job[p].pc = "update" /\ job[p].cur.cron # None => job[p].next > now
ClaimsOK ==
  \A t \in Ids : \A i \in DOMAIN claims[t] :
    /\ claims[t][i].due <= claims[t][i].at
    /\ claims[t][i].at <= now
    /\ row[t] # None => claims[t][i].at < row[t].next
SlotInv == TypeInv /\ FreshOK /\ ComputedOK /\ ClaimsOK /\ SlotFiredOnce

\* The parts of SlotInv do not look at the processes, and hold on while rows and claims stay.
LEMMA SlotInvKept ==
  ASSUME SlotInv, UNCHANGED <<now, row, made, claims>>
  PROVE  FreshOK' /\ ClaimsOK' /\ SlotFiredOnce'
BY DEF SlotInv, FreshOK, ClaimsOK, SlotFiredOnce

\* What the owner's requests may do to a row.
Moved(t) ==
  \/ row'[t] = row[t]
  \/ row'[t] = None
  \/ claims[t] = <<>>
  \/ row[t] # None /\ (row'[t].next = row[t].next \/ row'[t].next > now)

\* SlotInv survives steps that move rows so and leave the clock and the claims.
LEMMA SlotInvRowsMoved ==
  ASSUME SlotInv, UNCHANGED <<now, claims>>, TypeInv',
         \A t \in Ids : Moved(t)
  PROVE  ClaimsOK' /\ SlotFiredOnce'
<1> USE DEF SlotInv, TypeInv, TypeOK
<1>1. SlotFiredOnce'
  BY DEF SlotFiredOnce
<1>2. ASSUME NEW t \in Ids, NEW i \in DOMAIN claims[t], row'[t] # None
      PROVE  claims[t][i].at < row'[t].next
  <2>1. claims[t][i].at \in Nat /\ claims[t][i].at <= now /\ now \in Nat
    <3>1. claims[t] \in Seq(ClaimRecords)
      OBVIOUS
    <3>2. claims[t][i] \in ClaimRecords
      BY <3>1, <1>2
    <3> QED BY <3>2, TriggersAssumption DEF ClaimRecords, ClaimsOK
  <2>2. row'[t].next \in Nat
    BY <1>2 DEF Rows
  <2>3. row[t] # None => claims[t][i].at < row[t].next
    BY DEF ClaimsOK
  <2>4. claims[t] # <<>>
    BY <1>2
  <2> QED BY <1>2, <2>1, <2>2, <2>3, <2>4 DEF Moved
<1>3. ClaimsOK'
  BY <1>2 DEF ClaimsOK
<1> QED BY <1>1, <1>3

\* Initially nothing has been claimed.
LEMMA SlotInit == Init => SlotInv
<1>1. Init => TypeInv
  BY TypeInit
<1> QED BY <1>1 DEF Init, Idle, SlotInv, FreshOK, ComputedOK, ClaimsOK, SlotFiredOnce

\* No step claims a due time again, or moves a trigger back to one.
LEMMA SlotStep == ASSUME Stall = FALSE PROVE SlotInv /\ [Next]_vars => SlotInv'
<1> SUFFICES ASSUME SlotInv, [Next]_vars PROVE SlotInv'
  OBVIOUS
<1>t. TypeInv' /\ TypeInv
  BY TypeStep DEF SlotInv
<1>0. now \in Nat /\ now' \in Nat
  BY <1>t, TriggersAssumption DEF TypeInv, TypeOK
<1>f. FreshOK /\ ComputedOK /\ ClaimsOK /\ SlotFiredOnce
  BY DEF SlotInv
<1>1. CASE Tick
  <2>1. ComputedOK'
    BY <1>1 DEF Tick, ComputedOK
  <2>2. FreshOK' /\ SlotFiredOnce'
    BY <1>1, <1>f DEF Tick, FreshOK, SlotFiredOnce
  <2>3. ClaimsOK'
    <3> SUFFICES ASSUME NEW t \in Ids, NEW i \in DOMAIN claims[t] PROVE claims[t][i].at <= now'
      BY <1>1, <1>f DEF Tick, ClaimsOK
    <3>1. claims[t] \in Seq(ClaimRecords)
      BY <1>t DEF TypeInv, TypeOK
    <3>2. claims[t][i] \in ClaimRecords
      BY <3>1
    <3>3. claims[t][i].at \in Nat
      BY <3>2 DEF ClaimRecords
    <3> QED BY <1>0, <1>1, <1>f, <3>3 DEF Tick, ClaimsOK
  <2> QED BY <1>t, <2>1, <2>2, <2>3 DEF SlotInv
<1>2. ASSUME NEW t \in Ids, NEW s \in Schedules, NEW a \in BOOLEAN, CreateTrigger(t, s, a) PROVE SlotInv'
  <2>1. ClaimsOK' /\ SlotFiredOnce'
    <3>1. claims[t] = <<>> /\ \A u \in Ids : u # t => row'[u] = row[u]
      BY <1>2, <1>f, <1>t DEF CreateTrigger, FreshOK, TypeInv, TypeOK
    <3>2. \A u \in Ids : Moved(u)
      BY <3>1 DEF Moved
    <3> QED BY <1>2, <1>t, <3>2, SlotInvRowsMoved DEF CreateTrigger
  <2>2. FreshOK' /\ ComputedOK'
    BY <1>2, <1>f, <1>t DEF CreateTrigger, FreshOK, ComputedOK, TypeInv, TypeOK
  <2> QED BY <1>t, <2>1, <2>2 DEF SlotInv
<1>3. ASSUME NEW e \in Editors, NEW t \in Ids, NEW arg \in Arguments, EditRead(e, t, arg) PROVE SlotInv'
  BY <1>3, <1>f, <1>t, SlotInvKept DEF EditRead, ComputedOK, SlotInv
<1>4. ASSUME NEW e \in Editors, EditWrite(e) PROVE SlotInv'
  <2> DEFINE t == edit[e].id
             new == Edited(row[t], edit[e].current, edit[e].arg)
  <2>1. edit[e] \in [id : Ids, current : Rows, arg : Arguments]
    BY <1>4, <1>t DEF EditWrite, Edits, TypeInv, TypeOK
  <2>2. row[t] # None => (new.next = row[t].next \/ new.next > now)
    <3>1. row[t] # None => row[t] \in Rows
      BY <1>t, <2>1 DEF TypeInv, TypeOK
    <3> QED BY <1>0, <2>1, <3>1, EditedIsRow
  <2>3. row' = row \/ (row[t] # None /\ row' = [row EXCEPT ![t] = new])
    BY <1>4 DEF EditWrite
  <2> HIDE DEF new
  <2>4. \A u \in Ids : Moved(u) /\ (row'[u] = row[u] \/ row[u] # None)
    BY <1>t, <2>1, <2>2, <2>3 DEF Moved, TypeInv, TypeOK
  <2>5. ClaimsOK' /\ SlotFiredOnce'
    BY <1>4, <1>t, <2>4, SlotInvRowsMoved DEF EditWrite
  <2>6. FreshOK' /\ ComputedOK'
    BY <1>4, <1>f, <2>4 DEF EditWrite, FreshOK, ComputedOK
  <2> QED BY <1>t, <2>5, <2>6 DEF SlotInv
<1>5. ASSUME NEW t \in Ids, DeleteTrigger(t) PROVE SlotInv'
  <2>1. \A u \in Ids : row'[u] = row[u] \/ row'[u] = None
    BY <1>5, <1>t DEF DeleteTrigger, TypeInv, TypeOK
  <2>2. ClaimsOK' /\ SlotFiredOnce'
    <3>1. \A u \in Ids : Moved(u)
      BY <2>1 DEF Moved
    <3> QED BY <1>5, <1>t, <3>1, SlotInvRowsMoved DEF DeleteTrigger
  <2>3. FreshOK' /\ ComputedOK'
    BY <1>5, <1>f, <2>1 DEF DeleteTrigger, FreshOK, ComputedOK
  <2> QED BY <1>t, <2>2, <2>3 DEF SlotInv
<1>6. ASSUME NEW p \in Procs, UNCHANGED <<now, row, made, claims>>,
             NEW new, job' = [job EXCEPT ![p] = new],
             new.pc = "update" /\ new.cur.cron # None => new.next > now
      PROVE  SlotInv'
  <2>1. ComputedOK'
    BY <1>6, <1>f, <1>t DEF ComputedOK, TypeInv, TypeOK
  <2> QED BY <1>6, <1>t, <2>1, SlotInvKept DEF SlotInv
<1>7. ASSUME UNCHANGED <<now, row, made, claims, job>> PROVE SlotInv'
  <2>1. ComputedOK'
    BY <1>7, <1>f DEF ComputedOK
  <2> QED BY <1>7, <1>t, <2>1, SlotInvKept DEF SlotInv
<1>j. Idle.pc # "update" /\ \A p \in Procs : Rest(p).pc # "update"
  BY DEF Idle, Rest
<1>8. ASSUME NEW p \in Procs, StartJob(p) PROVE SlotInv'
  <2>1. job' = [job EXCEPT ![p] = [job[p] EXCEPT !.pc = "load"]]
    BY <1>8 DEF StartJob
  <2>2. [job[p] EXCEPT !.pc = "load"].pc = "load"
    BY <1>t DEF TypeInv, TypeOK, Jobs
  <2> QED BY <1>6, <1>8, <2>1, <2>2 DEF StartJob, jobOnly
<1>9. ASSUME NEW p \in Procs, LoadDue(p) PROVE SlotInv'
  <2> DEFINE due == {t \in Ids : Due(row[t])}
             copies == {[id |-> t, cron |-> row[t].cron, next |-> row[t].next] : t \in due}
             loaded == IF due = {} THEN Idle ELSE [Idle EXCEPT !.pc = "claim", !.due = copies]
  <2> HIDE DEF copies
  <2>1. loaded.pc # "update"
    BY <1>j DEF Idle
  <2>2. job' = [job EXCEPT ![p] = loaded]
    BY <1>9 DEF LoadDue, copies
  <2> HIDE DEF loaded
  <2> QED BY <1>6, <1>9, <2>1, <2>2 DEF LoadDue, jobOnly
<1>a. ASSUME NEW p \in Procs, Compute(p) PROVE SlotInv'
  <2> PICK c \in job[p].due :
         job' = [job EXCEPT ![p] =
           [pc |-> "update", due |-> job[p].due \ {c}, cur |-> c,
            next |-> IF c.cron = None THEN None ELSE NextCron(c.cron)]]
    BY <1>a DEF Compute
  <2>1. job[p].due \subseteq Copies
    BY <1>t DEF TypeInv, TypeOK, Jobs
  <2>2. c.cron # None => NextCron(c.cron) > now
    BY <1>0, <2>1, NextCronIsLater DEF Copies
  <2> QED BY <1>6, <1>a, <2>2 DEF Compute, jobOnly
<1>b. ASSUME NEW p \in Procs, Update(p) PROVE SlotInv'
  <2> DEFINE c == job[p].cur
  <2>1. CASE ~Claimable(c)
    BY <1>6, <1>b, <1>j, <2>1 DEF Update
  <2>2. CASE Claimable(c)
    <3> DEFINE t == c.id
               next == Advanced(c, job[p].next)
               claim == [due |-> row[t].next, at |-> now, by |-> p, copy |-> c.cron,
                         minutes |-> row[t].minutes, cron |-> row[t].cron, edits |-> edits]
               n == Len(claims[t])
    <3>1. t \in Ids /\ c \in Copies
      BY <1>b, <1>t DEF Update, TypeInv, JobOK, Copies
    <3>2. row[t] \in Rows /\ row[t] # None /\ row[t].next \in Nat /\ row[t].next <= now
      BY <1>t, <2>2, <3>1 DEF Claimable, Due, TypeInv, TypeOK, Rows
    <3>3. next \in Nat /\ next > now
      <4>1. CASE c.cron # None
        BY <1>b, <1>t, <1>f, <4>1 DEF Update, Advanced, ComputedOK, TypeInv, JobOK
      <4>2. CASE c.cron = None
        <5>1. row[t].minutes \in Nat \ {0}
          BY <2>2, <3>2, <4>2, TriggersAssumption DEF Claimable, Rows
        <5> QED BY <1>0, <4>2, <5>1 DEF Advanced
      <4> QED BY <4>1, <4>2
    <3>4. /\ row' = [row EXCEPT ![t] = [row[t] EXCEPT !.next = next]]
          /\ claims' = [claims EXCEPT ![t] = Append(claims[t], claim)]
          /\ job' = [job EXCEPT ![p].pc = "ask"]
          /\ now' = now /\ made' = made
      BY <1>b, <2>2 DEF Update
    <3>5. claim.due = row[t].next /\ claim.at = now
      OBVIOUS
    <3> HIDE DEF next, claim
    <3>6. claims[t] \in Seq(ClaimRecords) /\ n \in Nat /\ DOMAIN claims[t] = 1..n
      BY <1>t, <3>1 DEF TypeInv, TypeOK
    <3>7. \A i \in 1..n : claims[t][i].due \in Nat /\ claims[t][i].at \in Nat
      <4>1. \A i \in 1..n : claims[t][i] \in ClaimRecords
        BY <3>6
      <4> QED BY <4>1 DEF ClaimRecords
    <3>8. /\ DOMAIN claims'[t] = 1..n + 1
          /\ \A i \in 1..n : claims'[t][i] = claims[t][i]
          /\ claims'[t][n + 1] = claim
      <4>1. claims'[t] = Append(claims[t], claim)
        BY <1>t, <3>1, <3>4 DEF TypeInv, TypeOK
      <4>2. claim \in ClaimRecords
        BY <1>t, <3>1, <3>2 DEF claim, ClaimRecords, Rows, Copies, TypeInv, TypeOK
      <4> QED BY <3>6, <4>1, <4>2
    <3>9. row'[t].next = next /\ \A u \in Ids : u # t => row'[u] = row[u] /\ claims'[u] = claims[u]
      BY <1>t, <3>1, <3>2, <3>4 DEF TypeInv, TypeOK, Rows
    <3>10. \A i \in 1..n : /\ claims[t][i].due <= claims[t][i].at
                           /\ claims[t][i].at <= now /\ claims[t][i].at < row[t].next
      BY <1>f, <3>1, <3>2, <3>6 DEF ClaimsOK
    <3>11. ClaimsOK'
      <4>1. ASSUME NEW i \in 1..n + 1
            PROVE  claims'[t][i].due <= claims'[t][i].at /\ claims'[t][i].at <= now /\ claims'[t][i].at < next
        <5>1. CASE i = n + 1
          <6>1. claims'[t][i].due = row[t].next /\ claims'[t][i].at = now
            BY <3>5, <3>8, <5>1
          <6> QED BY <1>0, <3>2, <3>3, <6>1
        <5>2. CASE i \in 1..n
          <6>1. claims'[t][i] = claims[t][i]
            BY <3>8, <5>2
          <6>2. /\ claims[t][i].due \in Nat /\ claims[t][i].at \in Nat
                /\ claims[t][i].due <= claims[t][i].at /\ claims[t][i].at <= now
            BY <3>7, <3>10, <5>2
          <6> QED BY <1>0, <3>3, <6>1, <6>2
        <5> QED BY <3>6, <5>1, <5>2
      <4>2. ASSUME NEW u \in Ids, u # t, NEW i \in DOMAIN claims'[u]
            PROVE  /\ claims'[u][i].due <= claims'[u][i].at /\ claims'[u][i].at <= now
                   /\ row'[u] # None => claims'[u][i].at < row'[u].next
        BY <1>f, <3>9, <4>2 DEF ClaimsOK
      <4>3. ASSUME NEW i \in DOMAIN claims'[t]
            PROVE  /\ claims'[t][i].due <= claims'[t][i].at /\ claims'[t][i].at <= now
                   /\ claims'[t][i].at < row'[t].next
        BY <3>8, <3>9, <4>1, <4>3
      <4> QED BY <3>4, <4>2, <4>3 DEF ClaimsOK
    <3>12. SlotFiredOnce'
      <4>1. ASSUME NEW i \in 1..n + 1, NEW j \in 1..n + 1, i < j
            PROVE  claims'[t][i].due < claims'[t][j].due
        <5>1. i \in 1..n
          BY <3>6, <4>1
        <5>2. CASE j = n + 1
          <6>1. claims'[t][i] = claims[t][i] /\ claims'[t][j].due = row[t].next
            BY <3>5, <3>8, <5>1, <5>2
          <6>2. /\ claims[t][i].due \in Nat /\ claims[t][i].at \in Nat
                /\ claims[t][i].due <= claims[t][i].at /\ claims[t][i].at < row[t].next
            BY <3>7, <3>10, <5>1
          <6> QED BY <3>2, <6>1, <6>2
        <5>3. CASE j \in 1..n
          BY <1>f, <3>1, <3>6, <3>8, <4>1, <5>1, <5>3 DEF SlotFiredOnce
        <5> QED BY <3>6, <5>2, <5>3
      <4>2. ASSUME NEW u \in Ids, u # t, NEW i \in DOMAIN claims'[u], NEW j \in DOMAIN claims'[u], i < j
            PROVE  claims'[u][i].due < claims'[u][j].due
        BY <1>f, <3>9, <4>2 DEF SlotFiredOnce
      <4> QED BY <3>8, <4>1, <4>2 DEF SlotFiredOnce
    <3>13. ComputedOK'
      BY <1>f, <1>t, <3>4 DEF ComputedOK, TypeInv, TypeOK, Jobs
    <3>14. FreshOK'
      BY <1>f, <3>1, <3>2, <3>4, <3>9 DEF FreshOK
    <3> QED BY <1>t, <3>11, <3>12, <3>13, <3>14 DEF SlotInv
  <2> QED BY <2>1, <2>2
<1>c. ASSUME NEW p \in Procs, Ask(p) \/ StepFails(p) \/ ServerCrashes(p) PROVE SlotInv'
  BY <1>6, <1>c, <1>j DEF Ask, StepFails, ServerCrashes, jobOnly
<1>d. ASSUME NEW p \in Procs, NotLeader(p) \/ ServerStops(p) \/ ServerStarts(p) \/ ConnectionLost(p)
      PROVE  SlotInv'
  BY <1>7, <1>d DEF NotLeader, ServerStops, ServerStarts, ConnectionLost, trigVars
<1>e. CASE LockDropped
  BY <1>7, <1>e DEF LockDropped, trigVars
<1>g. CASE UNCHANGED vars
  BY <1>7, <1>g DEF vars, trigVars
<1> QED BY <1>1, <1>2, <1>3, <1>4, <1>5, <1>8, <1>9, <1>a, <1>b, <1>c, <1>d, <1>e, <1>g
        DEF Next, Owner, JobStep

\* Whatever the processes, the database connections and the owner do, no due time of a trigger is
\* claimed twice, as long as no process sleeps over a tick inside _claim (Stall).
THEOREM FiredOnce == ASSUME Stall = FALSE PROVE Spec => []SlotFiredOnce
<1>1. SlotInv => SlotFiredOnce
  BY DEF SlotInv
<1> QED BY <1>1, SlotInit, SlotStep, PTL DEF Spec

\* A step that leaves the rows, the claims and the clock is invisible to the schedule.
LEMMA Invisible ==
  ASSUME UNCHANGED <<now, row, claims>>
  PROVE  UNCHANGED <<now, DueAt, Firings>>
BY DEF DueAt, Firings

\* A request of the owner is a rescheduling of the one trigger it touches.
LEMMA OwnerReschedules ==
  ASSUME SlotInv, SlotInv', NEW t \in Ids, UNCHANGED <<now, claims>>,
         \A u \in Ids : u # t => row'[u] = row[u]
  PROVE  Promise!Reschedule(t)
<1>1. Firings' = Firings
  BY DEF Firings
<1>2. DueAt' = [DueAt EXCEPT ![t] = DueAt'[t]]
  BY DEF DueAt
<1>3. ASSUME DueAt'[t] # None, NEW i \in DOMAIN Firings[t] PROVE DueAt'[t] > Firings[t][i].at
  <2>1. row'[t] # None /\ DueAt'[t] = row'[t].next
    BY <1>3 DEF DueAt
  <2>2. i \in DOMAIN claims'[t] /\ Firings[t][i].at = claims'[t][i].at
    BY <1>3 DEF Firings
  <2>3. claims'[t][i].at < row'[t].next
    BY <2>1, <2>2 DEF SlotInv, ClaimsOK
  <2>4. row'[t].next \in Nat /\ claims'[t][i].at \in Nat
    <3>1. claims'[t] \in Seq(ClaimRecords) /\ row'[t] \in Rows
      BY <2>1 DEF SlotInv, TypeInv, TypeOK
    <3>2. claims'[t][i] \in ClaimRecords
      BY <2>2, <3>1
    <3> QED BY <3>1, <3>2 DEF Rows, ClaimRecords
  <2> QED BY <2>1, <2>2, <2>3, <2>4
<1> QED BY <1>1, <1>2, <1>3 DEF Promise!Reschedule

\* A function on 1..k is a sequence of length k.
LEMMA FunctionIsSeq ==
  ASSUME NEW S, NEW k \in Nat, NEW f \in [1..k -> S]
  PROVE  f \in Seq(S) /\ Len(f) = k
OBVIOUS

\* What Append answers, place by place.
LEMMA AppendIsFunction ==
  ASSUME NEW S, NEW s \in Seq(S), NEW e \in S
  PROVE  Append(s, e) = [i \in 1..Len(s) + 1 |-> IF i = Len(s) + 1 THEN e ELSE s[i]]
<1>1. /\ Append(s, e) \in Seq(S) /\ Len(Append(s, e)) = Len(s) + 1
      /\ \A i \in 1..Len(s) : Append(s, e)[i] = s[i]
      /\ Append(s, e)[Len(s) + 1] = e
  BY AppendProperties
<1>2. DOMAIN Append(s, e) = 1..Len(s) + 1
  BY <1>1
<1>3. Append(s, e) = [i \in DOMAIN Append(s, e) |-> Append(s, e)[i]]
  <2>1. Append(s, e) \in [1..Len(Append(s, e)) -> S]
    BY <1>1, LenProperties
  <2> QED BY <2>1
<1>4. Len(s) \in Nat
  OBVIOUS
<1>5. \A i \in 1..Len(s) + 1 : Append(s, e)[i] = IF i = Len(s) + 1 THEN e ELSE s[i]
  BY <1>1, <1>4
<1> QED BY <1>2, <1>3, <1>5

\* A successful claim is a firing.
LEMMA ClaimFires ==
  ASSUME SlotInv, SlotInv', NEW p \in Procs, Update(p), Claimable(job[p].cur)
  PROVE  Promise!Fire(job[p].cur.id)
<1> DEFINE c == job[p].cur
           t == c.id
           claim == [due |-> row[t].next, at |-> now, by |-> p, copy |-> c.cron,
                     minutes |-> row[t].minutes, cron |-> row[t].cron, edits |-> edits]
<1>1. t \in Ids /\ c \in Copies
  BY DEF Update, SlotInv, TypeInv, JobOK, Copies
<1>2. row[t] \in Rows /\ row[t] # None /\ row[t].active /\ row[t].next <= now
  BY <1>1 DEF Claimable, Due, SlotInv, TypeInv, TypeOK
<1>3. /\ row' = [row EXCEPT ![t] = [row[t] EXCEPT !.next = Advanced(c, job[p].next)]]
      /\ claims' = [claims EXCEPT ![t] = Append(claims[t], claim)]
      /\ now' = now
  BY DEF Update
<1>4. DueAt[t] = row[t].next
  BY <1>1, <1>2 DEF DueAt
<1>5. DueAt' = [DueAt EXCEPT ![t] = DueAt'[t]]
  <2>1. \A u \in Ids : u # t => row'[u] = row[u]
    BY <1>1, <1>3 DEF SlotInv, TypeInv, TypeOK
  <2> QED BY <1>1, <2>1 DEF DueAt
<1>6. claim.due = row[t].next /\ claim.at = now
  OBVIOUS
<1>7. claim \in ClaimRecords
  <2>1. now \in Nat /\ edits \in Nat
    BY TriggersAssumption DEF SlotInv, TypeInv, TypeOK
  <2>2. /\ row[t].next \in Nat /\ row[t].minutes \in Minutes \cup {None}
        /\ row[t].cron \in Crons \cup {None} /\ c.cron \in Crons \cup {None}
    BY <1>1, <1>2 DEF Rows, Copies
  <2> QED BY <2>1, <2>2 DEF ClaimRecords
<1> HIDE DEF claim
<1> DEFINE n == Len(claims[t])
<1>8. claims[t] \in Seq(ClaimRecords) /\ n \in Nat /\ DOMAIN claims[t] = 1..n
  BY <1>1 DEF SlotInv, TypeInv, TypeOK
<1>9. claims'[t] = Append(claims[t], claim) /\ \A u \in Ids : u # t => claims'[u] = claims[u]
  BY <1>1, <1>3 DEF SlotInv, TypeInv, TypeOK
<1>10. /\ DOMAIN claims'[t] = 1..n + 1 /\ claims'[t][n + 1] = claim
       /\ \A i \in 1..n : claims'[t][i] = claims[t][i]
  <2>1. \A S : \A s \in Seq(S), e \in S :
          /\ DOMAIN Append(s, e) = 1..Len(s) + 1 /\ Append(s, e)[Len(s) + 1] = e
          /\ \A i \in 1..Len(s) : Append(s, e)[i] = s[i]
    OBVIOUS
  <2> QED BY <1>7, <1>8, <1>9, <2>1
<1>11. DueAt'[t] \in Nat /\ DueAt'[t] > now
  <2>1. row'[t] # None /\ row'[t] \in Rows /\ row'[t].active = row[t].active
    <3>1. row'[t] = [row[t] EXCEPT !.next = Advanced(c, job[p].next)]
      BY <1>1, <1>3 DEF SlotInv, TypeInv, TypeOK
    <3>2. row'[t].active = row[t].active /\ row'[t] = [row[t] EXCEPT !.next = row'[t].next]
      BY <1>2, <3>1 DEF Rows
    <3>3. row'[t] \in Rows \cup {None}
      BY <1>1 DEF SlotInv, TypeInv, TypeOK
    <3>4. Advanced(c, job[p].next) \in Nat
      <4>1. c.cron # None => job[p].next \in Nat
        BY DEF Update, SlotInv, TypeInv, JobOK
      <4>2. c.cron = None => row[t].minutes \in Nat
        BY <1>2, TriggersAssumption DEF Claimable, Rows
      <4>3. now \in Nat
        BY TriggersAssumption DEF SlotInv, TypeInv, TypeOK
      <4> QED BY <4>1, <4>2, <4>3 DEF Advanced
    <3>5. row'[t] \in Rows
      BY <1>2, <3>1, <3>4 DEF Rows
    <3> QED BY <3>2, <3>5, NoneAssumption
  <2>2. DueAt'[t] = row'[t].next
    BY <1>1, <1>2, <2>1 DEF DueAt
  <2>3. claims'[t][n + 1].at < row'[t].next
    <3>1. n + 1 \in DOMAIN claims'[t]
      BY <1>8, <1>10
    <3> QED BY <1>1, <2>1, <3>1 DEF SlotInv, ClaimsOK
  <2>4. row'[t].next \in Nat
    BY <2>1 DEF Rows
  <2>5. now \in Nat
    BY TriggersAssumption DEF SlotInv, TypeInv, TypeOK
  <2> QED BY <1>6, <1>10, <2>2, <2>3, <2>4, <2>5
<1>12. Firings' = [Firings EXCEPT ![t] = Append(Firings[t], [due |-> DueAt[t], at |-> now])]
  <2> DEFINE F(cs) == [i \in DOMAIN cs |-> [due |-> cs[i].due, at |-> cs[i].at]]
             new == [due |-> DueAt[t], at |-> now]
  <2>1. Firings[t] = F(claims[t]) /\ Firings'[t] = F(claims'[t])
    BY <1>1 DEF Firings
  <2>2. \A u \in Ids : u # t => Firings'[u] = Firings[u]
    BY <1>9 DEF Firings
  <2>3. F(claims'[t]) = Append(F(claims[t]), new)
    <3>1. F(claims[t]) \in Seq([due : Nat, at : Nat]) /\ Len(F(claims[t])) = n
      <4>1. \A i \in 1..n : claims[t][i].due \in Nat /\ claims[t][i].at \in Nat
        <5>1. \A i \in 1..n : claims[t][i] \in ClaimRecords
          BY <1>8
        <5> QED BY <5>1 DEF ClaimRecords
      <4> HIDE DEF n
      <4>2. F(claims[t]) \in [1..n -> [due : Nat, at : Nat]]
        BY <1>8, <4>1
      <4> HIDE DEF F
      <4> QED BY <1>8, <4>2, FunctionIsSeq
    <3>2. new \in [due : Nat, at : Nat]
      BY <1>2, <1>4, TriggersAssumption DEF SlotInv, TypeInv, TypeOK, Rows
    <3>3. F(claims'[t]) = [i \in 1..n + 1 |-> IF i = n + 1 THEN new ELSE F(claims[t])[i]]
      <4> HIDE DEF n
      <4>1. \A i \in 1..n + 1 : i # n + 1 => i \in 1..n
        BY <1>8
      <4>2. \A i \in 1..n + 1 : F(claims'[t])[i] = IF i = n + 1 THEN new ELSE F(claims[t])[i]
        BY <1>4, <1>6, <1>8, <1>10, <4>1
      <4>3. DOMAIN F(claims'[t]) = 1..n + 1
        BY <1>10
      <4>4. F(claims'[t]) = [i \in DOMAIN F(claims'[t]) |-> F(claims'[t])[i]]
        OBVIOUS
      <4> HIDE DEF F, new
      <4> QED BY <4>2, <4>3, <4>4
    <3> HIDE DEF F, new, n
    <3>4. Append(F(claims[t]), new) = [i \in 1..n + 1 |-> IF i = n + 1 THEN new ELSE F(claims[t])[i]]
      BY <3>1, <3>2, AppendIsFunction
    <3> QED BY <3>3, <3>4
  <2> HIDE DEF F
  <2> QED BY <1>1, <2>1, <2>2, <2>3 DEF Firings
<1>13. DueAt[t] # None /\ DueAt[t] <= now
  BY <1>2, <1>4, NoneAssumption DEF Rows
<1> QED BY <1>3, <1>5, <1>11, <1>12, <1>13 DEF Promise!Fire

\* The processes, their copies, their leadership and the owner's requests together implement the
\* schedule of TriggerSchedule: every firing is for the time that was due, once, and the next one
\* is due later (for every number of processes, triggers, editors and every crontab).
THEOREM Implements == ASSUME Stall = FALSE PROVE Spec => ImplementsSchedule
<1>1. Init => Promise!Init
  BY DEF Init, Promise!Init, DueAt, Firings
<1>2. SlotInv /\ SlotInv' /\ [Next]_vars => [Promise!Next]_<<now, DueAt, Firings>>
  <2> SUFFICES ASSUME SlotInv, SlotInv', [Next]_vars PROVE Promise!Next \/ UNCHANGED <<now, DueAt, Firings>>
    OBVIOUS
  <2>r. row \in [Ids -> Rows \cup {None}]
    BY DEF SlotInv, TypeInv, TypeOK
  <2>1. CASE Tick
    <3>1. UNCHANGED <<DueAt, Firings>>
      BY <2>1 DEF Tick, DueAt, Firings
    <3> QED BY <2>1, <3>1 DEF Tick, Promise!Next, Promise!Tick
  <2>2. ASSUME NEW t \in Ids, NEW s \in Schedules, NEW a \in BOOLEAN, CreateTrigger(t, s, a)
        PROVE  Promise!Next
    <3>1. UNCHANGED <<now, claims>> /\ \A u \in Ids : u # t => row'[u] = row[u]
      BY <2>2, <2>r DEF CreateTrigger
    <3> QED BY <3>1, OwnerReschedules DEF Promise!Next
  <2>3. ASSUME NEW e \in Editors, EditWrite(e) PROVE Promise!Next
    <3>1. edit[e].id \in Ids
      BY <2>3 DEF EditWrite, Edits, SlotInv, TypeInv, TypeOK
    <3>2. UNCHANGED <<now, claims>> /\ \A u \in Ids : u # edit[e].id => row'[u] = row[u]
      BY <2>3, <2>r DEF EditWrite
    <3> QED BY <3>1, <3>2, OwnerReschedules DEF Promise!Next
  <2>4. ASSUME NEW t \in Ids, DeleteTrigger(t) PROVE Promise!Next
    <3>1. UNCHANGED <<now, claims>> /\ \A u \in Ids : u # t => row'[u] = row[u]
      BY <2>4, <2>r DEF DeleteTrigger
    <3> QED BY <3>1, OwnerReschedules DEF Promise!Next
  <2>5. ASSUME NEW p \in Procs, Update(p) PROVE Promise!Next \/ UNCHANGED <<now, DueAt, Firings>>
    <3>1. CASE Claimable(job[p].cur)
      <4>1. job[p].cur.id \in Ids
        BY <2>5 DEF Update, SlotInv, TypeInv, JobOK, Copies
      <4> QED BY <2>5, <3>1, <4>1, ClaimFires DEF Promise!Next
    <3>2. CASE ~Claimable(job[p].cur)
      BY <2>5, <3>2, Invisible DEF Update
    <3> QED BY <3>1, <3>2
  <2>6. CASE UNCHANGED <<now, row, claims>>
    BY <2>6, Invisible
  <2>7. CASE \E e \in Editors, t \in Ids, arg \in Arguments : EditRead(e, t, arg)
    BY <2>6, <2>7 DEF EditRead
  <2>8. ASSUME NEW p \in Procs,
               \/ StartJob(p) \/ LoadDue(p) \/ Compute(p) \/ Ask(p) \/ NotLeader(p) \/ StepFails(p)
               \/ ServerStops(p) \/ ServerCrashes(p) \/ ServerStarts(p) \/ ConnectionLost(p)
        PROVE  UNCHANGED <<now, row, claims>>
    BY <2>8 DEF StartJob, LoadDue, Compute, Ask, NotLeader, StepFails, ServerStops, ServerCrashes,
                ServerStarts, ConnectionLost, jobOnly, trigVars
  <2>9. CASE LockDropped \/ UNCHANGED vars
    BY <2>6, <2>9 DEF LockDropped, vars, trigVars
  <2> QED BY <2>1, <2>2, <2>3, <2>4, <2>5, <2>6, <2>7, <2>8, <2>9 DEF Next, Owner, JobStep
<1> QED BY <1>1, <1>2, SlotInit, SlotStep, PTL DEF Spec, ImplementsSchedule, Promise!Spec

-----------------------------------------------------------------------------
(* No bursts. *)

\* Why there are none: the time a job is about to store is the next slot of its crontab, or a day ahead
\* when nothing is left to fire; and until somebody edits a trigger, its next run lies as far after
\* its last claim as its schedule asks for.
SlotsAhead(c, at, next) == (next \in Slots[c] /\ at < next) \/ next >= at + Day
Ahead(a, next) ==
  IF a.cron = None THEN a.minutes \in Nat /\ next >= a.at + a.minutes ELSE SlotsAhead(a.cron, a.at, next)
NextOK ==
  \A p \in Procs : job[p].pc = "update" /\ job[p].cur.cron # None =>
    SlotsAhead(job[p].cur.cron, now, job[p].next)
LastAhead(t, a) == row[t] # None /\ a.edits = edits /\ a.copy = a.cron => Ahead(a, row[t].next)
SpacingOK ==
  \A t \in Ids : \A i \in DOMAIN claims[t] :
    /\ claims[t][i].edits <= edits
    /\ i = Len(claims[t]) => LastAhead(t, claims[t][i])
BurstInv == SlotInv /\ NextOK /\ SpacingOK /\ NoBurst

\* next_cron_run answers a slot; without one left, _claim waits for a day.
LEMMA NextCronIsSlot ==
  ASSUME now \in Nat, NEW c \in Crons
  PROVE  SlotsAhead(c, now, NextCron(c))
<1>1. NextCron(c) \in Nat /\ NextCron(c) > now
  BY NextCronIsLater
<1>2. CASE Later(c) = {}
  BY <1>2, TriggersAssumption DEF NextCron, SlotsAhead
<1>3. CASE NextCron(c) \in Slots[c]
  BY <1>1, <1>3 DEF SlotsAhead
<1>4. CASE Later(c) # {} /\ NextCron(c) \notin Slots[c]
  <2>1. \E s \in Later(c) : \A u \in Later(c) : s <= u
    BY <1>4, EarliestLater
  <2>2. NextCron(c) = CHOOSE s \in Later(c) : \A u \in Later(c) : s <= u
    BY <1>4 DEF NextCron
  <2>3. NextCron(c) \in Later(c)
    BY <2>1, <2>2
  <2> QED BY <1>4, <2>3 DEF Later
<1> QED BY <1>2, <1>3, <1>4

\* The records of claims.
LEMMA ClaimType ==
  ASSUME TypeInv, NEW t \in Ids, NEW i \in DOMAIN claims[t]
  PROVE  /\ claims[t] \in Seq(ClaimRecords) /\ Len(claims[t]) \in Nat /\ i \in 1..Len(claims[t])
         /\ claims[t][i] \in ClaimRecords /\ claims[t][i].at \in Nat /\ claims[t][i].edits \in Nat
<1>1. claims[t] \in Seq(ClaimRecords)
  BY DEF TypeInv, TypeOK
<1>2. i \in 1..Len(claims[t]) /\ Len(claims[t]) \in Nat /\ claims[t][i] \in ClaimRecords
  BY <1>1
<1> QED BY <1>1, <1>2 DEF ClaimRecords

\* Steps that claim nothing and leave the rows of claimed triggers alone.
LEMMA SpacingKept ==
  ASSUME BurstInv, UNCHANGED <<claims, edits>>,
         \A t \in Ids : row'[t] = row[t] \/ row'[t] = None \/ claims[t] = <<>>
  PROVE  SpacingOK' /\ NoBurst'
<1>1. NoBurst'
  BY DEF BurstInv, NoBurst
<1>2. ASSUME NEW t \in Ids, NEW i \in DOMAIN claims[t], i = Len(claims[t])
      PROVE  LastAhead(t, claims[t][i])'
  <2>1. LastAhead(t, claims[t][i])
    BY <1>2 DEF BurstInv, SpacingOK
  <2>2. claims[t] # <<>>
    BY <1>2
  <2> QED BY <2>1, <2>2 DEF LastAhead
<1> QED BY <1>1, <1>2 DEF BurstInv, SpacingOK

\* An edit ends the comparison of the claims before it with those after it.
LEMMA SpacingEdited ==
  ASSUME BurstInv, TypeInv', UNCHANGED claims, edits' = edits + 1
  PROVE  SpacingOK' /\ NoBurst'
<1>1. NoBurst'
  BY DEF BurstInv, NoBurst
<1>2. ASSUME NEW t \in Ids, NEW i \in DOMAIN claims[t]
      PROVE  claims[t][i].edits <= edits' /\ claims[t][i].edits # edits'
  <2>1. claims[t][i].edits \in Nat /\ edits \in Nat /\ claims[t][i].edits <= edits
    BY ClaimType DEF BurstInv, SlotInv, SpacingOK, TypeInv, TypeOK
  <2> QED BY <2>1
<1> QED BY <1>1, <1>2 DEF SpacingOK, LastAhead

\* A claim comes as late after the one before it as the schedule asks for, and moves the trigger on.
LEMMA ClaimSpaced ==
  ASSUME BurstInv, TypeInv', NEW p \in Procs, Update(p), Claimable(job[p].cur)
  PROVE  SpacingOK' /\ NoBurst'
<1> DEFINE c == job[p].cur
           t == c.id
           next == Advanced(c, job[p].next)
           claim == [due |-> row[t].next, at |-> now, by |-> p, copy |-> c.cron,
                     minutes |-> row[t].minutes, cron |-> row[t].cron, edits |-> edits]
           n == Len(claims[t])
<1>1. /\ t \in Ids /\ c \in Copies /\ now \in Nat /\ edits \in Nat
      /\ row[t] \in Rows /\ row[t] # None /\ row[t].next \in Nat /\ row[t].next <= now
      /\ row[t].minutes \in Minutes \cup {None} /\ (c.cron = None => row[t].minutes # None)
      /\ row[t].cron \in Crons \cup {None}
  <2>1. t \in Ids /\ c \in Copies
    BY DEF Update, BurstInv, SlotInv, TypeInv, JobOK, Copies
  <2>2. row[t] # None /\ row[t].next <= now /\ (c.cron = None => row[t].minutes # None)
    BY DEF Claimable, Due
  <2>3. row[t] \in Rows /\ now \in Nat /\ edits \in Nat
    BY <2>1, <2>2, TriggersAssumption DEF BurstInv, SlotInv, TypeInv, TypeOK
  <2> QED BY <2>1, <2>2, <2>3 DEF Rows
<1>2. /\ row' = [row EXCEPT ![t] = [row[t] EXCEPT !.next = next]]
      /\ claims' = [claims EXCEPT ![t] = Append(claims[t], claim)]
      /\ edits' = edits
  BY DEF Update
<1>3. claim.at = now /\ claim.copy = c.cron /\ claim.cron = row[t].cron /\ claim.minutes = row[t].minutes
      /\ claim.edits = edits
  OBVIOUS
<1>4. claim \in ClaimRecords
  BY <1>1 DEF ClaimRecords, Copies
<1>5. claim.copy = claim.cron => Ahead(claim, next)
  <2>1. CASE c.cron = None
    <3>1. row[t].minutes \in Nat
      BY <1>1, <2>1, TriggersAssumption
    <3> QED BY <1>1, <1>3, <2>1, <3>1 DEF Ahead, Advanced
  <2>2. CASE c.cron # None
    <3>1. next = job[p].next
      BY <2>2 DEF Advanced
    <3>2. SlotsAhead(c.cron, now, next)
      BY <2>2, <3>1 DEF BurstInv, NextOK, Update
    <3> QED BY <1>3, <2>2, <3>2 DEF Ahead
  <2> QED BY <2>1, <2>2
<1>6. row'[t].next = next /\ \A u \in Ids : u # t => row'[u] = row[u] /\ claims'[u] = claims[u]
  BY <1>1, <1>2 DEF BurstInv, SlotInv, TypeInv, TypeOK, Rows
<1> HIDE DEF claim, next
<1>7. claims[t] \in Seq(ClaimRecords) /\ n \in Nat /\ DOMAIN claims[t] = 1..n
  BY <1>1 DEF BurstInv, SlotInv, TypeInv, TypeOK
<1>8. claims'[t] = Append(claims[t], claim)
  BY <1>1, <1>2 DEF BurstInv, SlotInv, TypeInv, TypeOK
<1>9. /\ DOMAIN claims'[t] = 1..n + 1 /\ Len(claims'[t]) = n + 1
      /\ \A i \in 1..n : claims'[t][i] = claims[t][i]
      /\ claims'[t][n + 1] = claim
  BY <1>4, <1>7, <1>8
<1>10. SpacingOK'
  <2>1. ASSUME NEW u \in Ids, NEW i \in DOMAIN claims'[u], u = t
        PROVE  claims'[u][i].edits <= edits /\ (i = Len(claims'[u]) => LastAhead(u, claims[u][i])')
    <3>1. CASE i = n + 1
      <4>1. claims'[u][i] = claim /\ claim.edits <= edits
        BY <1>1, <1>3, <1>9, <2>1, <3>1
      <4>2. claim.copy = claim.cron => Ahead(claim, row'[u].next)
        BY <1>5, <1>6, <2>1
      <4> QED BY <4>1, <4>2 DEF LastAhead
    <3>2. CASE i # n + 1
      <4>1. i \in 1..n /\ i # Len(claims'[u])
        BY <1>7, <1>9, <2>1, <3>2
      <4> QED BY <1>1, <1>7, <1>9, <2>1, <4>1 DEF BurstInv, SpacingOK
    <3> QED BY <3>1, <3>2
  <2>2. ASSUME NEW u \in Ids, NEW i \in DOMAIN claims'[u], u # t
        PROVE  claims'[u][i].edits <= edits /\ (i = Len(claims'[u]) => LastAhead(u, claims[u][i])')
    <3>1. claims'[u] = claims[u] /\ row'[u] = row[u]
      BY <1>6, <2>2
    <3>2. claims[u][i].edits <= edits /\ (i = Len(claims[u]) => LastAhead(u, claims[u][i]))
      BY <2>2, <3>1 DEF BurstInv, SpacingOK
    <3> QED BY <1>2, <3>1, <3>2 DEF LastAhead
  <2> QED BY <1>2, <2>1, <2>2 DEF SpacingOK
<1>11. NoBurst'
  <2>1. ASSUME NEW i \in 1..n PROVE Spaced(claims'[t][i], claims'[t][i + 1])
    <3>1. CASE i = n
      <4> DEFINE a == claims[t][n]
      <4>1. claims'[t][i] = a /\ claims'[t][i + 1] = claim
        BY <1>9, <3>1
      <4>2. LastAhead(t, a) /\ a.at \in Nat
        BY <1>1, <1>7, <3>1, ClaimType DEF BurstInv, SpacingOK, SlotInv
      <4> HIDE DEF a
      <4>3. SUFFICES ASSUME a.edits = edits, a.copy = a.cron
                     PROVE  IF a.cron = None THEN now >= a.at + a.minutes
                            ELSE (\E s \in Slots[a.cron] : a.at < s /\ s <= now) \/ now >= a.at + Day
        BY <1>3, <4>1 DEF Spaced
      <4>4. Ahead(a, row[t].next)
        BY <1>1, <4>2, <4>3 DEF LastAhead
      <4> QED BY <1>1, <4>2, <4>4, TriggersAssumption DEF Ahead, SlotsAhead
    <3>2. CASE i # n
      <4>1. i \in 1..n - 1 /\ i + 1 \in 1..n
        BY <1>7, <3>2
      <4>2. Spaced(claims[t][i], claims[t][i + 1])
        BY <1>1, <4>1 DEF BurstInv, NoBurst
      <4> QED BY <1>9, <4>1, <4>2
    <3> QED BY <3>1, <3>2
  <2>2. ASSUME NEW u \in Ids, u # t, NEW i \in 1..Len(claims'[u]) - 1
        PROVE  Spaced(claims'[u][i], claims'[u][i + 1])
    BY <1>6, <2>2 DEF BurstInv, NoBurst
  <2>3. ASSUME NEW i \in 1..Len(claims'[t]) - 1 PROVE Spaced(claims'[t][i], claims'[t][i + 1])
    <3>1. i \in 1..n
      BY <1>7, <1>9, <2>3
    <3> QED BY <2>1, <3>1
  <2> QED BY <2>2, <2>3 DEF NoBurst
<1> QED BY <1>10, <1>11

\* No step computes a time that is not ahead, unless the clock ticks inside _claim.
LEMMA NextKept == ASSUME Stall = FALSE, BurstInv, [Next]_vars PROVE NextOK'
<1>t. TypeInv
  BY DEF BurstInv, SlotInv
<1>1. CASE Tick
  BY <1>1 DEF Tick, NextOK
<1>2. ASSUME UNCHANGED <<now, job>> PROVE NextOK'
  BY <1>2 DEF BurstInv, NextOK
<1>3. ASSUME NEW p \in Procs, NEW new, job' = [job EXCEPT ![p] = new], UNCHANGED now,
             new.pc = "update" /\ new.cur.cron # None => SlotsAhead(new.cur.cron, now, new.next)
      PROVE  NextOK'
  BY <1>3, <1>t DEF BurstInv, NextOK, TypeInv, TypeOK
<1>4. Idle.pc # "update" /\ \A p \in Procs : Rest(p).pc # "update"
  BY DEF Idle, Rest
<1>5. ASSUME NEW p \in Procs, Ask(p) \/ StepFails(p) \/ ServerCrashes(p) PROVE NextOK'
  BY <1>3, <1>4, <1>5 DEF Ask, StepFails, ServerCrashes, jobOnly
<1>6. ASSUME NEW p \in Procs, StartJob(p) PROVE NextOK'
  <2>1. job' = [job EXCEPT ![p] = [job[p] EXCEPT !.pc = "load"]]
    BY <1>6 DEF StartJob
  <2>2. [job[p] EXCEPT !.pc = "load"].pc = "load"
    BY <1>t DEF TypeInv, TypeOK, Jobs
  <2> QED BY <1>3, <1>6, <2>1, <2>2 DEF StartJob, jobOnly
<1>7. ASSUME NEW p \in Procs, LoadDue(p) PROVE NextOK'
  <2> DEFINE due == {t \in Ids : Due(row[t])}
             copies == {[id |-> t, cron |-> row[t].cron, next |-> row[t].next] : t \in due}
             loaded == IF due = {} THEN Idle ELSE [Idle EXCEPT !.pc = "claim", !.due = copies]
  <2> HIDE DEF copies
  <2>1. loaded.pc # "update"
    BY <1>4 DEF Idle
  <2>2. job' = [job EXCEPT ![p] = loaded]
    BY <1>7 DEF LoadDue, copies
  <2> HIDE DEF loaded
  <2> QED BY <1>3, <1>7, <2>1, <2>2 DEF LoadDue, jobOnly
<1>8. ASSUME NEW p \in Procs, Compute(p) PROVE NextOK'
  <2> PICK c \in job[p].due :
         job' = [job EXCEPT ![p] =
           [pc |-> "update", due |-> job[p].due \ {c}, cur |-> c,
            next |-> IF c.cron = None THEN None ELSE NextCron(c.cron)]]
    BY <1>8 DEF Compute
  <2>1. job[p].due \subseteq Copies /\ now \in Nat
    BY <1>t, TriggersAssumption DEF TypeInv, TypeOK, Jobs
  <2>2. c.cron # None => SlotsAhead(c.cron, now, NextCron(c.cron))
    BY <2>1, NextCronIsSlot DEF Copies
  <2> QED BY <1>3, <1>8, <2>2 DEF Compute, jobOnly
<1>9. ASSUME NEW p \in Procs, Update(p) PROVE NextOK'
  <2>1. CASE ~Claimable(job[p].cur)
    BY <1>3, <1>4, <1>9, <2>1 DEF Update
  <2>2. CASE Claimable(job[p].cur)
    <3>1. job' = [job EXCEPT ![p] = [job[p] EXCEPT !.pc = "ask"]] /\ UNCHANGED now
      BY <1>9, <2>2 DEF Update
    <3>2. [job[p] EXCEPT !.pc = "ask"].pc = "ask"
      BY <1>t DEF TypeInv, TypeOK, Jobs
    <3> QED BY <1>3, <3>1, <3>2
  <2> QED BY <2>1, <2>2
<1>10. CASE Owner \/ LockDropped \/ UNCHANGED vars
  BY <1>2, <1>10 DEF Owner, CreateTrigger, EditRead, EditWrite, DeleteTrigger, LockDropped, vars, trigVars
<1>11. ASSUME NEW p \in Procs, NotLeader(p) \/ ServerStops(p) \/ ServerStarts(p) \/ ConnectionLost(p)
       PROVE  NextOK'
  BY <1>2, <1>11 DEF NotLeader, ServerStops, ServerStarts, ConnectionLost, trigVars
<1> QED BY <1>1, <1>5, <1>6, <1>7, <1>8, <1>9, <1>10, <1>11 DEF Next, JobStep

LEMMA BurstStep == ASSUME Stall = FALSE, BurstInv, [Next]_vars PROVE BurstInv'
<1>1. SlotInv' /\ NextOK' /\ TypeInv'
  BY SlotStep, NextKept DEF BurstInv, SlotInv
<1>r. row \in [Ids -> Rows \cup {None}] /\ FreshOK
  BY DEF BurstInv, SlotInv, TypeInv, TypeOK
<1>2. ASSUME UNCHANGED <<row, claims, edits>> PROVE SpacingOK' /\ NoBurst'
  BY <1>2, SpacingKept
<1>3. ASSUME NEW t \in Ids, NEW s \in Schedules, NEW a \in BOOLEAN, CreateTrigger(t, s, a)
      PROVE  SpacingOK' /\ NoBurst'
  <2>1. claims[t] = <<>> /\ \A u \in Ids : u # t => row'[u] = row[u]
    BY <1>3, <1>r DEF CreateTrigger, FreshOK
  <2> QED BY <1>3, <2>1, SpacingKept DEF CreateTrigger
<1>4. ASSUME NEW t \in Ids, DeleteTrigger(t) PROVE SpacingOK' /\ NoBurst'
  <2>1. \A u \in Ids : row'[u] = row[u] \/ row'[u] = None
    BY <1>4, <1>r DEF DeleteTrigger
  <2> QED BY <1>4, <2>1, SpacingKept DEF DeleteTrigger
<1>5. ASSUME NEW e \in Editors, EditWrite(e) PROVE SpacingOK' /\ NoBurst'
  BY <1>1, <1>5, SpacingEdited DEF EditWrite
<1>6. ASSUME NEW e \in Editors, NEW t \in Ids, NEW arg \in Arguments, EditRead(e, t, arg)
      PROVE  SpacingOK' /\ NoBurst'
  BY <1>2, <1>6 DEF EditRead
<1>7. ASSUME NEW p \in Procs, Update(p) PROVE SpacingOK' /\ NoBurst'
  <2>1. CASE Claimable(job[p].cur)
    BY <1>1, <1>7, <2>1, ClaimSpaced
  <2>2. CASE ~Claimable(job[p].cur)
    BY <1>2, <1>7, <2>2 DEF Update
  <2> QED BY <2>1, <2>2
<1>8. ASSUME NEW p \in Procs,
             \/ StartJob(p) \/ LoadDue(p) \/ Compute(p) \/ Ask(p) \/ NotLeader(p) \/ StepFails(p)
             \/ ServerStops(p) \/ ServerCrashes(p) \/ ServerStarts(p) \/ ConnectionLost(p)
      PROVE  UNCHANGED <<row, claims, edits>>
  BY <1>8 DEF StartJob, LoadDue, Compute, Ask, NotLeader, StepFails, ServerStops, ServerCrashes,
              ServerStarts, ConnectionLost, jobOnly, trigVars
<1>9. ASSUME Tick \/ LockDropped \/ UNCHANGED vars PROVE SpacingOK' /\ NoBurst'
  <2>1. UNCHANGED <<row, claims, edits>>
    BY <1>9 DEF Tick, LockDropped, vars, trigVars
  <2> QED BY <1>2, <2>1
<1>10. SpacingOK' /\ NoBurst'
  BY <1>2, <1>3, <1>4, <1>5, <1>6, <1>7, <1>8, <1>9 DEF Next, Owner, JobStep
<1> QED BY <1>1, <1>10 DEF BurstInv

LEMMA BurstInit == Init => BurstInv
BY SlotInit DEF Init, Idle, BurstInv, NextOK, SpacingOK, NoBurst

\* However late the claims of a trigger come (a stopped scheduler, a slow model, a new leader), two in a
\* row are its interval apart or have one of its slots between them, until somebody edits a trigger.
THEOREM NoBursts == ASSUME Stall = FALSE PROVE Spec => []NoBurst
<1>1. BurstInv => NoBurst
  BY DEF BurstInv
<1>2. BurstInv /\ [Next]_vars => BurstInv'
  BY BurstStep
<1> QED BY <1>1, <1>2, BurstInit, PTL DEF Spec
=============================================================================

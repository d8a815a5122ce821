------------------------------ MODULE Triggers ------------------------------
(***************************************************************************)
(* core/proactive_triggers.py run by the scheduler of core/api.py: the     *)
(* rows of proactive_triggers, the requests that create, edit and delete   *)
(* them, and the job that loads the due ones and, one after the other,     *)
(* claims, asks and delivers each.  Asking is a call of a language model,  *)
(* so minutes may pass between loading the list and claiming its last row; *)
(* the rows of the list are copies, and the claim uses the copy's cron.    *)
(*                                                                         *)
(* Time.  `now' counts ticks of the clock.  A reading of the clock in tick *)
(* t falls after the instant t and before t + 1, so a time s has passed    *)
(* when s <= t and the next slot of a crontab is its first one later than  *)
(* t.  When Stall is FALSE a process never sleeps over a tick between      *)
(* computing the next cron time and the UPDATE that stores it.             *)
(***************************************************************************)
EXTENDS Leader, Sequences, FiniteSets

CONSTANTS
  Ids,       \* the ids gen_random_uuid() hands out: bounds the triggers made
  Editors,   \* threads serving PATCH /triggers/{id}
  Minutes,   \* the values of schedule_minutes used
  Crons,     \* crontab expressions with their time zones
  Slots,     \* Slots[c]: the times c fires at
  Day,       \* 24 hours
  MaxNow,    \* bound: the clock stops here
  MaxEdits,  \* bound: edits of the owner
  Stall,     \* may time pass between computing a cron time and storing it?
  None       \* NULL, or an argument that is not given

ASSUME TriggersAssumption ==
  /\ Minutes \subseteq Nat \ {0} /\ Day \in Nat \ {0}
  /\ Slots \in [Crons -> SUBSET Nat]
  /\ None \notin Minutes \cup Crons \cup Ids
  /\ MaxNow \in Nat /\ MaxEdits \in Nat /\ Stall \in BOOLEAN

VARIABLES
  now,      \* the clock
  row,      \* proactive_triggers: one row, or None, for each id
  job,      \* the job of each process: its list of copies and where it is
  edit,     \* update_trigger in each editor: the row it read and the arguments
  edits,    \* how many edits have been written
  \* history, read by the properties only (made also keeps the ids fresh)
  made,     \* ids handed out
  claims    \* for each id its successful claims, in order

trigVars == <<now, row, job, edit, edits, made, claims>>
vars == <<leaderVars, trigVars>>

\* A schedule is an interval or a crontab, never both (proactive_triggers_one_schedule).
Schedules == [minutes : Minutes, cron : {None}] \cup [minutes : {None}, cron : Crons]
OneSchedule(r) == (r.minutes = None) # (r.cron = None)

\* next_cron_run, and what _claim falls back to when it raises because nothing is left to fire.
Later(c) == {s \in Slots[c] : s > now}
NextCron(c) ==
  IF Later(c) = {} THEN now + Day
  ELSE CHOOSE s \in Later(c) : \A u \in Later(c) : s <= u

Due(r) == r # None /\ r.active /\ r.next <= now

Rows == [active : BOOLEAN, minutes : Minutes \cup {None}, cron : Crons \cup {None}, next : Nat]
ASSUME NoneAssumption == None \notin Nat /\ None \notin Rows

\* The copies of run_due_triggers; cur is the one being run, next the cron time computed for it.
Copies == [id : Ids, cron : Crons \cup {None}, next : Nat]
Idle == [pc |-> "idle", due |-> {}, cur |-> None, next |-> None]
Jobs == [pc : {"idle", "load", "claim", "update", "ask"}, due : SUBSET Copies,
         cur : Copies \cup {None}, next : Nat \cup {None}]

\* What update_trigger may be given for the schedule; renames and prompts change nothing here,
\* and a new time zone for a crontab is another element of Crons.
Arguments ==
  {[active |-> a, minutes |-> m, cron |-> c] :
     a \in BOOLEAN \cup {None}, m \in Minutes \cup {None}, c \in Crons \cup {None}}
NoEdit == [id |-> None]
Edits == {NoEdit} \cup [id : Ids, current : Rows, arg : Arguments]

ClaimRecords == [due : Nat, at : Nat, by : Procs, copy : Crons \cup {None},
                 minutes : Minutes \cup {None}, cron : Crons \cup {None}, edits : Nat]

TypeOK ==
  /\ LeaderTypeOK
  /\ now \in 0..MaxNow /\ edits \in Nat
  /\ row \in [Ids -> Rows \cup {None}]
  /\ \A t \in Ids : row[t] # None => OneSchedule(row[t])
  /\ job \in [Procs -> Jobs]
  /\ edit \in [Editors -> Edits]
  /\ made \subseteq Ids
  /\ claims \in [Ids -> Seq(ClaimRecords)]

Init ==
  /\ LeaderInit
  /\ now = 0 /\ edits = 0
  /\ row = [t \in Ids |-> None]
  /\ job = [p \in Procs |-> Idle]
  /\ edit = [e \in Editors |-> NoEdit]
  /\ made = {}
  /\ claims = [t \in Ids |-> <<>>]

-----------------------------------------------------------------------------
(* The clock, and the owner's requests. *)

Tick ==
  /\ now < MaxNow
  /\ Stall \/ \A p \in Procs : job[p].pc # "update"
  /\ now' = now + 1
  /\ UNCHANGED <<leaderVars, row, job, edit, edits, made, claims>>

\* The INSERT of create_trigger: an interval is due at once, a crontab at its next slot.
\* A crontab with no slot left is refused by _check_cron.
CreateTrigger(t, s, active) ==
  /\ t \notin made
  /\ s.cron # None => Later(s.cron) # {}
  /\ made' = made \cup {t}
  /\ row' = [row EXCEPT ![t] =
       [active |-> active, minutes |-> s.minutes, cron |-> s.cron,
        next |-> IF s.cron = None THEN now ELSE NextCron(s.cron)]]
  /\ UNCHANGED <<leaderVars, now, job, edit, edits, claims>>

\* update_trigger reads the row first ...
EditRead(e, t, arg) ==
  /\ edit[e] = NoEdit /\ row[t] # None
  /\ edits + Cardinality({d \in Editors : edit[d] # NoEdit}) < MaxEdits
  /\ arg.minutes = None \/ arg.cron = None
  /\ edit' = [edit EXCEPT ![e] = [id |-> t, current |-> row[t], arg |-> arg]]
  /\ UNCHANGED <<leaderVars, now, row, job, edits, made, claims>>

\* ... and then writes the columns that the arguments and the row it read call for.  A change
\* of the interval alone leaves next_run_at as it is.
Edited(r, current, arg) ==
  LET toCron == arg.cron # None
      toInterval == arg.minutes # None
      switched == toInterval /\ current.cron # None
  IN [active |-> IF arg.active = None THEN r.active ELSE arg.active,
      minutes |-> IF toCron THEN None ELSE IF toInterval THEN arg.minutes ELSE r.minutes,
      cron |-> IF toCron THEN arg.cron ELSE IF switched THEN None ELSE r.cron,
      next |-> IF toCron THEN NextCron(arg.cron)
               ELSE IF switched THEN now + arg.minutes ELSE r.next]

\* _check_cron refuses a crontab with no slot left.  The UPDATE finds no row when the trigger was
\* deleted, and fails on the CHECK constraint when another edit has meanwhile changed the kind
\* of the schedule.
EditWrite(e) ==
  /\ edit[e] # NoEdit
  /\ LET t == edit[e].id
         new == Edited(row[t], edit[e].current, edit[e].arg)
         usable == edit[e].arg.cron # None => Later(edit[e].arg.cron) # {}
     IN row' = IF row[t] # None /\ usable /\ OneSchedule(new) THEN [row EXCEPT ![t] = new] ELSE row
  /\ edit' = [edit EXCEPT ![e] = NoEdit]
  /\ edits' = edits + 1
  /\ UNCHANGED <<leaderVars, now, job, made, claims>>

DeleteTrigger(t) ==
  /\ row[t] # None
  /\ row' = [row EXCEPT ![t] = None]
  /\ UNCHANGED <<leaderVars, now, job, edit, edits, made, claims>>

-----------------------------------------------------------------------------
(* The job: run_due_triggers and run_trigger. *)

jobOnly == <<now, row, edit, edits, made, claims>>

\* leader_only: the check, and the job begins.  max_instances = 1 keeps a second one out.
StartJob(p) ==
  /\ job[p].pc = "idle" /\ IsLeaderTrue(p)
  /\ job' = [job EXCEPT ![p].pc = "load"]
  /\ UNCHANGED jobOnly

NotLeader(p) == job[p].pc = "idle" /\ IsLeaderFalse(p) /\ UNCHANGED trigVars

\* A job that only knows the rows due at this very moment.
LoadDueNow(p) ==
  /\ job[p].pc = "load"
  /\ LET due == {t \in Ids : Due(row[t]) /\ row[t].next = now}
     IN job' = [job EXCEPT ![p] =
          IF due = {} THEN Idle
          ELSE [Idle EXCEPT !.pc = "claim",
                  !.due = {[id |-> t, cron |-> row[t].cron, next |-> row[t].next] : t \in due}]]
  /\ UNCHANGED <<leaderVars, jobOnly>>

\* due_triggers: copies of the rows that are due.
LoadDue(p) ==
  /\ job[p].pc = "load"
  /\ LET due == {t \in Ids : Due(row[t])}
     IN job' = [job EXCEPT ![p] =
          IF due = {} THEN Idle
          ELSE [Idle EXCEPT !.pc = "claim",
                  !.due = {[id |-> t, cron |-> row[t].cron, next |-> row[t].next] : t \in due}]]
  /\ UNCHANGED <<leaderVars, jobOnly>>

\* run_trigger for the copy due longest (ORDER BY next_run_at).  _claim computes the next time
\* of the copy's crontab ...
Compute(p) ==
  /\ job[p].pc = "claim"
  /\ \E c \in job[p].due :
       /\ \A d \in job[p].due : c.next <= d.next
       /\ job' = [job EXCEPT ![p] =
            [pc |-> "update", due |-> job[p].due \ {c}, cur |-> c,
             next |-> IF c.cron = None THEN None ELSE NextCron(c.cron)]]
  /\ UNCHANGED <<leaderVars, jobOnly>>

\* run_trigger is done with a copy; run_due_triggers goes on with the rest of its list.
Rest(p) == IF job[p].due = {} THEN Idle ELSE [pc |-> "claim", due |-> job[p].due, cur |-> None, next |-> None]

\* The UPDATE without "next_run_at <= now()", and without "is_active".
ClaimableActive(c) == row[c.id] # None /\ row[c.id].active /\ (c.cron = None => row[c.id].minutes # None)
ClaimableDue(c) == row[c.id] # None /\ row[c.id].next <= now /\ (c.cron = None => row[c.id].minutes # None)

\* The condition of the UPDATE in _claim.  A copy without a crontab takes the row's own interval,
\* and next_run_at = NULL, when the row has none by now, is refused by the database.
Claimable(c) == Due(row[c.id]) /\ (c.cron = None => row[c.id].minutes # None)

\* The interval counted from the time that was due.
AdvancedFromDue(c, next) == IF c.cron = None THEN row[c.id].next + row[c.id].minutes ELSE next
\* The value of next_run_at.
Advanced(c, next) == IF c.cron = None THEN now + row[c.id].minutes ELSE next

\* ... and the UPDATE, in one statement, checks that the row is still due and moves it on.
Update(p) ==
  /\ job[p].pc = "update"
  /\ LET c == job[p].cur
     IN IF Claimable(c)
        THEN /\ row' = [row EXCEPT ![c.id].next = Advanced(c, job[p].next)]
             /\ claims' = [claims EXCEPT ![c.id] = Append(@,
                  [due |-> row[c.id].next, at |-> now, by |-> p, copy |-> c.cron,
                   minutes |-> row[c.id].minutes, cron |-> row[c.id].cron, edits |-> edits])]
             /\ job' = [job EXCEPT ![p].pc = "ask"]
        ELSE /\ job' = [job EXCEPT ![p] = Rest(p)]
             /\ UNCHANGED <<row, claims>>
  /\ UNCHANGED <<leaderVars, now, edit, edits, made>>

\* ask and execute_or_request (module Autonomy): delivered, waiting for the owner, skipped or
\* failed, the trigger has had its turn.
Ask(p) ==
  /\ job[p].pc = "ask"
  /\ job' = [job EXCEPT ![p] = Rest(p)]
  /\ UNCHANGED <<leaderVars, jobOnly>>

\* A failed statement: run_due_triggers gives up when it loads the list, run_trigger the one row.
StepFails(p) ==
  /\ job[p].pc \in {"load", "update"} /\ Fault
  /\ job' = [job EXCEPT ![p] = Rest(p)]
  /\ UNCHANGED <<lock, conn, up, jobOnly>>

-----------------------------------------------------------------------------
(* The processes. *)

ServerStops(p) == Release(p) /\ UNCHANGED trigVars
ServerCrashes(p) ==
  /\ Crash(p)
  /\ job' = [job EXCEPT ![p] = Idle]
  /\ UNCHANGED jobOnly
ServerStarts(p) == job[p].pc = "idle" /\ Restart(p) /\ UNCHANGED trigVars
ConnectionLost(p) == ConnLost(p) /\ UNCHANGED trigVars
LockDropped == SessionEnds /\ UNCHANGED trigVars

Owner ==
  \/ \E t \in Ids : DeleteTrigger(t) \/ \E s \in Schedules, a \in BOOLEAN : CreateTrigger(t, s, a)
  \/ \E e \in Editors : EditWrite(e) \/ \E t \in Ids, arg \in Arguments : EditRead(e, t, arg)

JobStep(p) == StartJob(p) \/ LoadDue(p) \/ Compute(p) \/ Update(p) \/ Ask(p)

Next ==
  \/ Tick \/ Owner \/ LockDropped
  \/ \E p \in Procs :
       \/ JobStep(p) \/ NotLeader(p) \/ StepFails(p)
       \/ ServerStops(p) \/ ServerCrashes(p) \/ ServerStarts(p) \/ ConnectionLost(p)

Spec == Init /\ [][Next]_vars

\* Every process keeps taking the steps of its job, is started again when it stopped (compose
\* restarts it), and the database ends dead sessions.  The owner and the clock owe nothing.
FairSpec ==
  /\ Spec
  /\ WF_vars(LockDropped)
  /\ \A p \in Procs : WF_vars(JobStep(p)) /\ WF_vars(ServerStarts(p))

-----------------------------------------------------------------------------
(* Properties. *)

\* However many processes run the job at once, and whatever the owner edits meanwhile, a run
\* that was due is claimed once: the due times of the claims of a trigger strictly increase
\* (_claim: "Returns True only for the one caller that wins").
SlotFiredOnce ==
  \A t \in Ids : \A i, j \in DOMAIN claims[t] : i < j => claims[t][i].due < claims[t][j].due

\* No bursts, however late a claim comes: as long as nobody edits a trigger, two claims in a row
\* are its interval apart, or have one of its slots between them ("A cron trigger's next run
\* is computed from NOW").  A claim made with an outdated copy is left out.
Spaced(a, b) ==
  (a.edits = b.edits /\ a.copy = a.cron) =>
    IF a.cron = None THEN b.at >= a.at + a.minutes
    ELSE \/ \E s \in Slots[a.cron] : a.at < s /\ s <= b.at
         \/ b.at >= a.at + Day
NoBurst == \A t \in Ids : \A i \in 1..Len(claims[t]) - 1 : Spaced(claims[t][i], claims[t][i + 1])

\* A trigger that is due does not stay so for ever: whoever leads claims it, the leadership
\* having moved as often as it may, unless the owner deletes it or changes it first.
DueIsClaimed == \A t \in Ids : Due(row[t]) ~> ~Due(row[t])

\* What the claims promise, without processes, copies or leaders.
DueAt == [t \in Ids |-> IF row[t] = None THEN None ELSE IF row[t].active THEN row[t].next ELSE None]
Firings == [t \in Ids |-> [i \in DOMAIN claims[t] |-> [due |-> claims[t][i].due, at |-> claims[t][i].at]]]
Promise == INSTANCE TriggerSchedule WITH due <- DueAt, fired <- Firings

\* The job of any number of processes, with any interleaving of leaders, copies and edits,
\* implements the schedule of TriggerSchedule: one firing per due time, the next one later.
ImplementsSchedule == Promise!Spec
=============================================================================

-------------------------- MODULE TriggerSchedule --------------------------
(***************************************************************************)
(* What core/proactive_triggers.py promises about the runs of a trigger,   *)
(* as one atomic scheduler would do it: a trigger that is due fires, once, *)
(* and is then due at a later time; the owner may switch it off, on again, *)
(* or move it, but never back to a time at which it has already fired.     *)
(***************************************************************************)
EXTENDS Naturals, Sequences

CONSTANTS
  Ids,      \* the triggers
  MaxNow,   \* the clock stops here
  None      \* not scheduled: not made yet, switched off or deleted

VARIABLES
  now,     \* the clock
  due,     \* when each trigger is due next
  fired    \* the firings of each trigger, in order: for which due time, and when

Init ==
  /\ now = 0
  /\ due = [t \in Ids |-> None]
  /\ fired = [t \in Ids |-> <<>>]

Tick == now < MaxNow /\ now' = now + 1 /\ UNCHANGED <<due, fired>>

\* Firing for the time that was due moves the trigger into the future.
Fire(t) ==
  /\ due[t] # None /\ due[t] <= now
  /\ fired' = [fired EXCEPT ![t] = Append(@, [due |-> due[t], at |-> now])]
  /\ due' = [due EXCEPT ![t] = due'[t]]
  /\ due'[t] \in Nat /\ due'[t] > now
  /\ UNCHANGED now

\* The owner creates, edits or deletes a trigger.
Reschedule(t) ==
  /\ due' = [due EXCEPT ![t] = due'[t]]
  /\ due'[t] # None => \A i \in DOMAIN fired[t] : due'[t] > fired[t][i].at
  /\ UNCHANGED <<now, fired>>

Next == Tick \/ \E t \in Ids : Fire(t) \/ Reschedule(t)

Spec == Init /\ [][Next]_<<now, due, fired>>
=============================================================================

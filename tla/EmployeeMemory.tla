--------------------------- MODULE EmployeeMemory ---------------------------
(***************************************************************************)
(* core/employees: the memory of the AI employees.  It is seeded once, the *)
(* owner's instructions and decisions are written to it, and auto-learning *)
(* rewrites the profile text in one transaction.  An entry is identified   *)
(* by its source and a hash of its first 200 characters: here its head.    *)
(*                                                                         *)
(* API calls run in several workers.  A write may fail: it is rolled back  *)
(* and reported as not written.  A worker may be killed between two        *)
(* writes.  That a text may be stored without an embedding is left out.    *)
(***************************************************************************)
EXTENDS Naturals, Sequences, FiniteSets, SequencesExt, Selection

CONSTANTS
    Staff,           \* workers of the API
    Seeds,              \* DEFAULT_MEMORY_SEEDS: a sequence of texts with different heads
    Instructions,       \* texts [head, tail] the owner may give
    TopOwner,           \* how many owner instructions a prompt shows: 3
    MaxTold, MaxLearnFaults, MaxCalls     \* bounds

ASSUME EmployeeAssumption ==
    /\ TopOwner \in Nat \ {0}
    /\ Seeds # <<>> /\ Seeds \in Seq(Range(Seeds))
    /\ \A i, j \in DOMAIN Seeds : i # j => Seeds[i].head # Seeds[j].head

VARIABLES
    entries,        \* employee_memory in order of creation: [source, text, id]
    told,           \* the instructions the owner has given, in order
    profileText,    \* the instructions in the business profile
    learned,        \* history: has auto-learning ever written?
    crossed,        \* history: were two instructions ever being written at once?
    duty,           \* per worker: what it is at
    calls, learnFaults

empVars == <<entries, told, profileText, learned, crossed, duty, calls, learnFaults>>

AtRest == [pc |-> "idle", at |-> 0, text |-> "none", drop |-> {}]

NoText == [head |-> "none", tail |-> "none"]

EmpInit ==
    /\ entries = <<>>
    /\ told = <<>> /\ profileText = NoText /\ learned = FALSE /\ crossed = FALSE
    /\ duty = [w \in Staff |-> AtRest]
    /\ calls = 0 /\ learnFaults = 0

----------------------------------------------------------------------------
(* write_learned_skill. *)

Source(w) == CASE duty[w].pc = "seed" -> "default_seed"
               [] duty[w].pc = "owner" -> "owner"
               [] OTHER -> "auto_learn"

\* What a write leaves of the table: DELETE and INSERT commit together.
Kept(drop) == Only(entries, {e \in Range(entries) : e.id \notin drop})

Clash(drop, source, text) ==
    \E i \in DOMAIN entries : /\ entries[i].id \notin drop
                              /\ entries[i].source = source /\ entries[i].text.head = text.head

\* An identifier no row has and no running transaction names.
TakenIds == {entries[i].id : i \in DOMAIN entries} \cup UNION {duty[w].drop : w \in Staff}
FreshId == CHOOSE n \in 1..(Cardinality(TakenIds) + 1) : n \notin TakenIds

\* INSERT ... ON CONFLICT (content_hash, source) DO NOTHING.
Written(w, text) ==
    entries' = IF Clash(duty[w].drop, Source(w), text) THEN Kept(duty[w].drop)
               ELSE Append(Kept(duty[w].drop), [source |-> Source(w), text |-> text, id |-> FreshId])

\* An exception: rolled back, logged, None.
NotWritten ==
    /\ learnFaults < MaxLearnFaults /\ learnFaults' = learnFaults + 1
    /\ UNCHANGED entries

----------------------------------------------------------------------------
(* seed_default_memory_seeds, on every GET /employees. *)

SeedCheck(w) ==
    /\ duty[w].pc = "idle" /\ calls < MaxCalls
    /\ calls' = calls + 1
    /\ duty' = IF \E i \in DOMAIN entries : entries[i].source = "default_seed" THEN duty
              ELSE [duty EXCEPT ![w] = [AtRest EXCEPT !.pc = "seed", !.at = 1]]
    /\ UNCHANGED <<entries, told, profileText, learned, crossed, learnFaults>>

NextSeed(w) == IF duty[w].at = Len(Seeds) THEN AtRest ELSE [duty[w] EXCEPT !.at = @ + 1]

SeedWrite(w) ==
    /\ duty[w].pc = "seed"
    /\ \/ Written(w, Seeds[duty[w].at]) /\ UNCHANGED learnFaults
       \/ NotWritten
    /\ duty' = [duty EXCEPT ![w] = NextSeed(w)]
    /\ UNCHANGED <<told, profileText, learned, crossed, calls>>

----------------------------------------------------------------------------
(* PATCH /profile and POST /profile/learn. *)

\* update_profile, then learn_from_owner_instruction.
UpdateProfile(w) ==
    /\ duty[w].pc = "idle" /\ Len(told) < MaxTold
    /\ \E t \in Instructions :
        /\ told' = Append(told, t)
        /\ profileText' = t
        /\ crossed' = (crossed \/ \E v \in Staff : duty[v].pc = "owner")
        /\ duty' = [duty EXCEPT ![w] = [AtRest EXCEPT !.pc = "owner", !.text = t]]
    /\ UNCHANGED <<entries, learned, calls, learnFaults>>

OwnerWrite(w) ==
    /\ duty[w].pc = "owner"
    /\ \/ Written(w, duty[w].text) /\ UNCHANGED learnFaults
       \/ NotWritten
    /\ duty' = [duty EXCEPT ![w] = [AtRest EXCEPT !.pc = "gather"]]
    /\ UNCHANGED <<told, profileText, learned, crossed, calls>>

TriggerAutoLearn(w) ==
    /\ duty[w].pc = "idle" /\ told # <<>> /\ calls < MaxCalls
    /\ calls' = calls + 1
    /\ duty' = [duty EXCEPT ![w] = [AtRest EXCEPT !.pc = "gather"]]
    /\ UNCHANGED <<entries, told, profileText, learned, crossed, learnFaults>>

\* auto_learn_from_all gathers the profile and saves it.  The instructions come last in the
\* text: its head may be that of the profile whatever they are.
Gather(w) ==
    /\ duty[w].pc = "gather"
    /\ \E h \in {"profile", profileText.head} :
        duty' = [duty EXCEPT ![w] = [AtRest EXCEPT !.pc = "delete", !.text = [profileText EXCEPT !.head = h]]]
    /\ UNCHANGED <<entries, told, profileText, learned, crossed, calls, learnFaults>>

OfProfile == {entries[i].id : i \in {j \in DOMAIN entries : entries[j].source = "auto_learn"}}

\* As the code would be if force_update committed the DELETE before it embeds the text.
ForceDeleteFirst(w) ==
    /\ duty[w].pc = "delete"
    /\ entries' = Kept(OfProfile)
    /\ duty' = [duty EXCEPT ![w].pc = "learn"]
    /\ UNCHANGED <<told, profileText, learned, crossed, calls, learnFaults>>

\* force_update: the rows this statement sees are deleted when the transaction commits.
ForceDelete(w) ==
    /\ duty[w].pc = "delete"
    /\ duty' = [duty EXCEPT ![w].pc = "learn", ![w].drop = OfProfile]
    /\ UNCHANGED <<entries, told, profileText, learned, crossed, calls, learnFaults>>

LearnWrite(w) ==
    /\ duty[w].pc = "learn"
    /\ \/ Written(w, duty[w].text) /\ learned' = TRUE /\ UNCHANGED learnFaults
       \/ NotWritten /\ UNCHANGED learned
    /\ duty' = [duty EXCEPT ![w] = AtRest]
    /\ UNCHANGED <<told, profileText, crossed, calls>>

\* The worker is killed: its transaction is rolled back, the rest of its work is not done.
StaffDies(w) ==
    /\ duty[w].pc # "idle" /\ learnFaults < MaxLearnFaults
    /\ learnFaults' = learnFaults + 1
    /\ duty' = [duty EXCEPT ![w] = AtRest]
    /\ UNCHANGED <<entries, told, profileText, learned, crossed, calls>>

EmpNext == \E w \in Staff :
    \/ SeedCheck(w) \/ SeedWrite(w) \/ UpdateProfile(w) \/ OwnerWrite(w) \/ TriggerAutoLearn(w)
    \/ Gather(w) \/ ForceDelete(w) \/ LearnWrite(w) \/ StaffDies(w)

EmpSpec == EmpInit /\ [][EmpNext]_empVars

----------------------------------------------------------------------------
OwnerEntries == Only(entries, {e \in Range(entries) : e.source = "owner"})

\* As the code would be if the oldest instructions came first.
ShownOldest == LET s == OwnerEntries
               IN  SubSeq(s, 1, IF Len(s) < TopOwner THEN Len(s) ELSE TopOwner)

\* get_owner_instructions: the newest TopOwner of equal importance.
Shown == LET s == OwnerEntries
         IN  SubSeq(s, IF Len(s) < TopOwner THEN 1 ELSE Len(s) - TopOwner + 1, Len(s))

----------------------------------------------------------------------------
EmpTypeOK ==
    /\ \A i \in DOMAIN entries : entries[i].source \in {"default_seed", "owner", "auto_learn"}
    /\ Len(told) <= MaxTold /\ learned \in BOOLEAN

Stored(source) == {entries[i].text : i \in {j \in DOMAIN entries : entries[j].source = source}}

\* When nothing failed and nobody is at it, a seeded memory holds every seed, however many calls
\* seeded it at once; no entry is there twice.
SeedsWhole ==
    /\ (learnFaults = 0 /\ Stored("default_seed") # {} /\ \A w \in Staff : duty[w].pc # "seed") =>
            Stored("default_seed") = {Seeds[i] : i \in DOMAIN Seeds}
    /\ \A i, j \in DOMAIN entries :
            i # j => entries[i].source # entries[j].source \/ entries[i].text.head # entries[j].text.head

\* Once the profile was learned an entry of it is always there, whatever fails in a rewrite.
ProfileIsKnown == learned => Stored("auto_learn") # {}

\* The owner's last instruction is shown in every prompt, when its head is new, the write of it
\* was not lost and no two instructions were being written at once.
LastIsShown ==
    (/\ told # <<>> /\ learnFaults = 0 /\ ~crossed /\ \A w \in Staff : duty[w].pc # "owner"
     /\ \A i \in 1..(Len(told) - 1) : told[i].head # told[Len(told)].head) =>
        \E i \in DOMAIN Shown : Shown[i].text = told[Len(told)]

(***************************************************************************)
(* What the memory promises to the prompts that are built from it.         *)
(***************************************************************************)
MemoryServesPrompts == SeedsWhole /\ ProfileIsKnown /\ LastIsShown
============================================================================

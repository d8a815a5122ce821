----------------------------- MODULE VoicePull ------------------------------
(***************************************************************************)
(* 'ragleap-voice models pull': a model and what it depends on, downloaded *)
(* file by file into a staging directory, verified against its lock and    *)
(* renamed into the cache.  Several pulls may run at once, be killed at    *)
(* any moment and be repeated; servers send what they like and redirect    *)
(* where they like.                                                        *)
(***************************************************************************)
EXTENDS Naturals, Sequences, FiniteSets, Functions

CONSTANTS
    Pullers,
    VoiceModels,
    DependsOn,          \* the manifest: for each model the sequence of its dependencies
    VerifiedModels,     \* status 'verified' in the manifest
    UnreadableLocks,    \* models whose lock file is missing or is not JSON
    InvalidLocks,       \* models whose lock is malformed, names another revision or digest
    LockFiles,          \* how many files a lock lists
    TokenHost,          \* huggingface.co
    AllowedHosts,       \* the hosts a download may go to
    OtherHosts,         \* and others
    MaxRedirects,       \* Policy.max_redirects
    MaxVisits,          \* bound: steps of dependency_order
    MaxPulls, MaxDamage \* bounds

ASSUME VoiceAssumption ==
    /\ TokenHost \in AllowedHosts /\ AllowedHosts \cap OtherHosts = {} /\ LockFiles \in Nat \ {0}
    /\ DependsOn \in [VoiceModels -> Seq(VoiceModels)] /\ MaxVisits \in Nat

VARIABLES
    installed,      \* the model's directory in the cache: absent, partial, whole, damaged
    pull,           \* per puller: its command
    tokenSeenBy,    \* hosts that were sent the token
    tokenAfterExit, \* was it sent in a download that had left the token host?
    pulls, damage

pullVars == <<installed, pull, tokenSeenBy, tokenAfterExit, pulls, damage>>

NoPull == [pc |-> "idle", want |-> "none", plan |-> <<>>, at |-> 1, file |-> 1, host |-> TokenHost,
           hops |-> 0, token |-> TRUE, left |-> FALSE]

PullInit ==
    /\ installed = [m \in VoiceModels |-> "absent"]
    /\ pull = [p \in Pullers |-> NoPull]
    /\ tokenSeenBy = {} /\ tokenAfterExit = FALSE
    /\ pulls = 0 /\ damage = 0

----------------------------------------------------------------------------
(* dependency_order and the plan. *)

\* The calls of visit under way, each with the dependency it is at, and the models that are done.
Visit(st, trail, order) == [st |-> st, trail |-> trail, order |-> order]

FirstVisit(m) == Visit("visit", <<[model |-> m, at |-> 1]>>, <<>>)

OnTrail(v, m) == \E i \in DOMAIN v.trail : v.trail[i].model = m

\* The last call goes on: it is done with all its dependencies, or with this one, or it calls
\* visit for it, which raises when the dependency's own call is under way.
NextVisit(v) ==
    LET n == Len(v.trail)
        m == v.trail[n].model
        k == v.trail[n].at
    IN  IF v.st # "visit" THEN v
        ELSE IF k > Len(DependsOn[m])
        THEN Visit(IF n = 1 THEN "done" ELSE "visit", SubSeq(v.trail, 1, n - 1), Append(v.order, m))
        ELSE IF DependsOn[m][k] \in Range(v.order)
        THEN Visit("visit", [v.trail EXCEPT ![n].at = @ + 1], v.order)
        ELSE IF OnTrail(v, DependsOn[m][k])
        THEN Visit("cycle", <<>>, <<>>)
        ELSE Visit("visit", Append(v.trail, [model |-> DependsOn[m][k], at |-> 1]), v.order)

DependencyOrder(m) ==
    LET v[n \in 0..MaxVisits] == IF n = 0 THEN FirstVisit(m) ELSE NextVisit(v[n - 1])
    IN  v[MaxVisits]

\* What a command can plan: no cycle, and a lock that can be read for every model.
Planned(m) ==
    /\ DependencyOrder(m).st = "done"
    /\ Range(DependencyOrder(m).order) \cap UnreadableLocks = {}

Model(p) == pull[p].plan[pull[p].at]
Pulling(p) == pull[p].pc \notin {"idle", "ready", "failed"}

\* An exception removes the staging directory and ends the command.
Aborted(p) == [pull EXCEPT ![p] = [NoPull EXCEPT !.pc = "failed"]]

StartPull(p) ==
    /\ ~Pulling(p) /\ pulls < MaxPulls
    /\ pulls' = pulls + 1
    /\ \E m \in VoiceModels :
        pull' = IF Planned(m)
                THEN [pull EXCEPT ![p] = [NoPull EXCEPT !.pc = "check", !.want = m,
                                                        !.plan = DependencyOrder(m).order]]
                ELSE Aborted(p)
    /\ UNCHANGED <<installed, tokenSeenBy, tokenAfterExit, damage>>

\* The loop over the plan: the next model, or the command says the wanted one is ready.
NextModel(p) ==
    LET r == pull[p] IN
    pull' = [pull EXCEPT ![p] = IF r.at = Len(r.plan) THEN [r EXCEPT !.pc = "ready"]
                                ELSE [r EXCEPT !.pc = "check", !.at = r.at + 1]]

\* validate_lock against the manifest's name, revision and digest.
LockIsValid(m) == m \notin InvalidLocks

\* verify_dir: every locked file is there with its size and hash, and nothing else is.
VerifyDir(m) == installed[m] = "whole"

Refuse(p) ==
    /\ pull[p].pc = "check"
    \* unverified without --allow-unverified, an invalid lock, a directory that fails
    \* verification; offline, or no space
    /\ \/ Model(p) \notin VerifiedModels
       \/ ~LockIsValid(Model(p))
       \/ ~VerifyDir(Model(p))
    /\ pull' = Aborted(p)
    /\ UNCHANGED <<installed, tokenSeenBy, tokenAfterExit, pulls, damage>>

AlreadyPresent(p) ==
    /\ pull[p].pc = "check" /\ LockIsValid(Model(p)) /\ VerifyDir(Model(p))
    /\ NextModel(p)
    /\ UNCHANGED <<installed, tokenSeenBy, tokenAfterExit, pulls, damage>>

Stage(p) ==
    /\ pull[p].pc = "check" /\ LockIsValid(Model(p)) /\ installed[Model(p)] = "absent"
    /\ pull' = [pull EXCEPT ![p].pc = "open", ![p].file = 1]
    /\ UNCHANGED <<installed, tokenSeenBy, tokenAfterExit, pulls, damage>>

----------------------------------------------------------------------------
(* open_url and download_file. *)

\* As the code would be if the token were sent whenever a hop is at its host.
KeepsTokenAtHome(r) == r.token

\* Once a redirect has left the token host the token is not sent again.
KeepsToken(r) == r.token /\ r.host = TokenHost

\* As the code would be if it counted the redirects from one.
HopsSpentLate(r) == r.hops > MaxRedirects + 1

\* The first request and MAX_REDIRECTS more.
HopsSpent(r) == r.hops > MaxRedirects

\* One hop: the host is checked, the token sent or given up, and the server answers with data
\* or with a redirect.
Hop(p) ==
    LET r == pull[p] IN
    /\ r.pc = "open"
    /\ \/ /\ r.host \notin AllowedHosts \/ HopsSpent(r)
          /\ pull' = Aborted(p)
          /\ UNCHANGED <<tokenSeenBy, tokenAfterExit>>
       \/ /\ r.host \in AllowedHosts /\ ~HopsSpent(r)
          /\ LET sends == KeepsToken(r) /\ r.host = TokenHost IN
             /\ tokenSeenBy' = IF sends THEN tokenSeenBy \cup {r.host} ELSE tokenSeenBy
             /\ tokenAfterExit' = (tokenAfterExit \/ (sends /\ r.left))
          /\ \/ pull' = [pull EXCEPT ![p].pc = "download"]
             \/ \E h \in AllowedHosts \cup OtherHosts :
                  pull' = [pull EXCEPT ![p] = [r EXCEPT !.host = h, !.hops = r.hops + 1, !.token = KeepsToken(r),
                                                        !.left = r.left \/ r.host # TokenHost]]
    /\ UNCHANGED <<installed, pulls, damage>>

\* As the code would be if files were downloaded into the model's own directory.
CacheAfterFileInPlace(m) == [installed EXCEPT ![m] = "partial"]

\* The file is written to the staging directory.
CacheAfterFile(m) == installed

\* The bytes have the locked size and hash, or the download is interrupted or refused.
DownloadFile(p) ==
    /\ pull[p].pc = "download"
    /\ \/ /\ pull' = [pull EXCEPT ![p].pc = IF pull[p].file = LockFiles THEN "install" ELSE "open",
                                  ![p].file = IF @ = LockFiles THEN @ ELSE @ + 1,
                                  ![p].host = TokenHost, ![p].hops = 0, ![p].token = TRUE, ![p].left = FALSE]
          /\ installed' = CacheAfterFile(Model(p))
       \/ pull' = Aborted(p) /\ UNCHANGED installed
    /\ UNCHANGED <<tokenSeenBy, tokenAfterExit, pulls, damage>>

\* verify_dir of the staging directory, and the rename, which fails on a directory another pull
\* has put there.
Install(p) ==
    /\ pull[p].pc = "install"
    /\ IF installed[Model(p)] = "absent"
       THEN installed' = [installed EXCEPT ![Model(p)] = "whole"] /\ NextModel(p)
       ELSE pull' = Aborted(p) /\ UNCHANGED installed
    /\ UNCHANGED <<tokenSeenBy, tokenAfterExit, pulls, damage>>

\* The process is killed: its staging directory stays, the cache is as it was.
Killed(p) ==
    /\ Pulling(p)
    /\ pull' = [pull EXCEPT ![p] = NoPull]
    /\ UNCHANGED <<installed, tokenSeenBy, tokenAfterExit, pulls, damage>>

\* Between pulls: a file of the cache is damaged, or its owner removes a directory.
CacheChanges ==
    /\ damage < MaxDamage /\ \A p \in Pullers : ~Pulling(p)
    /\ damage' = damage + 1
    /\ \E m \in VoiceModels :
        /\ installed[m] # "absent"
        /\ \E d \in {"damaged", "absent"} : installed' = [installed EXCEPT ![m] = d]
    /\ pull' = [p \in Pullers |-> NoPull]
    /\ UNCHANGED <<tokenSeenBy, tokenAfterExit, pulls>>

PullNext ==
    \/ CacheChanges
    \/ \E p \in Pullers :
        \/ StartPull(p) \/ Refuse(p) \/ AlreadyPresent(p) \/ Stage(p) \/ Hop(p)
        \/ DownloadFile(p) \/ Install(p) \/ Killed(p)

PullSpec == PullInit /\ [][PullNext]_pullVars

----------------------------------------------------------------------------
PullTypeOK ==
    /\ installed \in [VoiceModels -> {"absent", "partial", "whole", "damaged"}]
    /\ \A p \in Pullers : pull[p].file \in 1..LockFiles /\ pull[p].hops \in 0..(MaxRedirects + 1)

\* All a model needs, itself included: the least set closed under DependsOn.
Needed(m) ==
    LET closed == {S \in SUBSET VoiceModels :
                    m \in S /\ \A x \in S : \A i \in DOMAIN DependsOn[x] : DependsOn[x][i] \in S}
    IN  {x \in VoiceModels : \A S \in closed : x \in S}

\* A command that says a model is ready has found or put every model it needs whole.
ReadyIsWhole ==
    \A p \in Pullers : pull[p].pc = "ready" =>
        \A m \in Needed(pull[p].want) : installed[m] = "whole"

\* No directory of the cache is ever half a model.
NothingPartial == \A m \in VoiceModels : installed[m] # "partial"

\* The token goes to its host only, and not to it either once a download has left it.
TokenStaysHome == tokenSeenBy \subseteq {TokenHost} /\ ~tokenAfterExit

(***************************************************************************)
(* What a pull promises, however many run at once and wherever they are    *)
(* killed: the cache holds whole models or none, "is ready" is true of the *)
(* model and of all it depends on, and redirects do not carry the access   *)
(* token away.                                                             *)
(***************************************************************************)
PullIsSound == NothingPartial /\ ReadyIsWhole /\ TokenStaysHome
============================================================================

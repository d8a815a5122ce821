------------------------------ MODULE Sandbox -------------------------------
(***************************************************************************)
(* The sandbox runner, the only process that holds the Docker socket, with *)
(* its clients in the app (code_exec, file_access, folder staging) and the *)
(* owner's command 'ragleap files'.  The runner serves requests in threads *)
(* and one run at a time; Docker calls may fail, clients stop waiting, the *)
(* runner is killed and started again, and the owner changes the grants    *)
(* and the switch at any moment.                                           *)
(***************************************************************************)
EXTENDS Naturals, Sequences, FiniteSets

CONSTANTS
    Apps,                   \* clients
    Handlers,               \* the runner's threads
    Grants, NoGrant, Folders,
    MaxRequests, MaxOwnerSteps, MaxDockerFaults, MaxRunnerStops     \* bounds

VARIABLES
    grants,         \* the grants file: name -> [folder, purpose, expired], or NoGrant
    switch,         \* computer control, with the DISABLED flag
    knownNames,     \* the app's cached list of grant names
    app,            \* per client: the handler whose reply it waits for, or Idle
    handler,        \* per thread: the request it serves
    runLock,        \* the run lock's holder, or Free
    containers,     \* labelled containers that exist: [of, folder, runs, lawful]
    refusedByOwn,   \* was a client refused as busy because of its own staging that has answered?
    runnerUp, requests, ownerSteps, dockerFaults, stops

boxVars == <<grants, switch, knownNames, app, handler, runLock, containers, refusedByOwn,
             runnerUp, requests, ownerSteps, dockerFaults, stops>>

Free == "free"
Idle == "idle"
\* plan: what the containers still to run are for, a folder or a step; seen: folders granted at some moment since
\* the request came in
NoRequest == [pc |-> "idle", kind |-> "none", app |-> "none", grant |-> "none", plan |-> <<>>,
              seen |-> {}, replied |-> FALSE]

GrantRows == [folder : Folders, purpose : {"use", "knowledge"}, expired : BOOLEAN]
StepNames == {"code", "prepare", "prune", "failed"}

ASSUME SandboxAssumption ==
    /\ {Free, Idle, "nobody"} \cap Handlers = {}
    /\ NoGrant \notin GrantRows /\ StepNames \cap Folders = {}

BoxInit ==
    /\ grants = [g \in Grants |-> NoGrant]
    /\ switch = TRUE /\ knownNames = {}
    /\ app = [a \in Apps |-> Idle]
    /\ handler = [h \in Handlers |-> NoRequest]
    /\ runLock = Free /\ containers = {} /\ refusedByOwn = FALSE
    /\ runnerUp = TRUE /\ requests = 0 /\ ownerSteps = 0 /\ dockerFaults = 0 /\ stops = 0

----------------------------------------------------------------------------
(* The owner. *)

\* active_grants while computer control is on.
ActiveIn(gs, on) == {g \in Grants : on /\ gs[g] # NoGrant /\ ~gs[g].expired}
Active == ActiveIn(grants, switch)
GrantedIn(gs, on) == {gs[g].folder : g \in ActiveIn(gs, on)}

\* Every request under way has now also seen what is granted after an owner's step.
Witnessed(gs, on) ==
    handler' = [h \in Handlers |->
        IF handler[h].pc = "idle" THEN handler[h]
        ELSE [handler[h] EXCEPT !.seen = @ \cup GrantedIn(gs, on)]]

OwnerStep(gs, on) ==
    /\ ownerSteps < MaxOwnerSteps /\ ownerSteps' = ownerSteps + 1
    /\ grants' = gs /\ switch' = on
    /\ Witnessed(gs, on)
    /\ UNCHANGED <<knownNames, app, runLock, containers, refusedByOwn, runnerUp, requests, dockerFaults, stops>>

CmdAdd == \E g \in Grants, f \in Folders, p \in {"use", "knowledge"} :
    /\ grants[g] = NoGrant
    /\ OwnerStep([grants EXCEPT ![g] = [folder |-> f, purpose |-> p, expired |-> FALSE]], switch)

CmdRemove == \E g \in Grants :
    /\ grants[g] # NoGrant
    /\ OwnerStep([grants EXCEPT ![g] = NoGrant], switch)

CmdOff == switch /\ OwnerStep(grants, FALSE)
CmdOn == ~switch /\ OwnerStep(grants, TRUE)

GrantExpires == \E g \in Grants :
    /\ grants[g] # NoGrant /\ ~grants[g].expired
    /\ OwnerStep([grants EXCEPT ![g].expired = TRUE], switch)

----------------------------------------------------------------------------
(* The app. *)

\* grant_names, when its cache is older than GRANT_CACHE_SECONDS.
RefreshNames ==
    /\ runnerUp /\ knownNames # Active
    /\ knownNames' = Active
    /\ UNCHANGED <<grants, switch, app, handler, runLock, containers, refusedByOwn,
                   runnerUp, requests, ownerSteps, dockerFaults, stops>>

\* A request: run_code or run_shell, list or read in a grant the cache knows, or staging.
Request(a) ==
    /\ runnerUp /\ app[a] = Idle /\ requests < MaxRequests
    /\ requests' = requests + 1
    /\ \E h \in Handlers, kind \in {"run", "files", "stage"} :
        \E g \in IF kind = "files" THEN knownNames ELSE {"none"} :
            /\ handler[h].pc = "idle"
            /\ handler' = [handler EXCEPT ![h] = [NoRequest EXCEPT
                              !.pc = "arrived", !.kind = kind, !.app = a, !.grant = g,
                              !.seen = GrantedIn(grants, switch)]]
            /\ app' = [app EXCEPT ![a] = h]
    /\ UNCHANGED <<grants, switch, knownNames, runLock, containers, refusedByOwn, runnerUp, ownerSteps, dockerFaults, stops>>

\* The client's HTTP timeout: it stops waiting, the runner goes on.
StopWaiting(a) ==
    /\ app[a] # Idle
    /\ app' = [app EXCEPT ![a] = Idle]
    /\ UNCHANGED <<grants, switch, knownNames, handler, runLock, containers, refusedByOwn,
                   runnerUp, requests, ownerSteps, dockerFaults, stops>>

----------------------------------------------------------------------------
(* The runner. *)

\* The client that still waits for h has its answer.
AppAnswered(h) == [a \in Apps |-> IF app[a] = h THEN Idle ELSE app[a]]

\* 429 when another run holds the lock.
Lock(h) ==
    /\ handler[h].pc = "arrived"
    /\ \/ /\ runLock = Free
          /\ runLock' = h
          /\ handler' = [handler EXCEPT ![h].pc = "admit"]
          /\ UNCHANGED <<app, refusedByOwn>>
       \/ /\ runLock # Free
          /\ app' = AppAnswered(h)
          /\ handler' = [handler EXCEPT ![h] = NoRequest]
          /\ refusedByOwn' = (refusedByOwn \/ /\ handler[runLock].replied
                                              /\ handler[runLock].kind = "stage"
                                              /\ handler[runLock].app = handler[h].app)
          /\ UNCHANGED runLock
    /\ UNCHANGED <<grants, switch, knownNames, containers, runnerUp, requests, ownerSteps, dockerFaults, stops>>

\* As the code would be if the runner relied on the names the app knows.
GrantFoundCached(g) == g \in knownNames /\ grants[g] # NoGrant

\* The grant a request names, looked up in the file at each request.
GrantFound(g) == g \in Active

KnowledgeFolders == {grants[g].folder : g \in {x \in Active : grants[x].purpose = "knowledge"}}

\* What staging runs: prepare, each knowledge grant, prune.
StagePlans == {<<"prepare">> \o s \o <<"prune">> :
                 s \in {q \in UNION {[1..n -> KnowledgeFolders] : n \in 0..Cardinality(KnowledgeFolders)} :
                         {q[i] : i \in DOMAIN q} = KnowledgeFolders}}

\* file_op, stage_op and run_in_sandbox up to their first container.  The grants are read once.
Admit(h) ==
    LET r == handler[h] IN
    /\ r.pc = "admit"
    /\ \/ /\ r.kind = "run"
          /\ handler' = [handler EXCEPT ![h].pc = "create", ![h].plan = <<"code">>]
       \/ /\ r.kind = "files" /\ GrantFound(r.grant)
          /\ handler' = [handler EXCEPT ![h].pc = "create", ![h].plan = <<grants[r.grant].folder>>]
       \/ /\ r.kind = "stage" /\ switch
          /\ \E p \in StagePlans : handler' = [handler EXCEPT ![h].pc = "create", ![h].plan = p]
       \/ /\ \/ r.kind = "files" /\ ~GrantFound(r.grant)
             \/ r.kind = "stage" /\ ~switch
          /\ handler' = [handler EXCEPT ![h].pc = "finish"]
    /\ UNCHANGED <<grants, switch, knownNames, app, runLock, containers, refusedByOwn,
                   runnerUp, requests, ownerSteps, dockerFaults, stops>>

DockerFault == dockerFaults < MaxDockerFaults /\ dockerFaults' = dockerFaults + 1
Mine(h) == {c \in containers : c.of = h}
Abandoned(c) == [c EXCEPT !.of = "nobody"]

\* A container is made; its answer may be lost, and then nobody knows it; or the call fails.
CreateContainer(h) ==
    LET f == handler[h].plan[1]
        new == [of |-> h, nr |-> dockerFaults + stops, folder |-> f, runs |-> FALSE,
                lawful |-> f \notin Folders \/ f \in handler[h].seen] IN
    /\ handler[h].pc = "create"
    /\ \/ /\ containers' = containers \cup {new}
          /\ handler' = [handler EXCEPT ![h].pc = "start"]
          /\ UNCHANGED dockerFaults
       \/ /\ DockerFault
          /\ containers' \in {containers, containers \cup {Abandoned(new)}}
          /\ handler' = [handler EXCEPT ![h].pc = "finish"]
    /\ UNCHANGED <<grants, switch, knownNames, app, runLock, refusedByOwn, runnerUp, requests, ownerSteps, stops>>

StartContainer(h) ==
    /\ handler[h].pc = "start"
    /\ \/ /\ containers' = (containers \ Mine(h)) \cup {[c EXCEPT !.runs = TRUE] : c \in Mine(h)}
          /\ handler' = [handler EXCEPT ![h].pc = "poll"]
          /\ UNCHANGED dockerFaults
       \/ /\ DockerFault
          /\ handler' = [handler EXCEPT ![h].pc = "delete", ![h].plan = <<"failed">>]
          /\ UNCHANGED containers
    /\ UNCHANGED <<grants, switch, knownNames, app, runLock, refusedByOwn, runnerUp, requests, ownerSteps, stops>>

ContainerExits ==
    /\ \E c \in containers : c.runs /\ containers' = (containers \ {c}) \cup {[c EXCEPT !.runs = FALSE]}
    /\ UNCHANGED <<grants, switch, knownNames, app, handler, runLock, refusedByOwn,
                   runnerUp, requests, ownerSteps, dockerFaults, stops>>

\* The polling loop ends: the container has ended, was killed at the limit, or, five seconds
\* later, is left running for the removal to end.
PollEnds(h) ==
    /\ handler[h].pc = "poll"
    /\ handler' = [handler EXCEPT ![h].pc = "delete"]
    /\ UNCHANGED <<grants, switch, knownNames, app, runLock, containers, refusedByOwn,
                   runnerUp, requests, ownerSteps, dockerFaults, stops>>

\* As the code would be if the container were removed only when the run had ended well.
RemovedIfEnded(h) == {c \in Mine(h) : ~c.runs}

\* The finally clause removes it by force.
Removed(h) == Mine(h)

\* ... and an error of that call is swallowed.  Then the next container of the plan, unless the
\* staging volume could not be prepared.
DeleteContainer(h) ==
    LET plan == handler[h].plan IN
    /\ handler[h].pc = "delete"
    /\ \/ containers' = containers \ Removed(h) /\ UNCHANGED dockerFaults
       \/ DockerFault /\ containers' = (containers \ Mine(h)) \cup {Abandoned(c) : c \in Mine(h)}
    /\ \/ /\ Len(plan) > 1
          /\ handler' = [handler EXCEPT ![h].pc = "create", ![h].plan = Tail(plan)]
       \/ /\ Len(plan) = 1 \/ plan[1] = "prepare"
          /\ handler' = [handler EXCEPT ![h].pc = "finish"]
    /\ UNCHANGED <<grants, switch, knownNames, app, runLock, refusedByOwn, runnerUp, requests, ownerSteps, stops>>

\* As the code would be if staging answered like the others do.
ReleasesFirstNever(kind) == FALSE

\* Staging releases the lock before it replies; the others reply first.
ReleasesFirst(kind) == kind = "stage"

Finish(h) ==
    LET r == handler[h] IN
    /\ r.pc = "finish"
    /\ \/ /\ ReleasesFirst(r.kind) \/ r.replied
          /\ runLock' = Free
          /\ handler' = [handler EXCEPT ![h] = IF r.replied THEN NoRequest ELSE [r EXCEPT !.pc = "reply"]]
          /\ UNCHANGED app
       \/ /\ ~ReleasesFirst(r.kind) /\ ~r.replied
          /\ app' = AppAnswered(h)
          /\ handler' = [handler EXCEPT ![h].replied = TRUE]
          /\ UNCHANGED runLock
    /\ UNCHANGED <<grants, switch, knownNames, containers, refusedByOwn, runnerUp, requests, ownerSteps, dockerFaults, stops>>

StageReplies(h) ==
    /\ handler[h].pc = "reply"
    /\ app' = AppAnswered(h)
    /\ handler' = [handler EXCEPT ![h] = NoRequest]
    /\ UNCHANGED <<grants, switch, knownNames, runLock, containers, refusedByOwn,
                   runnerUp, requests, ownerSteps, dockerFaults, stops>>

RunnerDies ==
    /\ runnerUp /\ stops < MaxRunnerStops
    /\ runnerUp' = FALSE /\ stops' = stops + 1
    /\ runLock' = Free
    /\ handler' = [h \in Handlers |-> NoRequest]
    /\ app' = [a \in Apps |-> Idle]
    /\ containers' = {Abandoned(c) : c \in containers}
    /\ UNCHANGED <<grants, switch, knownNames, refusedByOwn, requests, ownerSteps, dockerFaults>>

\* cleanup_orphans, which is skipped when Docker does not answer.
RunnerStarts ==
    /\ ~runnerUp /\ runnerUp' = TRUE
    /\ \/ containers' = {} /\ UNCHANGED dockerFaults
       \/ DockerFault /\ UNCHANGED containers
    /\ UNCHANGED <<grants, switch, knownNames, app, handler, runLock, refusedByOwn, requests, ownerSteps, stops>>

BoxNext ==
    \/ CmdAdd \/ CmdRemove \/ CmdOff \/ CmdOn \/ GrantExpires
    \/ RefreshNames \/ ContainerExits \/ RunnerDies \/ RunnerStarts
    \/ \E a \in Apps : Request(a) \/ StopWaiting(a)
    \/ \E h \in Handlers :
        \/ Lock(h) \/ Admit(h) \/ CreateContainer(h) \/ StartContainer(h) \/ PollEnds(h)
        \/ DeleteContainer(h) \/ Finish(h) \/ StageReplies(h)

BoxSpec == BoxInit /\ [][BoxNext]_boxVars

----------------------------------------------------------------------------
BoxTypeOK ==
    /\ knownNames \subseteq Grants /\ switch \in BOOLEAN
    /\ \A a \in Apps : app[a] \in Handlers \cup {Idle}
    /\ runLock \in Handlers \cup {Free}

\* The containers that exist are the one of the run that holds the lock, and one for each Docker
\* call that failed: everything else has been removed.
NoStrays ==
    runnerUp => Cardinality(containers) <= (IF runLock = Free THEN 0 ELSE 1) + dockerFaults

\* A folder is mounted only for a request during which it was granted and file access was on.
MountsAreGranted == \A c \in containers : c.lawful

\* The lock is held by a request at work, and by one only.
LockIsLive == runLock # Free => handler[runLock].pc \notin {"idle", "arrived", "reply"}

(***************************************************************************)
(* What the runner promises: containers do not pile up, folders are        *)
(* mounted by grant only, the lock is never lost, and a client whose       *)
(* staging has been answered is not refused because of it.                 *)
(***************************************************************************)
SandboxIsSound == NoStrays /\ MountsAreGranted /\ LockIsLive /\ ~refusedByOwn
============================================================================

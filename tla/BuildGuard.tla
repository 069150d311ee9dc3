------------------------------ MODULE BuildGuard ------------------------------
(***************************************************************************)
(* The tool hook of the agents' gateways: build-guard                      *)
(* (openclaw-enclave/plugins/build-guard/index.mjs), run before every tool *)
(* call of the three cells, with the directories docker-compose.yml mounts *)
(* in each and the movers that carry text from one cell to the next.       *)
(*                                                                         *)
(* Text is what it is made of: pages, project files, requests, briefs.  An *)
(* agent has in context all it ever read, and what it writes may hold any  *)
(* of it.  Paths are those the rules tell apart, after realResolve(); a    *)
(* tool is taken to open the path the hook resolved.                       *)
(***************************************************************************)
EXTENDS Integers, Sequences, FiniteSets

CONSTANTS
  Runs,            \* scheduled runs of scout
  FetchBudget,     \* CRON_FETCH_BUDGET.scout (1)
  FetchCountsMax,  \* FETCH_COUNTS_MAX (512)
  MaxFetches,      \* bound on the fetches of a run
  MaxUnjudged      \* bound on the calls that pass unjudged

ASSUME GuardAssumption ==
  /\ FetchBudget \in Nat \ {0} /\ FetchCountsMax \in Nat \ {0}
  /\ MaxFetches \in Nat /\ MaxUnjudged \in Nat

(***************************************************************************)
(* Paths                                                                   *)
(***************************************************************************)
Handoffs == {"raw", "normalized", "briefs-pending", "briefs", "briefs-flagged",
             "reviews", "inbox", "requests"}
Stores == Handoffs \cup {"projects"}
Secrets == {"secrets", "state"}   \* /run/secrets, and what .openclaw keeps of them
Folders == {"/", "node", "exchange", ".openclaw"}
Paths == Stores \cup Secrets \cup Folders \cup {"workspace"}

Up == [p \in Paths |->
         IF p \in Handoffs THEN "exchange"
         ELSE IF p \in {"state", "workspace"} THEN ".openclaw"
         ELSE IF p \in {"projects", "exchange", ".openclaw"} THEN "node"
         ELSE "/"]

\* isUnder()
IsUnder(child, parent) == parent \in {child, Up[child], Up[Up[child]], Up[Up[Up[child]]]}

(***************************************************************************)
(* Rules                                                                   *)
(***************************************************************************)
Cells == {"main", "scout", "curator"}
Unknown == "unknown"   \* agentOf() found no identity

\* AGENT_POLICY; a null list allows everything, as "/" does.
AgentPolicy ==
  [scout |->
     [read |-> {"workspace", "inbox", "raw"}, readDeny |-> {},
      write |-> {"raw"}, writeDeny |-> {}],
   curator |->
     [read |-> {"workspace", "normalized", "briefs-pending"},
      readDeny |-> {"raw", "briefs", "briefs-flagged"},
      write |-> {"briefs-pending"}, writeDeny |-> {"briefs", "briefs-flagged"}],
   main |->
     [read |-> {"/"}, readDeny |-> {},
      write |-> {"projects", "workspace", "requests"}, writeDeny |-> {}]]

\* Slip: a path that contains an allowed one passes.
AllowedAbove(allow, p) == \E a \in allow : IsUnder(a, p)
AllowedBy(allow, p) == \E a \in allow : IsUnder(p, a)

\* agentPathViolation()
PathViolation(allow, deny, p) ==
  \/ \E d \in deny : IsUnder(p, d) \/ IsUnder(d, p)
  \/ ~AllowedBy(allow, p)

\* isProtectedPath()
IsProtected(p) == IsUnder(p, ".openclaw") /\ ~IsUnder(p, "workspace")

\* Slip: a folder that contains a secret is no secret.
IsSecretItself(p) == \E s \in Secrets : IsUnder(p, s)
\* isSecretReadPath()
IsSecretRead(p) == \E s \in Secrets : IsUnder(p, s) \/ IsUnder(s, p)

EditBlocked(call) ==
  \/ call.paths = {} \/ \E p \in call.paths : IsProtected(p)
  \/ call.id = Unknown
  \/ \E p \in call.paths :
       PathViolation(AgentPolicy[call.id].write, AgentPolicy[call.id].writeDeny, p)

OutsideRead(call) ==
  \E p \in call.paths :
    PathViolation(AgentPolicy[call.id].read, AgentPolicy[call.id].readDeny, p)

\* A list or a grep that names no path is not blocked, and a string that begins
\* with neither "/" nor "." is held against the secrets only.
ReadBlocked(call) ==
  \/ \E p \in call.paths : IsSecretRead(p)
  \/ call.id = Unknown
  \/ ~call.bare /\ OutsideRead(call)

\* main has no web tools; every other identity, and none, passes.
FetchBlocked(id) == id = "main"

\* AGENT_FACING_WRAPPERS
AgentFacingWrappers == {}

\* classifyWrapperCommand(): a command is a script's name, or "other" if it is
\* no single call of a wrapper.
ClassifyWrapper(call) == call.script # "other"

\* No command in a scheduled run, in others the wrappers made for agents.
ExecBlocked(call) ==
  call.cron \/ ~ClassifyWrapper(call) \/ call.script \notin AgentFacingWrappers

\* Refused by the hook.  A tool it has no rule for is not in the model.
Blocked(call) ==
  CASE call.tool = "edit" -> EditBlocked(call)
    [] call.tool = "read" -> ReadBlocked(call)
    [] call.tool = "exec" -> ExecBlocked(call)

VARIABLES
  mounts,    \* what of Stores a cell's container sees
  web,       \* the cells whose configuration gives them the web tools
  holds,     \* the text in each of Stores
  context,   \* the text an agent has read
  unjudged,  \* history: the cells whose call passed as none the rules are for
  counts,    \* fetchCounts, oldest first
  fetched,   \* history: fetches allowed to each run
  later,     \* history: runs counted after a run's first fetch
  unplaced,  \* history: runs with a fetch that was not counted
  over       \* runs that do not take place, or ended with the process

layers == <<mounts, web>>
flowVars == <<layers, holds, context, unjudged>>
budgetVars == <<counts, fetched, later, unplaced, over>>
vars == <<flowVars, budgetVars>>

Text == {"page", "normalized", "brief", "project", "approved", "secret"}

TypeOK ==
  /\ mounts \in [Cells -> SUBSET Stores] /\ web \subseteq Cells
  /\ holds \in [Stores -> SUBSET Text] /\ context \in [Cells -> SUBSET Text]
  /\ unjudged \subseteq Cells /\ unplaced \subseteq Runs
  /\ counts \in Seq([run : Runs, used : 1..FetchBudget])
  /\ fetched \in [Runs -> 0..MaxFetches] /\ later \in [Runs -> SUBSET Runs]
  /\ over \subseteq Runs

\* docker-compose.yml, without its read-only flags
Compose ==
  [main |-> {"briefs", "briefs-flagged", "reviews", "requests", "projects"},
   scout |-> {"raw", "inbox"}, curator |-> {"normalized", "briefs-pending"}]

\* tools.allow and tools.deny of the cells' configurations
Configured == {"scout"}

\* The containers and the configurations are as they are kept, or the hook is
\* left alone: the two cells that handle pages see every store, and every cell
\* has the web tools.
Init ==
  /\ mounts \in {Compose, [c \in Cells |-> IF c = "main" THEN Compose[c] ELSE Stores]}
  /\ web \in {Configured, Cells}
  /\ holds = [s \in Stores |-> IF s = "projects" THEN {"project"} ELSE {}]
  /\ context = [c \in Cells |-> {}] /\ unjudged = {}
  /\ counts = << >> /\ fetched = [r \in Runs |-> 0]
  /\ later = [r \in Runs |-> {}] /\ unplaced = {} /\ over \in SUBSET Runs

(***************************************************************************)
(* The fetch budget                                                        *)
(***************************************************************************)
Counted(run) == {i \in 1..Len(counts) : counts[i].run = run}

\* Slip: the oldest run goes before the table is full.
MakeRoomEarly(table) == IF Len(table) + 1 >= FetchCountsMax THEN Tail(table) ELSE table
MakeRoom(table) == IF Len(table) >= FetchCountsMax THEN Tail(table) ELSE table

\* noteFetchAndCheck()
NoteFetch(run) ==
  \/ /\ Counted(run) = {}
     /\ counts' = Append(MakeRoom(counts), [run |-> run, used |-> 1])
  \/ \E i \in Counted(run) :
       counts[i].used < FetchBudget /\ counts' = [counts EXCEPT ![i].used = @ + 1]

FetchInRun(run) ==
  /\ run \notin over /\ fetched[run] < MaxFetches
  /\ fetched' = [fetched EXCEPT ![run] = @ + 1]
  /\ context' = [context EXCEPT !["scout"] = @ \cup {"page"}]
  /\ UNCHANGED <<layers, holds, unjudged, over>>

\* A fetch of a run whose session key names scout and ":cron:"; one without a
\* runId is refused.
CountedFetch(run) ==
  /\ FetchInRun(run) /\ NoteFetch(run)
  /\ later' = [r \in Runs |-> IF fetched[r] > 0 /\ r # run THEN later[r] \cup {run}
                                                            ELSE later[r]]
  /\ UNCHANGED unplaced

\* A fetch of a run the hook finds no identity for, or whose key has no
\* ":cron:": it has no budget.
UncountedFetch(run) ==
  /\ FetchInRun(run) /\ unplaced' = unplaced \cup {run}
  /\ UNCHANGED <<counts, later>>

\* A call of c that passes as none the rules are for; bounded.
Unjudged(c) ==
  /\ c \notin unjudged /\ Cardinality(unjudged) < MaxUnjudged
  /\ unjudged' = unjudged \cup {c}

\* Any other fetch: the operator's sessions with scout, and another cell's web
\* tools.
OtherFetch(c, id) ==
  /\ c \in web /\ ~FetchBlocked(id)
  /\ context' = [context EXCEPT ![c] = @ \cup {"page"}]
  /\ IF c = "scout" THEN UNCHANGED unjudged ELSE Unjudged(c)
  /\ UNCHANGED <<layers, holds, budgetVars>>

\* The process ends, and the runs under way with it.
Restart ==
  /\ counts' = << >> /\ over' = over \cup {r \in Runs : fetched[r] > 0}
  /\ UNCHANGED <<flowVars, fetched, later, unplaced>>

(***************************************************************************)
(* The other tools                                                         *)
(***************************************************************************)
\* What a container shows under a path.
Seen(c, p) ==
  UNION {holds[s] : s \in {q \in mounts[c] : IsUnder(q, p)}}
    \cup (IF \E s \in Secrets : IsUnder(s, p) THEN {"secret"} ELSE {})

\* What a call brings into the session: without a path a list or a grep is of
\* the workspace, and a command is free to read.
Brings(c, call) ==
  IF call.tool = "read" THEN UNION {Seen(c, p) : p \in call.paths} ELSE Seen(c, "/")

\* read, grep, list, exec
Take(c, call) ==
  /\ call.tool \in {"read", "exec"}
  /\ context' = [context EXCEPT ![c] = @ \cup Brings(c, call)]
  /\ IF call.tool = "read" /\ OutsideRead(call) THEN Unjudged(c) ELSE UNCHANGED unjudged
  /\ UNCHANGED <<layers, holds, budgetVars>>

\* write, edit, apply_patch
Give(c, call) ==
  /\ call.tool = "edit"
  /\ holds' = [s \in Stores |-> IF s \in mounts[c] /\ \E p \in call.paths : IsUnder(s, p)
                                  THEN holds[s] \cup context[c] ELSE holds[s]]
  /\ UNCHANGED <<layers, context, unjudged, budgetVars>>

\* A call names no path, one, or a folder beside the workspace.
Named == {{}} \cup {{p} : p \in Paths} \cup {{"workspace", p} : p \in Folders}

\* The paths among candidateStrings(), bare if they begin with neither "/" nor
\* "."
ReadCalls(c) == [tool : {"read"}, id : {c, Unknown}, paths : Named, bare : BOOLEAN]
\* editedPaths()
EditCalls(c) == [tool : {"edit"}, id : {c, Unknown}, paths : Named]
\* execCommand()
ExecCalls == [tool : {"exec"}, cron : BOOLEAN, script : {"wrapper", "other"}]

\* The calls of an agent in cell c
Calls(c) == ReadCalls(c) \cup EditCalls(c) \cup ExecCalls

\* before_tool_call lets these pass
Passing == [c \in Cells |-> {call \in Calls(c) : ~Blocked(call)}]

(***************************************************************************)
(* The movers between the cells, which do not pass the hook                *)
(***************************************************************************)
Move(from, to, text) ==
  /\ holds[from] # {} /\ holds' = [holds EXCEPT ![to] = @ \cup {text}]
  /\ UNCHANGED <<layers, context, unjudged, budgetVars>>

Mover ==
  \/ Move("raw", "normalized", "normalized")   \* the sealer
  \/ Move("briefs-pending", "briefs", "brief")
  \/ Move("briefs-pending", "briefs-flagged", "brief")
  \/ Move("requests", "inbox", "approved")     \* the request mover, after a human

Next ==
  \/ \E c \in Cells : \E call \in Passing[c] : Take(c, call) \/ Give(c, call)
  \/ \E run \in Runs : CountedFetch(run) \/ UncountedFetch(run)
  \/ \E c \in Cells : \E id \in {c, Unknown} : OtherFetch(c, id)
  \/ Restart \/ Mover

Spec == Init /\ [][Next]_vars

(***************************************************************************)
(* Properties                                                              *)
(***************************************************************************)
\* What an agent may come to have read.
Given ==
  [main |-> {"project", "brief"}, curator |-> {"normalized"}, scout |-> {"page", "approved"}]

\* What the containers and the configurations keep from a cell by themselves.
Sheltered(c) == mounts[c] \subseteq Compose[c] /\ c \notin web \ Configured

\* However agents read and write and movers carry their files on, scout knows
\* of the project only what an approved request says, curator of pages only
\* what the sealer normalized, main only the briefs that were passed.  Mounts
\* and configurations as they are kept see to that, and so does the hook alone,
\* for a cell none of whose calls passed it unjudged.  A credential reaches
\* nobody, judged or not.
Confined ==
  \A c \in Cells :
    /\ Sheltered(c) \/ c \notin unjudged => context[c] \subseteq Given[c]
    /\ "secret" \notin context[c]

\* A scheduled run whose fetches are all counted has no more than its budget,
\* whatever runs go on beside it, unless as many others as the table holds were
\* counted since it first fetched.
BudgetKept ==
  \A r \in Runs \ unplaced :
    fetched[r] <= FetchBudget \/ Cardinality(later[r]) >= FetchCountsMax
=============================================================================

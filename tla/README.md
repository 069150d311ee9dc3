# A specification of OpenClaw secure deploy

TLA+ modules for the stateful parts of this repository, TLC configurations
that check them on small instances, and TLAPS proofs of what holds for every
size. Paths below are relative to `src/`; the control plane's own paths
(`apps/`, `packages/`, `scripts/bootstrap/`) are under `src/control-plane/`.

    tlc -workers 2 -config MCSealer.cfg MCSealer     # model-check one instance
    tlapm SealerProofs.tla                           # check one module's proofs

## 1. The system

Three agents of decreasing trust share nothing but directories. *scout* may
fetch from the network, the *curator* distils what was fetched, *main* (cell 3)
reads the distilled briefs and may ask for more. Between them sits the
*airlock*, a shell script that runs every few minutes. In front of every tool
call of an agent sits the *build guard*. Beside them runs the *control plane*,
a Node server and a web page with which a human watches the agents' gateways,
talks to agents, edits their configuration and releases what the airlock and
the agents propose.

    main --requests/--> human --inbox/--> airlock phase 3 --PENDING.txt--> scout
    scout --raw/--> phase 1 --normalized/--> curator --briefs-pending/--> phase 2
    phase 2 --briefs/ or briefs-flagged/--> main;  phase 4: archive, reap, manifest
    gateways --events, calls--> links --> fleet store, session hub, tracker --> web page

### Components

| component | source | state | operations | module |
|---|---|---|---|---|
| airlock pass | `openclaw-enclave/scripts/quarantine-seal.sh`, `sealer/sealer-loop.sh` | eight directories, the ledger file and its copy in memory | normalize, promote or reject, sweep, reap, publish the manifest, save | `Sealer` |
| return channel | phase 3 of the same script, `scripts/research-request-mover.sh`, `scout-triggers/inbox-pending.js` | requests/, inbox/, the dispatch records of the ledger, the inbox manifest | request, approve, reject, archive, register, resolve, pick, publish, save, trigger | `Dispatch` |
| gateway link | `packages/gateway-client/src/persistent-connector.ts` | per gateway: socket, shared dial, pending calls, timers, backoff window | call, handshake, close event, recycle, reconnect timer, close | `GatewayLink` |
| pairing | `device-identity.ts`, the connector's table of links, `scripts/bootstrap/` | identity file, links, the gateways' paired devices and requests | load or create, connect, probe, approve, check | `Pairing` |
| research tracker | `apps/api/src/services/research-tracker.ts`, `research-service.ts` | a Map of records saved to a file | sweep (adopt, stage, deliver, archive, prune), track, deliverNow, load | `ResearchTracker` |
| session hub | `apps/api/src/services/session-hub.ts`, session routes of `app.ts` | cache entries with a read under way, flags and timers | get, fresh get, post, subscribe, unsubscribe, event, refresh, evict | `SessionHub` |
| conversation | `apps/web` page, composer and streams, `session-titles.ts`, `auth.ts`, `rate-limit.ts` | echoes, details, names and their file, tokens | send, answer, frame, rename, reset, sign in and out, restart | `Conversation` |
| fleet snapshot store | `fleet-snapshot-store.ts`, `fleet-service.ts`, `cron-service.ts`, the web's fleet stream | one snapshot, sweeps in flight, debounce timers, the tab's caches | sweep, per-gateway refresh, event, resolve, stream, poll | `FleetSnapshot`, `FleetView` |
| audit log | `apps/api/src/services/audit-store.ts` | hash-chained rows in a file, an archive | append, retain, restart, verify | `AuditLog` |
| config versions | `config-service.ts`, config routes, `ConfigPage.tsx` | host file, backup, capped index of versions, the page | snapshot, propose, apply, rollback, load, edit | `ConfigVersions` |
| build guard | `openclaw-enclave/plugins/build-guard/index.mjs` | a capped table of fetch counts per run; policies | the before_tool_call hook | `BuildGuard` |
| approvals and requests | `approval-service.ts`, `exchange-service.ts` | none of their own | forward to the mover and the gateway | with those |
| API application | `app.ts` | none of its own | routes | each with the service it calls |
| docker exec connector | `docker-exec-connector.ts` | an admission queue | call, acquire, release | a call's outcome (`FleetSnapshot!TryCall`) |
| normalizer, renderers, domain types, proxies, topology checker, scripts of deployment | `openclaw-enclave/scripts/lib`, `packages/domain`, `proxy`, `tools`, `setup.sh`, CI | none or the host's | text to text, byte forwarding, installation | none, see section 6 |

### What is hard, and what makes it correct

*Airlock.* The pass shares its directories with the agents without a lock, and
its ledger reaches the disk only at the end. Documents can be fetched again
under the same stem while a brief of the old one is in flight. It is correct
when a published brief quotes the document it was distilled from
(`EvidenceBound`) and that text can still be found (`EvidenceKept`), nothing
that reads as instructions reaches main (`Diversion`), no half-written document
is taken for a whole one (`NoTruncation`), no fetched document is lost, offered
for ever or forgotten (`NewestKept`, `ManifestIsWork`, `FreshDropListed`,
`EventuallyAnswered`), and nothing is deleted early (`ReapEarned`).

*Return channel.* A run of scout has one network action, so exactly one request
may be out; the state that says which is spread over the manifest, the ledger
on disk and the pass's memory, and any of the writes may fail. It is correct
when one request is out at a time (`OneInFlight`), where the trigger sees it
(`DispatchedIsVisible`), is not fetched over and over (`DispatchBound`), is
closed or archived only after it was out (`ClosedWasOut`), and is served in the
end (`Served`). Requests may share a topic, and an id may be approved again; the
last two say nothing of an approval that meets the record of an earlier one.

*Gateway link.* Every socket ever dialled keeps its listeners and timers, and
the handlers do not ask whose event they handle. It is correct when calls are
answered (`CallsSettle`, `PendingOnLiveSocket`), the link heals without being
asked unless its timer fires in vain (`NeverStranded`), does not claim more than
it has (`ReadyIsBacked`), and stays closed once closed (`QuietAfterClose`).

*Pairing.* Three processes share an identity file without a lock, which may be
cut short or lack a field, and a gateway's pairing request expires or is
replaced between the script's look at it and its approval. It is correct when a
report of success is true (`ReportIsTrue`) and the API's links come up without a
restart (`LinksFollow`).

*Research tracker.* A sweep awaits the gateway and the mover with a record in
hand, HTTP handlers run meanwhile and replace records, marks are saved only at
the end, which a sweep that throws does not reach, and an answer of the gateway
may be lost. It is correct when notices are not repeated without a reason
(`NoNeedlessResend`), all are sent (`Announced`), answered requests are swept
(`Swept`), and the file is current after a sweep that did not throw
(`SavedBetweenSweeps`).

*Session hub.* Reads are shared and coalesced, events may precede or follow
what they announce, eviction timers are never cancelled. It is correct when
coalescing loses no change (`NothingMissed`, `ToldIsShown`), streams listen to
the entry that is read (`StreamsFollow`), and nobody goes back in time
(`NeverOlder`).

*Conversation.* A message is on the screen as a local echo, then as part of a
transcript; the answer of its POST, the frames and the reads come in any order
and each may fail, and echo and message are matched by their content. It is
correct when a text is on the screen, and no more often than it was sent
(`ShownOnce`), echoes retire (`EchoesRetire`), and a name given by hand is not
replaced by a derived one (`ManualStays`). The first two have exceptions that
are the code's: messages whose content is an array of parts, and messages that
have left the window a detail shows.

*Fleet snapshot.* A sweep whose calls were answered early lands after a refresh
that read later; an event joins a refresh that has its answer; a frame falls
between first write and subscription. It is correct when what is published was
held and a failure blanks nothing (`KeepsPromise`), and all of it is made up for
in the end (`Settles`).

*Audit log and config versions.* A method writes several files one after the
other and may stop in between; lists are capped. They are correct when no event
is lost beyond what a failed write takes (`NothingErased`), rows stay linked (`Linked`), an overwritten
configuration can be brought back (`Recoverable`), and a rollback undoes the
apply before it (`RollbackUndoes`).

*Build guard.* Each rule looks at one call, text travels over many; the table
of counts is capped; calls reach the hook without an identity, or with a path
that is not written as one. It is correct when text stays where the policies
say (`Confined`: by the mounts and configurations as they are kept, or by the
hook alone for a cell whose calls it all judged), a credential reaches nobody,
and a run whose fetches it counts keeps to its budget (`BudgetKept`).

## 2. How the modules are written

An action is what runs without interruption. For the shell scripts that is one
file operation, because agents and humans write the same directories at any
time; for the Node server it is one callback with the promise reactions before
the next one, because JavaScript is not preempted. What an `await` lets in is
an action between two others. Where a method of the server writes several
files without an `await` (`AuditLog`, `ConfigVersions`), it is one action, and
a crash or a full disk makes it any prefix of its writes, the next one torn.

A document, a brief, a message or a topic is a model value or a member of a
small set; a file that is still being written is a flag (`settled`), and
reading it too early gives `Partial`. A transcript, or what a gateway holds, is
the number of changes it contains. A row, a version and an identity are the
number under which they were made. Clocks are days (reaping), flags (a backoff
window, a dispatch timeout) or timers that may fire at any time while set.

Faults are actions that count against `MaxFaults`; where an instance chooses
among kinds (`Faults`), a crash of the process, a write that fails, a ledger
that cannot be read, an I/O error, a refused call, an answer that is lost, a
disk that takes no audit row or no file. Where nothing counts them, a call that
may fail simply may.

Variables and fields marked *history* (`drop`, `raced`, `latest`, `dispatches`,
`reused`, `missed`, `owed`, `unsaved`, `told`, `fetched`, `later`, `unjudged`,
`unplaced`, `mine`, `before`, `since`, `spent`, `undo`, `events`, `spoiled`) are
read by properties only, or by a bound. Operators whose comment begins with
*Slip* are mistakes a later edit might make at that place; nothing uses them,
and putting one in place of the operator next to it makes the property that
guards it fail. `PROJECT.json` pairs each property with such a slip, and each
definition with the lines it stands for.

### Sealer

One pass: `StartPass` (load the ledger) -> `StatRaw`, `NormalizeRaw` or
`SkipRaw`, `UnlinkRaw` per drop -> `StatBrief`, then `JudgeBrief`,
`RejectUnread` or `SkipSource` per brief, then `RejectBrief` or `PublishBrief`,
`UnlinkBrief` -> `Reap` or `ReapFails` -> `Sweep` -> `WriteManifest` ->
`SaveLedger`. The look at a file and its reading are two steps, since its
producer may write in between; an I/O error meets the reading of a drop, of a
brief or of its source, the reap, the promotion and the sweep. `pc`, `work`,
`cur`, `held` and `briefed` are the script's local variables, `entries` and
`lastReap` its ledger in memory, `ledger` the file. The environment is scout
(`ScoutWrites`, rewriting a drop too), the curator (`CuratorReads` what the
manifest lists, `CuratorWrites` a brief of what it read, valid or not, flagged
or not), a human who moves briefs, and the clock. A brief is bound to its source
by the hash the curator copied (`Resolves`).

Not modelled: the two INDEX.txt files, which list what is in a directory, the
loop's heartbeat and sweep of stale temporary files, and a brief that is not
UTF-8: the handler at :720 does not catch what reading it raises, so that every
pass ends there until someone removes it (`Crash` covers one such end).

### Dispatch

`Request`, `Reject`, `Approve`, `ArchiveList`, `ArchiveMove` are the human's
mover; archiving is two steps because it lists first and moves later. The
pass is `Load` -> `Register` -> `Resolve` -> `Pick` -> `Publish` -> `Save`,
each of which can fail where the script handles it. `Fire`, `ReadRequest`,
`Answer` and `RunFails` are the trigger and scout. An answer is seen as a file
with the topic's name in one of five places (`landed`), which can be gone again
(`Vanish`), but not within the dispatch timeout. Nothing checks names: a
request takes any topic, two may share one, an id may be approved again
(`MaxApprovals`) with another topic, and what the pass does not accept it
replaces by the file's name (`SafeTopics`). `reused` remembers the requests that
were approved while the sealer still had a record of an earlier approval. The
mover may stop after an approval's `mv`, so that the request is in both
directories, or within an archiving (`ArchiveStops`), which a failing `mv` also
ends.

Not modelled: the mover's `list`, which prints.

### GatewayLink

Sockets are numbered as they are dialled; each has a `readyState` (`sock`) and
a handshake as the gateway sees it (`shake`), and lives on after the link has
stopped pointing to it (`ws`). `ready` is the shared promise of the dial under
way. `Call` is `call()` up to its `await`, with the recycling of a half-open
socket; `Accepted` and the failure of a dial also run the callers that waited
for it. `CloseEvent` is `handleDisconnect()`, for whichever socket it comes
from. `WindowEnds` lets `Date.now()` pass `nextAttemptAtMs`, and the reconnect
timer may fire before that: timers run on a monotonic clock and the window is
kept on `Date.now()`, which is rounded to a millisecond and can be set back.
`ensureReady()` refuses then and sets no timer, and `DialThrows`, a socket that
cannot be made, sets none either; `missed` remembers that one of the two
happened since the last dial.

Not modelled: the feed of gateway events and the status report. The table of
links around this one is in `Pairing`.

### Pairing

`loadOrCreateIdentity()` is `Load` and `Create`, two steps, because another
process may write the file between them, or `CreateStops`, which cuts the file
short (`Torn`). A file that parses but lacks a field (`LosesField`) is made
anew. The script needs a whole one. `Connect` is what a
link of the API makes of a handshake, `Probe` what `ws-connect-signed.mjs`
leaves at a gateway, and `First` -> `Approve` -> `Check` is
`pair-control-plane.mjs` for one gateway after the other. A gateway keeps what
is paired and what asked (`pending`); a request `Expires`, and one with the
same identity may replace the one the script holds (`MayReplace`).

Not modelled: signatures, scopes and the wire format.

### ResearchTracker

One sweep: `StartTick` (adopt) -> `Visit` per record -> `SkipDelivery`, `Hold`,
`NoTarget` or `StartSend`, `SendOk`/`SendFails` -> `SkipArchive`, `MarkArchived`
or `StartArchive`, `MoverArchives`/`MoverFails` -> `EndTick` (prune, save). An
audit row that cannot be written throws in `VisitThrows`, `HoldThrows`,
`SendUnaudited` and `ArchiveThrows`, and `tick()` catches it: the rest of the
sweep, the pruning and the saving do not take place. A save that fails is only
logged (`Persist`). `unsaved` remembers what the file has missed since. Handlers
(`Track`, `PressDeliver`, `ManualEnds`) run only where the sweep awaits
something. The Map holds objects; when `track()` replaces one the sweep still
has in hand, the old object moves to `detached`, so an assignment to it is seen
not to reach the Map; `object` says the same of the one `deliverNow()` holds.
The exchange changes at any time: `Approve` by the web page or in a terminal,
`FetchRecorded`, `Settles`, `SavesWitness`, `HumanArchives`.

`owed[t]` counts the reasons for an automatic notice: an approval, an attempt
that failed, a crash before the mark or the end of the record was saved, a
record replaced by `track()`. Every send pays one. `NoNeedlessResend` says the
account is never overdrawn.

Not modelled: a human moving a brief out of the directory, a store that cannot
be read, `deliverToSession` off, and ids that differ from topics.

### SessionHub

An entry of the hub's Map is an object with a read under way (`inFlight`), a
flag (`dirty`) and a refresh timer. `Answers` is the moment the gateway reads
the transcript, `Lands` the moment the promise resolves: what changes in
between is what coalescing could lose. Dropped entries live until their read
has landed. Streams (`Open`, `WriteFrame`, `Close`) are the loop of
`app.ts`, writers post and then may ask for `fresh=1`. Events arrive late
(`Event`), are lost (`LostEvent`) or do not name their session (`keyed`).

Not modelled: `stop()` at the end of the process, requests with different
message limits, and a mapper that throws.

### Conversation

Continues where the hub ends, with the hub reduced to the transcript it read
last (`cached`) and whether it is to read again (`due`). `Send` appends the echo
and starts the POST; `Deliver`, `DeliverFails` or `Refused` is the route,
`Answer` the page's promise. `Frame` takes a new detail over and runs the page's
effects (`Retire`, `Unshadow`) to their fixed point. A detail shows the last
`Window` messages. `Retire` compares contents as :75-90 of the page does: a
user's message that is a string is its text, one that comes as an array of parts
is a JSON string no echo equals. Which of them do (`parts`, among the texts of
`Parted`) is up to the gateway. Names come from the first message, from a detail
(`Backfill`), by hand (`Commit`, `Rename`, `RenameAnswer`) and go by `Reset`;
the store loads its file at `Restart`, and its `persist()` may fail silently
(`Store`). Sign-in bears on it by `Refused`, and by the rate limit on `Login`.

Not modelled: roles, cookies, the other agents' messages, and how a line
becomes a title, of which only whether there is one matters.

### FleetSnapshot and FleetView

`SweepCall` per gateway, then `SweepLands` merges and publishes, or fails and
publishes what there was; `TimerFires` starts or joins a sweep. `Event` sets a
gateway's debounce timer, `TouchFires`, `ReadCall`, `ReadLands` are
`refreshGateway()`. `Resolve`, `Resolved` are the approvals route, `CronRoute`
the two calls that change a job. The tab opens a stream in two steps (`Open`
writes the first frame, `Subscribe` follows), keeps only the newest snapshot to
write (`Emit`), compares frames with the last one and overrules a GET under way
(`Frame`), polls, and asks again for the dashboard.

`FleetView` is what the store promises: for each gateway the picture is
something that gateway did hold, and a known one is never blanked. It does not
say *newest*: a sweep may put back older details, which the next one repairs.
`FleetSnapshot` implements it with `view <- snapshot`, and its `Converges` is
part of `Settles`.

### AuditLog and ConfigVersions

A row is the number of its event and the number its `prevHash` stands for.
`Appended`, `Retain`, `Restarted` are the store; `Cut` is a file written anew
that stops short. A rotation appends to the archive and then writes the file
anew, and either may stop anywhere (`RetainFails`). The archive is the events it
has whole (`rows`), whether it ends in half a line (`half`, which a row without
its newline counts as), and the events whose line is glued to such a half
(`glued`, `ArchivedInPart`). `spoiled` remembers what a failed write took, so
that the properties can say *nothing else*. `ConfigVersions` EXTENDS it, because
both services write one log: `applyVersion()` is snapshot, backup, host file,
applied version and audit row, of which `ApplyStops` makes a prefix. The page
(`live`, `draft`) sends the hash it has loaded; the operator's editor
(`HandEdit`) changes the file beside it.

### BuildGuard

A call is a tool, the identity the hook found, if any, and paths of the kinds
the rules tell apart, resolved; a read may give them as strings that begin with
neither `/` nor `.` (`bare`), which the hook holds against the secrets only
(:763). A tool is taken to open the path the hook resolved. Text is what it is
made of; an agent's context keeps all it has read and may be in whatever it
writes. `Mover` carries text from cell to cell, outside the hook, and changes
its kind (a sealed page is `"normalized"`).

Two layers stand behind the hook: what a container mounts (`mounts`) and which
cells have the web tools (`web`). Each is as the repository keeps it, or open:
scout and curator see every store, every cell can fetch. In the second case the
hook is alone, and `unjudged` remembers the cells one of whose calls passed it
as none of its rules looks at: a bare read outside the policy, a fetch by
another cell than scout. `MaxUnjudged` bounds how many cells do that.

`fetchCounts` is a sequence in insertion order that evicts its oldest
(`MakeRoom`). `CountedFetch` is a fetch for which the hook finds scout's name
and `:cron:`; `UncountedFetch` one of a scheduled run for which it finds no
identity or a key without `:cron:`, which is charged to nobody (`unplaced`);
`OtherFetch` is every other one.

Not modelled: how parameters become paths and commands become scripts, tools
without a rule, and the catch that refuses a call when the hook throws.

## 3. What the runs show

Twelve runs. State counts are of distinct states; none is cut short by a
constraint, every bound is in the guards. `MCBuildGuard` starts scheduled runs
only where mounts and configurations are as they are kept, since the budget
looks at neither.

| run | instance | states | checks |
|---|---|---|---|
| `sealer_safety` | one stem fetched twice, two contents, one of them imperative, two attempts, two days, no fault | 991,650 | seven invariants and `ReapEarned` |
| `sealer_liveness` | one stem fetched once, one fault of any kind | 297,617 | `EventuallyAnswered` |
| `dispatch` | two requests, two approvals in all, one topic both may share, one fault of any kind | 523,088 | four invariants and `Served` |
| `link` | two calls, four dials, every kind of answer to a handshake | 131,125 | three invariants, `QuietAfterClose`, `CallsSettle` |
| `tracker` | one topic approved once, two faults of any kind | 521,114 | two invariants, `Announced`, `Swept` |
| `hub` | two entries alive, two tabs with three visits, one writer, one change, one fault | 246,024 | two invariants, `NeverOlder`, `ToldIsShown` |
| `fleet` | two gateways, one tab, one change, one fault | 703,916 | the refinement of `FleetView`, `Settles` |
| `records` | three versions kept of six, one edit, four audit events, one fault | 498,067 | three invariants and `RollbackUndoes` |
| `guard` | three cells, layers as kept or the hook alone, one cell with unjudged calls, three scheduled runs, a table of two | 183,010 | `Confined`, `BudgetKept` |
| `conversation` | one tab, three messages, one of which may come as parts, a window of two, one rename, one fault | 1,061,590 | `ShownOnce`, `EchoesRetire`, `ManualStays` |
| `pairing` | two gateways, two identities, the API, the probe and the script | 592,131 | `ReportIsTrue`, `LinksFollow` |
| `audit_rotation` | one row kept, no fault | stops at the violation | `IntactVerifies`, section 4 |

Why the bounds are enough:

- *Sealer.* Stems never meet: every step of the pass and of the agents is about
  one stem, and the only shared state is the clock of the reap. Two fetches
  give the re-fetch that all the hard cases need; two attempts and two days
  reach condemnation and a reap that must wait. The safety run has no faults,
  because no kind of them leaves all its properties standing; what each
  survives is proved (section 5, the table), and what it does not is a
  counterexample TLC finds on this instance with `Faults` set to one kind. The
  liveness run has one fetch, so what it shows is of a stem's first drop; that a
  second one is answered too is not checked.
- *Dispatch.* Two requests are enough to have one in flight, one queued and an
  answer that belongs to the other one. Two approvals are one of each, or two of
  the same id: while it is queued, out, closed or being archived. Topic names
  the pass refuses do not occur in the run; the theorems cover any.
- *GatewayLink.* Three sockets can overlap (one closing, one timing out, one
  current), the fourth shows the link after that.
- *ResearchTracker.* Topics share only the sweep itself; the theorems cover any
  number of them and of approvals. One approval gives a replaced record too: a
  sweep adopts the request before `track()` comes. Two faults are a failure
  during the recovery from another, and two of the disk a sweep that throws
  after one that could not save.
- *SessionHub.* Two objects are the current entry and the one dropped before
  it. Three visits let an eviction timer of the first fire during the third.
  One change is one more than none: each property compares a transcript with
  and without it.
- *FleetSnapshot.* Two gateways are one that is swept while the other is
  refreshed. One change is enough for an older sweep to land after a newer
  refresh, and one fault for every single loss; the theorem has no bounds.
- *ConfigVersions.* Three versions kept of six let the cap push out what an
  apply or a rollback refers to. One fault, at any point before, in or after
  the overwrite; `Recoverable` promises nothing once two calls were cut short
  since the last one, which can take both copies (an apply stopped in its
  backup, then an index). One fault is a torn append to the archive, after which
  rotations go on. The theorems have no bounds.
- *BuildGuard.* Every path the rules tell apart and every kind of call occurs,
  with each of the two layers closed and open. One cell with unjudged calls
  shows that what it learns does not reach the others. A table of two with three
  runs fills and evicts; two fetches of a run exceed the budget by one. Runs are
  interchangeable (symmetry). The theorems have no bounds.
- *Conversation.* Three messages in a window of two push one out. One of them in
  parts meets an echo and a string of the same text. One rename
  meets one derived name; one fault is a lost answer, a failed read, a broken
  stream, a sign-out or a restart. A second tab adds another client
  (`OtherSends` is one).
- *Pairing.* Two gateways show a script that succeeds with one and fails with
  the other, two identities the API and the probe that each made one.
  `LinksFollow` speaks of an API that has the identity the script paired: two
  that made one each (section 4) stay apart until a restart.

Deadlock is not checked: bounds on fetches, approvals, dials and visits let
every instance stop, and a system nobody uses does stop.

### Fairness, and why the code justifies it

- *Sealer, Dispatch.* `sealer-loop.sh` runs a pass, sleeps and runs the next,
  and its container is restarted: weak fairness of the pass. Files grow older
  and timeouts pass. The curator's cron job reads what the manifest lists. The
  pass meets a settled file again and again (strong fairness of looking at it):
  its period is shorter than the producers'. Nothing is assumed of the human, of
  scout or of the trigger; an unanswered request is closed by the timeout.
- *GatewayLink.* The two timers every call and dial carries fire. Nothing is
  assumed of the gateway, the network or the callers.
- *Pairing.* The fleet sweep calls every gateway and a link's own timer tries
  again, with a token that can be read: weak fairness of `Connect`. Scripts are
  run or not.
- *ResearchTracker.* The interval timer starts sweeps, an await ends because
  the connector has timeouts and the mover is a child process, the supervisor
  restarts the server, and a session to announce in exists again and again.
- *SessionHub.* Timers fire, the connector answers or times out, the stream's
  loop goes on. Events need not arrive.
- *FleetSnapshot.* Timers fire, the connector answers or times out every call,
  a stream's loop goes on and a broken one is opened again, a visible page polls
  (SWR's `refreshInterval`). Nothing is assumed of gateways, events or users.
- *Conversation.* Every call is answered or fails, a stream is opened again and
  its loop goes on, the hub reads what it set out to. Nothing is assumed of
  events, of the user or of the sign-in.
- *ConfigVersions, BuildGuard.* None; they have safety properties only.

## 4. Where the code and its comments disagree

One run checks a sentence of the repository and finds a behaviour that
contradicts it; the quotes are in `PROJECT.json`.

- `audit_rotation`. A rotation keeps the newest rows as they are, so the first
  one names a row that is now in the archive, and `verifyChain()` starts from
  null. A log that only the store has written reports a broken chain.

Found while modelling, and described by the modules; no run of its own:

- *Airlock.* `quarantine-seal.sh:984`: a stem is fetched again while an old
  brief of it is in briefs/ and a new one waits in briefs-pending/; phase 4
  takes the old brief for the new document's and archives it, and the new brief
  is rejected for want of its source (comment :979). :1268: if the ledger cannot
  be written in the pass that normalized a re-fetched stem, the next pass reads
  `promoted` for it and the document is swept away unoffered; the comment
  (:1269) expects to lose attempt counts only. :720: reading a brief that is not
  UTF-8 raises what the handler does not catch, and the pass ends there, each
  time.
- *Return channel.* :1219 tells the operator to approve an abandoned request
  again, :956 and `research-request-mover.sh:252` expect it. The record of the
  first approval stays closed, and the second is never dispatched: the exception
  `reused` in `Served`.
- *Link.* :436-440 sets the reconnect timer so that a link does not heal on
  demand only. :450 sets it to the delay by which :449 sets `nextAttemptAtMs`; a
  timer that fires before `Date.now()` has advanced by it is refused (:211), and
  so is a dial whose socket cannot be made (:229-236): no timer is left, and the
  next caller heals the link (`missed`). `persistent-connector.ts:419`: the late
  close event of a timed-out socket clears `ws` and the shared promise of the
  dial after it; a third dial becomes current, the second handshake succeeds and
  releases its callers, and they write to the third socket before its own
  handshake.
- *Tracker.* `research-tracker.ts:255`: a brief is on disk before the ledger
  that says its source reads as commands; a sweep in between announces it.
  :182-185: a sweep that throws skips the pruning and the save after marks were
  made; a crash before the next save loses them, and a notice may be sent again.
- *Hub.* `session-hub.ts:139`: a `fresh=1` read joins a read the gateway served
  before the message was posted (comment `app.ts:408`).
- *Conversation.* `SessionHistoryPage.tsx:85`: one transcript message retires
  every echo of its text, and an echo whose text an older message has goes at
  once; the comments (:30, :87) say each is held until the transcript has it. A
  message whose content is an array of parts (:77) matches no echo, and is on
  the screen twice. `Composer.tsx:15`
  clears the text before the send succeeds. A rename that meets another tab's
  leaves the shadowing name on the page (:55).
- *Fleet.* `fleet-snapshot-store.ts:143`: an event that joins a refresh which
  has its answer is lost until the next sweep; `app.ts:616` forces a sweep and
  may join one that began before the decision. Both are repaired later
  (`Settles`). Lists of sessions and agents are not renewed by frames at all.
- *Approvals.* `approval-service.ts:39`: an audit row that cannot be written
  after the gateway acted is caught and recorded as a failure to resolve.
- *Audit log.* `audit-store.ts:138`: an append to the archive that was cut short
  leaves half a line, to which the next rotation glues its first row before it
  takes the row from the file: an event is unreadable that no failed write took
  (`glued`). Each such append costs one (`NothingErased`).
- *Build guard.* `index.mjs:763` confines only reads whose path begins with `/`
  or `.`. :635-637 says that a run that is not clearly attended has a budget;
  :638 takes a key without `:cron:` for an attended one, :787 gives a run
  without identity none. :674-677 says that an agent without identity is
  refused, which :781 does not do for a fetch. Mounts and configurations stand
  behind all of them.
- *Configuration.* The page loads a masked preview into its editor; proposed and
  applied as it is, it overwrites the secrets with the mask.
- *Pairing.* `device-identity.ts:90`: two processes that find no identity each
  write one, and one goes on with a pair that is no longer on disk; a file cut
  short fails every start. The script reports all gateways paired when it was
  asked for one (`--gateway`).

## 5. What is proved

Eight modules of proofs, all leaves checked by TLAPS, none of the theorems
bounded: they hold for any sets of stems, documents, requests, calls, sockets,
topics, tabs, entries, gateways and runs, any bounds, and, unless the theorem
says so, any combination of the modelled faults. Each rests on the assumptions
its component states about its constants (`SealerAssumption`,
`FileAssumption`, `DispatchAssumption`, `LedgerAssumption`,
`GatewayLinkAssumption`, `TrackerAssumption`, `NoneAssumption`,
`HubAssumption`, `ConversationAssumption`, `FleetAssumption`,
`PairingAssumption`, `GuardAssumption`, `AuditAssumption`, `ConfigAssumption`):
that bounds are numbers and that `None` is not a value. Each theorem follows
from an inductive invariant. Type correctness is proved of every module but
`FleetView`, and every safety property that a run checks is stated by a
theorem. Two small components share the proof module of the one they work with:
`Pairing` is in `GatewayLinkProofs`, `Conversation` in `SessionHubProofs`; the
names their modules declare begin with the component's where they would clash.

**SealerProofs.** *Type correctness, `EvidenceBound`, `Diversion`.* The pass
decides on a brief and publishes it later, and agents write in between; so the
two properties are not inductive. `Resolved` says what the decision is still
worth at the moment of writing: claims and excerpt agree. `Carried` types what
the pass holds, from the look at a file on. *`NoTruncation`*, from
`SettleGuard`: `Aged`, what the pass is about to read has settled or was
rewritten since.

The other properties depend on which faults happen. Each is proved from the
largest set of kinds under which it holds: every kind that is missing in its
line breaks it alone, on an instance no larger than the safety run's.

| property | holds if `Faults` is within | because |
|---|---|---|
| `ReapEarned`, and `NewestKept` with `SettleGuard` | `corrupt`, `io` | a lost record forgets attempts, it does not invent them (`Counted`), and what is condemned is so in the file before the next day (`Dated`); `Current` follows scout's last document through phase 1 |
| `EvidenceKept` | `corrupt`, `unsaved` | a published brief's source is in the archive or this pass is on its way to it (`Kept`, `Going`), whatever the ledger says |
| `FreshDropListed` | `io` | a record agrees with what happened to the drop (`Booked`), so that a new one is in normalized/ (`Fresh`) and on the list (`Swept`, `Listed`) |
| `ManifestIsWork` | none | what was briefed is so on the record (`Answered`) when the list is made of it (`Spared`) |

Under all of them, a document in normalized/ is the newest drop's and the brief
at hand is of it (`Sourced`). What one step may do to a stem's record is a
lemma of its own, `RecordStep`: forget it, renew it for a new drop, judge,
refuse, issue or remove, and nothing while a drop is being taken in. `Renewing`
and `Promoting` are the two moments between a file operation and its record.

**DispatchProofs.** *Type correctness, `OneInFlight`, `DispatchedIsVisible`.*
The pass works on a copy of a ledger another pass wrote. `LedgerOut`,
`LoadedOut` and `ResolvedOut` follow the one request that is out through the
ledger, the copy, and the pick: it is the one the manifest names, or its time is
over or its answer there, so that the next pass will close it. That last
alternative is what a failed save or a crash leaves behind. That `pick` is
unique rests on the well-foundedness of `<` on the naturals. *`DispatchBound`*:
`Rationed`, a request that can still be dispatched (`Open`) has been dispatched
at most as often as there were faults, and only a fault makes one open again.
*`ClosedWasOut`*, by `WasOutInv`: what the pass has beyond the queue (`MemOut`),
what the ledger file has (`BookOut`) and what an archiving has listed
(`SweepOut`) was in the manifest since its approval, is about to be, or is an
earlier approval's (`reused`). The mark is made in memory two steps before the
manifest is written, so the three hold together or not at all.

**GatewayLinkProofs.** *Type correctness, `PendingOnLiveSocket`,
`ReadyIsBacked`, `NeverStranded`, `QuietAfterClose`.* The invariant relates
every pending call to a socket whose close event is still to come, and the
shared promise to a dial that is still alive (`Comes`: a dial under way, or the
timer). `ReadyIsBacked` is as weak as section 4 makes it: some socket was
accepted, and it need not be the current one. `NeverStranded` assumes nothing of
timers: a link without a socket has its reconnect timer, or that timer has fired
in vain since the last dial, within the window or on a socket that could not be
made (`missed`); and then no promise of the old dial is left, so that the next
call outside the window dials.

*Pairing: type correctness, `ReportIsTrue`.* As long as the script has not
failed, a gateway it claims is paired with its identity or still to come
(`ClaimsMet`); the identity it has is one that was made, and it has something
to do exactly while it is under way (`ScriptUnderWay`).

**ResearchTrackerProofs.** *Type correctness, `NoNeedlessResend`,
`SavedBetweenSweeps`.* The account `owed` is bounded below by what can still be
sent: by the Map's record (`MapNeeds`), by a replaced object the sweep has still
to visit (`OldNeeds`), or, when the process is down, by the file (`FileNeeds`).
The move from one to the other at a crash needs `SavedOrDirty` and
`StoreKnown`, what the file may lag behind by: what this sweep has changed, or,
since a sweep threw or a write failed, `unsaved`. `ObjectHeld` types the object
`deliverNow()` marks, which may be none of the Map's.

**SessionHubProofs.** *Type correctness, `NothingMissed`, `StreamsFollow`,
`NeverOlder`.* `ReadsLater` is the heart: a read of the cached entry was asked
for after everything that has been shown or is known, and misses nothing but
what `dirtyDuringFetch` remembers. `Unread` and `Frames` tie the entry, the
frames under way and the tabs together, so that a read of a dropped entry
reaches nobody.

*Conversation: type correctness, `ShownOnce`, `ManualStays`.* `ScreenInv`
counts: there are no more echoes of a text than messages of it, the one under
way included (`Covered`), and none of a text that is among the page's messages
as a string (`Retired`), so that the two together are too many only by the
messages that came as parts. That they are not too few is `Kept`: a text sent on
this visit has an echo, or lies within what page and hub had read when they last
read (`InReach`), neither of which is ahead of the gateway (`InOrder`). `Reset`
and a restart are the only steps that take a manual name away.

**FleetSnapshotProofs.** *`KeepsPromise`*, the refinement: the initial snapshot
is `FleetView`'s, and every step publishes, changes a gateway, or stutters.
`Held` says why a step publishes what was held: no answer on its way and nothing
published is ahead of its gateway. `Whole`, that a sweep asks every gateway.
*Type correctness*, and beyond the runs *`TabsShowWhatWas`*: the same of what
waits in a stream's queue, in a poll under way, and in a tab's three caches
(`TabsOK`), since a gateway's count of changes only grows.

**BuildGuardProofs.** *`Confined`*: each store holds only the text of `MayHold`,
by who may write there and by the movers; each cell knows what it is `Given`,
or, if it is neither sheltered nor judged, what such a cell can come to know
(`Known`, `Open`), which is still written only where its policy lets it. A read
the rules judge or an edit that passes lies in the folders of the policy
(`ReadFact`, `EditFact`), no folder of which contains another (`LeafFact`), and
no command passes. No store holds a credential (`HoldsFact`), and every read of
one is refused, bare or not. *`BudgetKept`*, of runs all of whose fetches are
counted (`BudgetUncounted` for the other steps): a run in the table has its
fetches counted and the runs behind it are later ones (`Tracked`); one a full
table pushed out has as many of them as the table holds (`Crowded`, by a count
of distinct entries).

**ConfigVersionsProofs.** *Type correctness, `NothingErased`, `Linked`.* `Sound`
of the store and its file, a conjunction of `Whole` (every event is in the file,
lost by a failed write, or `Stored` in the archive, legible or glued), `GluedOK`
(each glued row, and the half line that is there, has a failed write of its
own), `Chained` (rows name their predecessor) and `Follows` (the hash in memory
is the last row's, or of one a failed write took). Every action but a rotation
writes the log by appends, half rows and restarts (`Writes`), each of which
keeps it; a rotation keeps it by what it archives, of which the first row is
glued if the archive ends in half a line. *`UnrotatedVerifies`* is the other
side of the violation in section 4: a log with an empty archive verifies
(`FromStart`), so that only a rotation makes `list()` report a broken chain
without a failed write.

*`RollbackUndoes`*: the index is sorted and names no version twice (`IndexOK`),
and while `undo` is set its newest version that counts is the applied one, right
before the snapshot of what it overwrote (`UndoOK`). `TwoEvents` tells a
rollback from every other step by what it adds to the log. *`Recoverable`*
allows one call cut short in or since the last overwrite (`spent` counts those
before it), and any number earlier: a completed overwrite leaves two copies,
the backup and the snapshot before it, and a fault takes one (`RecoverOK`);
saves push a version out only after `MaxVersions` of them (`PushKeeps`).

Only model-checked: the liveness properties (`EventuallyAnswered`, `Served`,
`CallsSettle`, `LinksFollow`, `Announced`, `Swept`, `ToldIsShown`, `Settles`,
`EchoesRetire`), which rest on fairness and with it on ENABLED.

## 6. Not modelled, and what is left

Left, in the order of what it would add:

1. A composition of airlock, queue and tracker over the shared directories and
   the ledger. It would replace the approval, `FetchRecorded`, `Settles` and
   `SavesWitness` of `ResearchTracker` by the passes that cause them, and ask
   what a request's human sees end to end.
2. The admission queue of `docker-exec-connector.ts`: acquire, release,
   cancellation, a release that hands over.
3. Extensions: the event feed of `GatewayLink`, `stop()` of `SessionHub`, two
   stems in `Sealer`, liveness of a document that is fetched again.
4. What one topic name shared by two requests costs: an answer to one closes the
   other (`OutputLanded`), which only a composition with the producer can weigh.

Not planned, with the reason: text processing (normalizer, renderers, mappers,
brief parsing, the parsing of commands in the build guard) belongs to unit
tests, and what the protocols need of it is a parameter or a choice in a model;
domain types are declarations; proxies forward bytes under an allow list;
images, installers, hooks and continuous integration are I/O; the topology
checker is a batch analysis without state; routes and pages that only show what
they fetch keep nothing that interleaves.

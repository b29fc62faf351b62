# TrueBearing: specifications, model checking and proofs

TrueBearing is a proxy between AI agents and MCP tool servers. For every
`tools/call` it authenticates the agent, loads the session, evaluates a policy,
records the decision and then forwards, refuses or escalates the call. This
directory specifies that path in TLA+, checks it with TLC on small instances and
proves most of it with TLAPS for every instance. Source paths are relative to
the repository root; `PROJECT.json` maps each definition to its lines.

## 1. The system

| Component | State | Operations | Hard part |
|---|---|---|---|
| Evaluation pipeline (`internal/engine`) | none; reads a session snapshot and the store | nine stages, combination of verdicts, taint mutation | stages read state that is stale, or that moves before the decision is recorded |
| Request handler (`internal/proxy/proxy.go`) | locals of one goroutine per request | `handleMCP`: load or create the session, evaluate, append event, audit, persist taint, count, forward / deny / escalate | six store writes with other handlers, operators, failures and crashes between them |
| Store (`internal/store`) | sessions, session_events, audit_log, escalations, agents | one statement or transaction each; one open connection | atomic singly, not together |
| Escalations (`internal/escalation`, `proxy/admin.go`, `cmd/escalation`) | escalations table | create, approve, reject, look up an approval | CLI and admin server race; agents retry |
| Termination (`cmd/session/terminate.go`) | `sessions.terminated` | terminate | requests in flight |
| Policy hot reload (`cmd/serve.go`, `policy_cache.go`, `ReloadPolicy`) | live policy, LRU of versions, signal channel, the policy a session is bound to | SIGHUP, parse, lint, cache, publish, resolve | eviction, lost signals, restart |
| Agent identity (`cmd/agent`, `internal/identity`, `store/agents.go`) | key files, JWT file, agents table | register, revoke | five writes with no lock; crashes; overlap |
| Authentication and delegation (`proxy/auth.go`, `engine/delegation.go`) | none | one row read per request, then the parent's row | revocation and narrowing while tokens are in use |
| Audit signing and verification (`internal/audit`, `cmd/audit`) | audit_log, proxy key pair | sign, write, verify, query, export, report | write failures; conversions between signing and verification; key replacement under a running proxy |
| Simulate and replay (`cmd/simulate.go`, `cmd/audit/replay.go`, `proxy/trace.go`) | trace file; an in-memory database and Session struct of their own | capture, export, group by session, evaluate again, merge | a second implementation of the session bookkeeping, fed with lossy input |
| Linter (`internal/policy/lint.go`) | locals of the cycle search | twenty rules; ERRORs refuse a reload | map order; rules that must agree with the engine |
| Init wizard (`cmd/init.go`) | the answers | five questions, a generated policy, lint | answers checked singly, used together; guards in a shadow-mode file |
| Diff, inspect, report (`cmd/policy/diff.go`, `cmd/session/inspect.go`, `cmd/audit/report.go`) | none | compare two files; explain a session from its tables | what they say must agree with what the engine does |
| Parser, explain, lists, WASM, SDKs, telemetry, health | none or read-only | | see `PROJECT.json`, `components` |

The handler calls the engine, and both call the store. `AuthMiddleware` runs
before the handler and only reads. The CLI and the admin server change the same
database concurrently, with no lock shared with the handler. The SIGHUP
goroutine shares the live policy and the cache with handlers, each under its own
mutex.

What makes each part correct:

* pipeline: fails closed, is total, applies its stages in order;
* handler: nothing reaches the upstream unrecorded; limits are exceeded by no
  more than concurrency explains; taint is durable before it matters;
* escalations: no allow without a prior approval; a resolution is final;
* termination: nothing is admitted afterwards, and what was admitted drains;
* reload: LRU order, no drift before eviction, a signalled edit becomes live;
* identity: one working token per name, dead tokens stay dead, the files match
  the table after a complete registration;
* linter: cycles are reported exactly, an accepted file wedges no session, an
  ERROR blames only tools that really cannot be called;
* simulate and replay: they report what a proxy under the other policy would
  have decided;
* audit trail: OK means as written, as written means OK, and the default key is
  the right one after a complete registration;
* init: answers are refused only when circular, and the guards asked for hold;
* diff, inspect and report: no change reported means no decision of simulate
  changed (with the exceptions of section 3), each taint denial is explained, each
  line shows the fate of its own call.

The hazards, each with its source line and the properties aimed at it, are in
`PROJECT.json`.

## 2. Modules

**Engine** — the pipeline as operators. `EnvEvaluator` to `EscalationEvaluator`
are the stages, `Chain` the early return, `Decide` the fail-closed rule and
shadow mode, `applyTaintMutations` the taint update. A predicate on arguments
(`never_when`, `escalate_when`) is a table from arguments to fires / quiet /
error, so that the operators, the JSON paths and the missing-argument rules are
data; order and short-circuiting of predicates are kept. Mode `""` is an omitted
mode: `effectiveMode` returns it as it is.

**Proxy** (EXTENDS Engine) — `handleMCP` over the store. `row`, `events`,
`audit` and `escalations` are the tables; `loc[h]` is what handler `h` holds in
memory, its snapshot `sess` and the pipeline's taint flag included; `forwarded`
and `uncounted` are history variables. One action per store call, in the
handler's order:

    Receive -> GetSession -> (CreateSession) -> EvaluateSequence
      -> EvaluateRateLimit -> EvaluateEscalation -> AppendEvent -> WriteAudit
      -> (UpdateSessionTaint) -> Refuse
                               | IncrementSessionCounters -> Forward
                               | CreateEscalation

A pipeline evaluation is split only where a stage reads the store: the stages
between two reads touch nothing shared, so splitting there gives every
interleaving. The error path of each store call is a disjunct guarded by
`MayFail(op)`. `AppendEvent` picks its timestamp between the decision and now,
because the code takes it before it waits for the single connection.
`TerminateSession`, `resolveEscalation`, `Crash` (handlers vanish, tables stay)
and `Tick` interleave freely.

**Ledger** — what the proxy promises an auditor, with no handlers: logs that
only grow, certificates that repeat log entries and are issued at most once,
calls sent at most once and only for entries that permit it (in strict mode only
when certified), closed sessions that stay closed. `Proxy!KeepsLedger` states
that the proxy implements it (`events`, `audit`, `forwarded` and the
`terminated` column are `log`, `certificates`, `sent` and `closed`).

**Reports** (EXTENDS Proxy) — how `audit report` and `session inspect` join the
events or audit records of a session with its escalations, by seq.

**ProxyClaims** (EXTENDS Reports) — a sentence of the documentation that the
code does not satisfy.

**PolicyReload** — the SIGHUP goroutine, `policyLRU`, session binding and
`policyForFingerprint` with its fallback. A policy is its fingerprint; `Clean`
policies pass the ERROR lint rules, `Broken` is a file that does not parse.
Start-up parses and does not lint, as `serve` does; `started` remembers what
processes were started with. Each mutex section is one step. Termination is left out here: a terminated session's request resolves a
policy and is then refused.

**Agents** — registration as the separate process it is: parent check, private
key file, public key file, JWT file, public key read back from its file, upsert;
death or failure anywhere (`AbortRegister`). `Accepted` is `AuthMiddleware`'s
test: row present, not revoked, signature under the row's key, not expired.
Requests carry any token ever issued.

**Lint** (EXTENDS Engine) — the ERROR rules as predicates on a file, and L013's
three-colour search one step per loop iteration: `color`, `path` and `pending`
are its locals, and the order in which nodes and neighbours are taken is free
(the code walks a map and lists; the model keeps sets). Once the search has
ended, `Call` runs a session under the file, linted clean or not, because
start-up does not lint. The stages the rules are not about answer as they like.
`VirtualTool` is `check_escalation_status`, which the proxy answers before the
pipeline: it may be in `may_use` and is never recorded.

**Wizard** (EXTENDS Lint) — `truebearing init`: the checks of the five answers,
the policy they become (`generatePolicyYAML`), and its lint. The generated files
are among the files `Lint` runs sessions under. Amounts are in tenths of a cent,
so that the rounding of `%.2f` is kept.

**AuditTrail** (EXTENDS Agents) — a record from `Sign` over its NULL columns,
its export and `json.Unmarshal` to `Verify`, or from the table to the
attestation of `audit report`. Texts keep the difference between UTF-8, other
bytes and U+FFFD, which is what JSON does not preserve. The proxy's key pair is
made by `agent register proxy`, so the registrations of `Agents`, with their
overlaps and deaths, run while the proxy starts, stops and signs with the key it
loaded.

**PolicyTools** (EXTENDS Offline) — `policy diff` on files as written (lists
with order and repetition, thresholds with their YAML type), and the scan of
`session inspect` for the call that tainted a session, one event per step
(`detectTaintCausingEvents`; `scan` holds the locals of its loop). `Offline`'s
live sessions and its `simulate` are what they are compared with.

**Offline** (EXTENDS Engine) — a proxy that captures (`Capture`: trace entry,
decision, event, counters, taint, audit record, one call at a time per session,
with lost trace entries, lost audit records and traced calls that were never
evaluated), the export, and the two commands: each reads its file entry by entry
into one group per session (`ReadEntry`), keeps the file's order or sorts by seq
(`EndOfFile`), and evaluates one entry per step with a Session struct and a
database of its own (`Evaluate`; `OldPass` starts the second pass of
`simulate --old-policy`). Sorting is any arrangement in order, since `sort.Slice`
is not stable. `live.new` runs the same calls under the other policy: it is the
reference the report is compared with.

**MCProxy, MCAgents, MCAudit, MCLint, MCOffline, MCPolicyTools** — policies, files and small sets for
TLC.

**ProxyProofs, ProxyLedgerProofs, ProxyHistoryProofs** (a chain, about Proxy,
Reports and Ledger), **ReloadProofs**, **AgentsProofs**, **AuditProofs** (EXTENDS
AuditTrail and AgentsProofs), **LintProofs** (about Lint and Wizard),
**OfflineProofs** (about Offline and PolicyTools) — the theorems.

Definitions marked *Mutant* are plausible wrong versions of the definition that
follows them. Each property of a passing run is violated when the mutant listed
in `PROJECT.json` takes the place of its original.

## 3. Runs

| Run | Instance | What it shows |
|---|---|---|
| limits | 2 handlers, 1 tool, ceilings of 2 calls / 3 cost units, one call per unit window, counter updates may fail | `BudgetOvershootBounded`, `RateOvershootBounded`: a limit is exceeded by at most one call per *other* handler, plus one per lost counter update. The excess is reached: these are not hard limits |
| history | 2 handlers, 3 tools (taint source, cleaner, guarded tool), failing taint updates, crashes | `PrerequisitesPrecede`: `only_after` and `requires_prior_n` are exact under interleaving, since the log only grows. `NeverAfterOvershootBounded`: `never_after` is not exact, and only calls already past the check escape. `ForwardedTaintPersists`: taint is on disk before the call that sets it is forwarded |
| faults | 2 handlers, shadow and block tools, escalations; every store call may fail, crashes, strict audit; approvals, rejections, termination; fair handlers | `TypeOK`, `ForwardedIsRecorded`, `AuditAgreesWithEvents`, `ApprovalPrecedesAllow`, `ShownResolutionIsOwn`, `TerminationIsFinal`, `ResolutionIsFinal`, the refinement `KeepsLedger`, and the liveness property `TerminatedSessionFallsSilent` |
| reload | 3 policies (2 clean), a cache of 2, 2 handlers, 2 edits, restarts | `ReloadTypeOK`, `CacheHoldsMostRecentlyUsed`, `DriftOnlyAfterEviction`, `LintErrorsOnlyFromStart` (a policy with ERRORs is in use only if a process was started with it), and the liveness property `ReloadConverges` |
| agents | parent and child, one registration at a time, 3 keys, expiry, 1 handler | `RevokedTokenStaysDead`, `CredentialsOnDiskWork`, `RevocationStopsAdmission`, `NarrowingTakesEffect` |
| audit | 2 overlapping registrations of the proxy's name, 2 keys, 2 records of 3 kinds (NULL columns, bytes that are not UTF-8, U+FFFD), restarts of the proxy | `OKMeansAsWritten` and `UntouchedVerifies`: for UTF-8 records, OK under a key means exactly: unaltered and signed with it. `ReportAgreesWithVerify`, `FreshRecordsVerify`; `AgentsTypeOK`, `AtMostOneLiveToken` |
| lint | all 512 `only_after` graphs on 3 tools, files with each other kind of ERROR, in block and shadow mode, files generated from 162 sets of answers, sessions of 3 calls | `L013Correct`, `CyclePathIsCycle`, `NeverWedged`, `BlamedToolsAreDead`, `RefusedOnlyForCycles`, `GuardsHoldInShadow`, and the liveness property `LintTerminates` |
| offline | 2 interleaved sessions, 3 calls, one loss, 2 pairs of policies (taint, sequence, budget, escalation, shadow; rules the commands do not see) | `SimulatePredicts`, `ReplayPredicts`: for policies whose rules the commands can see, the reports are exact in each session up to its first lost record, whatever the export order and whatever other sessions lost |
| tooling | 18 pairs of files, one field changed in each; sessions of 5 calls with a taint source, a cleaner and a guarded tool | `SilentDiffChangesNothing`: where diff is silent, simulate finds no changed decision, for lists without repeated names, thresholds whose YAML type did not change and equal rate limits (section 5 has what happens otherwise). `TaintDenialsExplained`: before each taint denial there is a marked call from which on the session was tainted |
| claim_taint_race | 2 handlers | violated: a clearing call recorded before a taint source writes its snapshot's flag after it; the session ends untainted (`session/session.go:21`) |
| claim_diff | the pairs of files of tooling | violated: `policy diff` detects no changes and a proxy decides differently, because `never_when`, `rate_limit` and `require_env` are not compared (`cmd/policy/diff.go:38`) |
| claim_revoke | 2 overlapping registrations | violated: a registration reads back the other one's public key file and restores the key of a revoked token (`store/agents.go:79`) |

`RevokedTokenStaysDead` holds when registrations of a name do not overlap (run
agents) and fails when they do (run claim_revoke): the difference is the read of
`<name>.pub.pem` in `runRegister`.

### Bounds

`MaxEvents` caps the events of a session, requests under way included (the guard
is in `Receive`, so no request is cut off half way). Two handlers give every
pairwise interleaving; the budget theorem covers any number. Five events in
`history` are two prerequisites, the forbidding call and more guarded calls than
the bound admits; four in `limits` are one more than either bound. `MaxClock` is
three windows. `Cap` is 2 instead of 16: with three policies every eviction
order occurs. `MaxEdits` is 2: one edit before a reload, one during it.
`MaxKeys` is 3: a first registration, and two that overlap or follow a
revocation. Three tools in `lint` give self-loops, two- and three-cycles, shared
dependencies and a tail that leads into a cycle; the theorems cover any graph.
In `offline`, three calls (`MaxCalls`, calls received) are what it takes to exhaust a budget of two in one
session while another session is open; `MaxTime` 1 makes equal and different
timestamps, `MaxLosses` 1 is one lost record of any kind, before, between
or after calls of the same and of the other session. `MaxKeys` and `MaxRecords` 2 in
`audit` give a record under each key, and signatures to exchange. Five calls in
`tooling` are taint, denial, clear, taint, denial. `MaxEvents` 3 in `faults` is
an escalated call, another call and a retry. Symmetries permute handlers or
sessions, in runs without temporal properties.

### Fairness

`FairSpec` assumes weak fairness of each handler's steps: net/http runs every
request to its end, and no store call waits on another handler. Nothing is
assumed of clients, operators or the clock; a crash ends the handlers it hits.
`PolicyReload!Spec` assumes weak fairness of the SIGHUP goroutine, which blocks
only on its channel and on short mutex sections. `Lint!FairSpec` assumes weak
fairness of the search, a sequential computation that waits for nothing.

Deadlock is checked where the specification cannot stop: the operators' actions
(terminating again, revoking again, another SIGHUP) remain possible in bounded
states. The runs lint, offline and tooling switch the check off, because a
command ends.

## 4. Proofs

37 of the 40 properties of the passing runs are theorems: for every policy,
every number of handlers, sessions, registrars or tools, every capacity and
every set of faults. The assumptions are those the modules declare
(`ProxyAssumption`: a finite non-empty set of handlers, a well-formed policy,
non-empty sets of sessions, tools and arguments; `ReloadAssumption`,
`AgentsAssumption`, `AuditAssumption`, `LintAssumption`, `WizardAssumption`,
`OfflineAssumption`: the types of the parameters, and that an invalid predicate
evaluates to an error, as the engine's operators do; `ToolsAssumption`: the types
of a file as written, and that an `escalate_when` rule fires according to its text
and the YAML type of its threshold). TLC evaluates them in the runs. The bounds of the
runs (`MaxEvents`, `MaxClock`, ...) are parameters of the theorems like any
other, so they bound nothing.

### The request path

* `ProxyProofs!TypeCorrect`: `Spec => []TypeOK`. The interesting part is in its
  lemmas: every stage returns a verdict, and `Decide` maps every verdict,
  evaluator errors included, to one of the four actions, so that nothing else is
  ever recorded.
* `ProxyProofs!BudgetSafe`: `Spec => []BudgetOvershootBounded`. The bound
  itself is not inductive: what stands between a full budget and an unbounded
  one is the set of handlers that already hold a snapshot below the ceiling.
  `BudgetInv` therefore says: the two counter columns agree (`RowsConsistent`,
  `LocalsConsistent`); a call past the budget stage has a snapshot below every
  ceiling (`PassedBelowCeilings`); once a counter has reached ceiling `m`,
  counter plus outstanding claims is at most `m + |Handler| - 1`
  (`ClaimsBounded`); and forwarded calls plus handlers about to forward are at
  most counted plus lost ones (`ForwardsCounted`). A counting step spends a
  claim; no handler can obtain a claim once the counter has reached the ceiling.
* `ProxyLedgerProofs`, from `LedgerInv`. The tables are written one by one, so
  what ties them together is what a handler in the middle may rely on
  (`HandlerSound`): its event is in the log as it decided it, nobody has sent or
  escalated it, its audit record is missing before the audit step and afterwards
  there or known to be missing, and an "allow" about to be recorded under
  `escalate_when` has seen an approval. `EventsOwned` (no two handlers hold the
  same event: `AppendEvent` takes the next seq in its transaction) and
  `EscalationsOwnEvents` (an escalation and its event belong to each other) make
  it inductive. From it: `ForwardsAreRecorded`, `AuditTellsTheTruth`,
  `ApprovalsComeFirst`, `ReportsShowOwnFate`, and the action property
  `ResolutionsAreFinal`. `TerminationHolds` needs only that a missing row is blank
  (`MissingRowsBlank`): a termination cannot be undone by the creation of the
  session. `ImplementsLedger` (`Spec => KeepsLedger`) is the refinement of
  `Ledger`: an append, an audit write, a forward and a termination are steps of
  it, everything else stutters; the guards of the abstract steps are
  `HandlerSound`.
* `ProxyHistoryProofs`: stages that read a log which grows before their decision
  is recorded.
  - `PrerequisitesHold`: a handler past the sequence stage keeps its
    prerequisites (`PrerequisitesSeen`), because calls only become more.
  - `NeverAfterBounded`: after a forbidding call the guarded calls allowed since
    and the handlers that may still record one are together at most
    `|Handler| - 1` (`NeverAfterClaimed`): the handler that recorded the forbidding
    call is not among them, and nobody joins them later.
  - `RateBounded`: the same for every window (`WindowsClaimed`): once a window is
    full, its calls and the handlers that may still add to it are at most the
    limit plus the other handlers. It needs `ClocksOrdered`, since the event's
    time lies between the decision and the append.
  - `TaintPersists`, from `TaintInv`: a handler's flag is its snapshot's, changed
    by its own allowed call only (`TaintComputed`), and while nothing that clears
    was allowed a row seen tainted stays tainted (`TaintSeen`).

### Hot reload

`ReloadProofs`, for any capacity and number of versions. `ReloadTypeCorrect` and
`CacheIsLRU` rest on `CacheInv`: the cache is a prefix of the list of all
versions by last use. Lemmas on that list (`MovedToFront`, `PushedToFront`,
`GetKeepsPrefix`, `SetKeepsPrefix`) do the work: a hit promotes the same entry in
both lists, and an eviction drops the last of the prefix. `OnlyVettedPolicies`
follows from `VettedInv`: live policy, cached candidates, bindings and what
handlers hold are clean or were started with. `DriftNeedsEviction` follows from
`BindingInv`: every version that is bound or about to be bound is in the cache or
was dropped, and a handler falls back only on a dropped one.

### Identity and audit trail

* `AgentsProofs`: `AgentsTypeCorrect`; `OneLiveToken`, from `KeysSignOnce`: a key
  belongs to one registration until it has signed, and to one token afterwards.
  Two accepted tokens of a name verify under the same row, hence under the same
  key, hence are the same token.
* `CredentialsWork` and `RevocationIsPermanent` have the hypothesis
  `SoleRegistrar`, that registrations run one at a time. They are false without
  it: run claim_revoke shows how an overlapping registration restores a dead key,
  and two overlapping ones leave mixed files. The invariant is `SoleInv`: the
  files hold what the registration under way has written so far, or, after one
  that finished, the key of the row (`FilesFollow`); a key not yet in a row is on
  no buried token, and a buried token's key is in a row only while the row is
  revoked (`KeysStayDead`).
* `RevocationStops` and `NarrowingIsImmediate` (action properties) hold for any
  number of registrars: a request moves past a check only if the row passes it at
  that moment (`RequestMoves`).
* `AuditProofs!AuditRefinesAgents`: `AuditSpec => Spec`; the audit trail adds a
  proxy to `Agents` and changes nothing of it, so the theorems above hold there
  too.
* `UntouchedRecordsVerify`, `ReportsAgree` and `TamperingDetected` follow from
  `LogSound` (the table holds what was signed) and the lemmas on the conversions:
  NULL columns read back as written (`StoredIsRead`), marshalling and parsing
  restore UTF-8 texts (`MarshalFaithful`, `ExportIsParsed`), the canonical form is
  injective (`CanonicalIsInjective`). `DefaultKeyVerifies` needs `KeyCurrent` and,
  as long as registrations of the proxy's name did not overlap, `FilesFollow` of
  that name.

### Linter and wizard

`LintProofs`, for every set of tools and every file. `CycleDetectionCorrect`
(`Spec => []L013Correct`) and `CyclePathCorrect` rest on the invariant of the
search, `SearchInv`: the gray nodes are the stack, without repetition; each node
of the stack depends on the next; black nodes have only black dependencies; no
circular set contains a black node; a reported path is a cycle. A back edge
closes the stack into a cycle; a node turns black when all its dependencies are
black, so a circular set through it would have held one that was black before.
`LintedNeverWedged`, for files whose sequence rules are `only_after` lists of
tools other than the virtual one: if every tool not yet called were blocked, each
would wait for another that has not been called, and these tools would be a
circular set, which `L013Correct` excludes. `LintErrorsAreReal` is inductive
together with the search's result: the first call of a blamed tool would need a
prerequisite outside may_use, or an earlier call of a tool on the cycle, or a
predicate that does not fail. `WizardRefusesCycles`: of the ERROR rules only L013
can fail on a generated file (`GeneratedErrors`), and its circular sets consist of
high-risk tools. `WizardGuardsHold`, from `GuardedInv`, which holds for every file:
a call of a tool in block mode counts only if its prerequisites are in the log.

### Simulate, replay, diff and inspect

`OfflineProofs`, for any policies, files and sessions, any number of calls and
losses, and any order of the export. The commands are loops, so each theorem is
an invariant of the loop: no induction over data is needed where the model takes
one step per iteration.

* `SimulateSound` (`Spec => []SimulatePredicts`) and `ReplaySound`, from
  `OfflineInv`. `CaptureInv` is about the proxy: a session's row is what its log
  amounts to, `SessIs`, and every decision in a log is the one the stages take on
  the log before it (`LiveInv`); the two logs of a session have the same calls
  (`LogsAlign`); and up to the first loss of a session (`Intact`) the nth entry
  of its trace is its nth call and each of its events has an audit record, which
  repeats it (`TraceFollows`, `AuditFollows`). `ReadInv` says that the groups hold exactly the entries read so
  far, in their order; `GroupsInv`, after the end of the file, that entry i of a
  session's group is call i of its log, if nothing was lost up to it. For replay
  that is where the sort does its work (`SortedFollows`): the seqs of a group are
  distinct, so as far as they leave out no number an arrangement in order is the
  identity, whichever one `sort.Slice` produces (`Staircase`). A row is judged by
  its seq and the loop goes by position, and after a loss the two differ: so both
  a seq and a position before the loss must give the call. `PassInv` then follows the evaluation: the command's
  database holds the proxy's decisions on the calls before this one and nothing of
  later groups, and its Session struct is what they amount to. On such a state the
  stages the commands leave out allow, and the others agree with the proxy's
  (`VerdictsAgree`, `EntryAgrees`). `RowsInv` carries this to the rows of the
  report.
* `DiffSound` (`ToolsSpec => []SilentDiffChangesNothing`), for all sessions and all
  pairs of files whose lists have no repeated names, whose thresholds have the same
  YAML type and whose rate limits are equal. Each exclusion is needed: diff takes
  [a, b] and [a, a] for the same and 10 and "10" for the same, and it does not
  compare `rate_limit`, which simulate evaluates. For the other files a silent diff
  means equal rules as far as simulate reads them (`SilentMeansSameRules`, from
  `SameStringSetSound`: for lists without repeated names, equal length and
  inclusion one way are enough). Two passes over the same groups then give the same
  rows; as the states of the first pass are gone when the second runs, `RunInv`
  says that there is a run `W` of states which explains `results.new`, and the
  second pass walks along it (`FirstPass`, `SecondPass`, `SameRulesSameStep`).
* `InspectExplains` (`ToolsSpec => []TaintDenialsExplained`), from `ScanInv`: the
  marks made so far explain the denials seen so far, and while a cycle is active
  the session has been tainted since some mark. The lemma behind it is that a
  denial for taint at n, with no allowed call between the last one and n, means
  tainted from the last call that went through on (`TaintSinceLast`).

### Only model-checked

Liveness: `TerminatedSessionFallsSilent`, `ReloadConverges`, `LintTerminates`.
Fairness is beyond this prover. The three claims that the code violates are
refuted by TLC's counterexamples.

## 5. Other differences between text and code

Met while modelling. The first two are what the overshoot bounds quantify.

* `docs/policy-reference.md:152` calls budgets hard ceilings; concurrent calls
  overshoot them.
* `docs/policy-reference.md:328` makes `never_after` absolute; a call that read
  the history before the forbidding call was recorded is allowed.
* `internal/proxy/proxy.go:512`, one audit record per call: a crash between the
  event and the record leaves none, as does a failed write.
* `internal/session/session.go:25`: denied calls are not counted.
* `internal/session/session.go:17`: the proxy does not reject a session bound to
  an older policy; it evaluates it under that policy.
* `internal/policy/types.go:53` and `docs/policy-reference.md:120`: `max_history`
  is a hard cap; nothing reads it.
* `docs/policy-reference.md:91`, the message of L005 and the mode that explain
  and report print: an omitted `enforcement_mode` is shadow; `effectiveMode`
  returns it as it is and the pipeline blocks.
* `docs/policy-reference.md:387` and `:426`: after a taint-clearing call the
  blocked tool may be called again. The sequence stage denies on `never_after`
  whenever the tainting call is in the history, whatever the flag says.
* `cmd/simulate.go:144` and `:163`: "the full pipeline". The Env, Delegation and
  Content stages are missing, here and in replay: calls that `never_when` denies
  are reported as allowed. Rate limits are evaluated on timestamps cut to the
  second (simulate) or on the time of the event (replay).
* `internal/policy/lint.go:313-315`: an invalid `never_when` predicate blocks the
  agent permanently. Under `never_when_match: all` an earlier predicate that does
  not match allows the call.
* `docs/mvp-plan.md:514`: L013 uses `only_after` and `never_after`; the code uses
  `only_after`. Dead ends made by `never_after` or `requires_prior_n` are not
  reported.
* `internal/policy/lint.go:502`: tools on a cycle block permanently; in shadow
  mode they are called.
* `internal/policy/lint.go` has no rule for an `only_after` that names
  `check_escalation_status`: it can never be satisfied.
* `cmd/audit/export.go:76`: an export is consumable directly by verify. A request
  header that is not UTF-8 is signed as the escape `\ufffd` and read back from
  the export as the character U+FFFD: the untouched record is TAMPERED for
  verify, and verified for report, which reads the table. The properties are
  about UTF-8 records.
* `README.md:476`, tampering is detectable: of the records that are there. They
  are signed one by one, so a missing line is not noticed. After a new
  registration of `proxy`, older records are TAMPERED under the default key, and
  so are those a proxy goes on writing until it is restarted.
* `cmd/init.go:115` and `prompt`: Enter accepts the default. `prompt` returns the
  empty answer; the two numbers take their defaults later, the agent name is
  refused. A cost below half a cent is written as 0.00, which means no limit. A
  name with YAML syntax in it makes a file that does not parse, which
  `cmd/init.go:213` excludes.
* `cmd/policy/diff.go:236`: `sameStringSet` takes [a, b] and [a, a] for the same
  set, one way round. `sameEscalateRule` takes the thresholds 10 and "10" for the
  same, and the engine compares the second as 0.
* `cmd/session/inspect.go:183`: correct where the taint source is immediately
  followed by a sensitive tool. Any call allowed after the first denial starts a
  new cycle, so a later denial marks a call that did not taint the session; and
  a `shadow_deny` call can be marked, which never applies taint.
* report and inspect show PENDING for an escalated call whose row could not be
  written: nobody is asked to decide it.
* explain and the policy summary of report leave out `never_when`, `rate_limit`
  and `require_env`.
* `internal/store/sessions.go:110`: sums of 0.001 in floating point fall short of
  the ceiling; one of 1.01 USD is reached by the 1011th call.
* `internal/proxy/stdio.go:27`: the loop ends when the context is cancelled; a
  read that waits for a line does not see it.
* `internal/identity/jwt.go:35-36`: the proxy "verifies AllowedTools ⊆ ParentAllowed
  at request time without a database read". `DelegationEvaluator` reads the
  parent's row on every call and looks at neither list of the token
  (`engine/delegation.go:40-44` gives the reason); `NarrowingTakesEffect` is about
  what it does.
* `cmd/agent/register.go:38`: no stage consults the tools in the JWT; an agent
  registered with a narrow policy is bound by the proxy's policy.

## 6. Not modelled, and why

Formatting: explain, the lists, the table and CSV layouts, the prompts of init,
the boilerplate of report. Telemetry, health and the notification webhook change
no state of the system or only advise. The policy packs are data. The linter's
WARNING and INFO rules only print. JSON and YAML decoding, SHA-256 and
Ed25519 are libraries: fingerprints and signatures are taken as unforgeable and
injective; what JSON does to text is modelled in `AuditTrail`. The stdio
transport feeds the same handler sequentially. Costs are
counted in whole units of one call, so floating-point rounding of accumulated
costs is outside the model. One policy governs `Proxy`; `PolicyReload` shows
which policy that is. `Proxy` has root agents; delegation is in `Agents`.

Smaller simplifications, on which no property depends:

* `ContentEvaluator` leaves out the error for a `never_when_match` that is neither
  any nor all (`engine/content.go:57-61`);
* `MayUseEvaluator` leaves out the virtual tool (`engine/mayuse.go:35`), which the
  proxy answers before the pipeline;
* `Lint!Call` places the refusals of the environment, budget and taint stages
  after the content and escalation stages: in shadow mode an evaluator error may
  come first where the code records a shadow denial;
* lifetimes of tokens are natural numbers; `--expiry-days` accepts negative ones;
* an event and its audit record in `Offline` share a timestamp, for which the code
  reads the clock twice (`proxy/proxy.go:688`, `store/events.go:52`);
* a trace that does not parse (`cmd/simulate.go:303-319`) ends simulate before the
  first row, as an empty one does; only the empty one is modelled.

## 7. Plan

Done: Engine, Proxy, Ledger, Reports, PolicyReload, Agents, AuditTrail, Lint,
Wizard, Offline, PolicyTools, and the theorems of section 4.

Left, should the project be continued:

1. Delegation inside `Proxy`, to compose it with `Agents`.
2. Rate limits in `SimulatePredicts` and `ReplayPredicts`. The decisions do differ
   (section 5); a bound on the difference in terms of `TicksPerSecond` could be
   stated.
3. The stdio transport and the shutdown of `serve`, if they come to share state
   with the handler.

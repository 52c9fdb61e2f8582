# Verification of milo-os/telemetry

TLA+ models of the parts of the telemetry system whose correctness depends on
the order of steps, TLC configurations that check them on small instances, and
TLAPS proofs of their main safety properties for every size. Paths below are
relative to the repository's root, line numbers are those of the modelled
revision. `PROJECT.json` maps every definition to the lines it stands for.

## The system

Telemetry travels from the points of presence (PoPs) to a hub and is read back
through an API.

1. **Keys.** `nkey-generator` is a scheduled job at the hub. For every Karmada
   cluster with the label `telemetry.miloapis.com/nats-leaf=enabled` it creates
   an NKey Secret and a PushSecret that carries the seed to the PoP, and
   rewrites the ConfigMap of NATS users the hub accepts.
2. **Transport.** At the edge, `unbatchprocessor` splits batches into single
   items and `natsexporter` publishes each under its tenant's subject, over
   core NATS or into a JetStream stream. In the sink collector `natsreceiver`
   takes them from NATS and hands them to a pipeline that batches in memory and
   inserts into ClickHouse.
3. **Storage.** `clickhouse-migrate` applies the schema.
4. **Reading.** `queryapi` serves Loki- and Prometheus-style queries of one
   project. The `cli` reads log windows page by page and follows logs by
   polling.
5. **Exports.** The `operator` turns `ExportPolicy` objects of every project
   control plane into Vector configurations, Secrets in a downstream cluster.

The parts interact through data at rest: API objects (1, 5), the stream (2) and
tables (2, 3, 4). That is where the models are cut.

## Modules

| Part | Modules | Source |
|---|---|---|
| nkey-generator | `NKeyGenerator`, `JobsProofs` | `nkey-generator/main.go` |
| what NATS does | `NatsServer` | external, as used by exporter and receiver |
| unbatchprocessor, natsexporter | `NatsExporter` | `processor/unbatchprocessor`, `exporter/natsexporter` |
| natsreceiver, sink pipeline | `NatsReceiver` | `receiver/natsreceiver`, `config/collectors/sink-collector.yaml` |
| their composition | `TelemetryPipeline`, `MCTelemetryPipeline`, `TelemetryPipelineProofs` | |
| promise of a durable subscription | `AtLeastOnce` | abstract specification |
| one query_range request | `LogQueryAPI` | `queryapi/handler.go`, `queryapi/internal/storage/clickhouse/query.go`, `cli/logs/client.go` |
| paging | `LogPages`, `MCLogPages`, `LogReadProofs` | `cli/logs/fetch.go` |
| following | `LogFollow`, `MCLogFollow`, `LogReadProofs` | `cli/logs/follow.go`, `cli/logs/client.go`, `cli/internal/command/logs.go` |
| query texts | `LogQL`, `LogQLQuery`, `MCLogQLQuery`, `LogQLProofs`, `LogQLHintsProofs`, `LogQLQueryProofs` | `cli/logql`, `queryapi/internal/logql`, `cli/internal/command/logs.go` |
| query API: paths, permissions, projects | `QueryRouting` | `queryapi/routes.go`, `queryapi/internal/authz`, `queryapi/internal/miloauth` |
| query API: parameters and errors | `QueryHandlers` | `queryapi/handler.go`, `params.go`, `prom.go`, `promparams.go`, `queryapi/internal/storage/prometheus` |
| query API: labels of records | `LogLabels` | `queryapi/internal/storage/clickhouse`, `queryapi/internal/storage/labels.go` |
| query API: a request's way | `QueryServer`, `MCQueryServer`, `QueryServerProofs` | `queryapi/apiserver.go`, `loki.go` and the above |
| ExportPolicy: spec, status, configuration | `ExportPolicy` | `operator/api/v1alpha1`, `operator/internal/controller/vector_configuration.go` |
| ExportPolicy controller | `ExportPolicyController`, `MCExportPolicy`, `OperatorProofs` | `operator/internal/controller/export_policy_controller.go` |
| operator process | `OperatorProcess`, `OperatorProofs` | `operator/cmd/main.go` |
| clickhouse-migrate | `ClickhouseMigrate`, `MCClickhouseMigrate`, `JobsProofs` | `clickhouse-migrate` |

### NKeyGenerator

State: the cluster labels (`enabled`), the Secrets (`secret[c]`, the key pair or
`NoKey`), the PushSecrets (`pushed`), the ConfigMap (`cmExists`, `published`),
and for every run its next API call (`pc`) and the locals of `sync`,
`ensureKey` and `writeConfigMap` (`todo`, `cur`, `key`, `users`, `prev`).
`fresh` holds the runs whose resourceVersion of the ConfigMap is still current,
which decides whether `UpdateMap` succeeds.

One action is one API call with the computation that follows it, because
another run or a person can act between any two calls. `Abort` ends a run at any
call: an API error that `sync` returns, or a killed pod. Outside the program an
operator labels and unlabels clusters and deletes Secrets.
`CarefulOperator` says that they act between runs and label a cluster again only
after its old key is off the list.

### The pipeline

`NatsServer` keeps the messages of the stream in order, the indices the durable
consumer has no ack for (`pending`), those whose AckWait timer runs
(`inflight`), what was sent to the receiver (`buffer`), and what was published
while no core subscription was there to hear it (`unheard`). `NatsExporter` has
the split of a batch (`ahead`), the sending queue and the workers;
`NatsReceiver` has the handler call in progress (`handling`), what the next
consumer accepted (`accepted`, `copies`), the sink's batch (`memory`) and the
table. `lost` and `dropped` record items that a failure took, so that anything
missing elsewhere is a flaw; a core message counts as present only while the
receiver holds it or if nobody heard it. Both ends choose core NATS or JetStream
independently.

Failures are actions of their own: a publish that returns an error (with
JetStream the message may be stored all the same), a core publish into a broken
connection, retries given up, a refused
item, a lost ack or nak, AckWait running out under a slow handler, killed
processes (a sink also while it shuts down), an orderly shutdown, inserts given up.

### Reading logs

`LogQueryAPI` answers a query: the lines of a half-open window in order, cut at
a limit. ClickHouse orders by the timestamp alone, so `Cuts` allows any choice
among lines that share one. A window that is empty is refused (status 400).

`LogPages` models one turn of `Pages`' loop as one step with three outcomes
(`Return`, `StepPast`, `Resume`), for the callers `Tail` and `All`. An instant
is a number, a second is `Second` instants. `out` is the sequence of batches
passed to the callback. Lines arrive between queries.

`LogFollow` models `runLogs` with `--follow`: the backlog, `Follower.Run` and
`admit`, and the client's token (`Authorize` is `get` with `bearer`: a cached
token, replaced once on a 401). `printed`, `count`, `timely` and `skipped` are
history: what was printed and how often, which lines appeared in reach of the
next poll, and whether a poll left the overlap out. The backlog is one step whose
lines are those of a window that ended at or before that step (`BacklogLines`);
how they are fetched is `LogPages`' matter. The intervals between polls are
recorded, and a poll may come at any time.

### Query texts

`LogQL` has the three pieces of code that handle a query's text: the builder's
`String` with `Alternation` and `dedupe`, the API's `Parse` with its scanners and
`Matches`, and the `logs` command's `requiredLabels`. A text is a sequence of the
characters they tell apart; two letters stand for all that have no meaning of
their own. `strconv` and `regexp` are external: quoting, unquoting and patterns of
literals, escapes, `.` and `|`. In `LogQLQuery` a caller calls the builder's
methods or a user types pieces of text. `asked` is history: the conditions in the
words of the methods' comments. `rejectUnsupported` only words errors that
`scanFilterOp` gives anyway.

Nothing in `LogQL` is a recursive operator, so that it can be reasoned about. What
the code does with a loop over characters (`closingBrace`, `unquotedSelector`,
`strconv.Unquote`, `regexp.Compile`) is read off one automaton: `Reading` says
after each character whether the text goes on outside of quotes, inside or behind a
backslash. The loops of `parseMatchers` and `parseFilters` are functions of the
number of passes; a pass takes a character at least, so as many passes as there are
characters are enough. Characters that TLA+'s strings or the tools treat in a way of
their own have names (`QuoteMark`, `Blank`, `LeftBrace`). `Lists` is a constant, the
lists of values that `OneOf` and `NoneOf` are called with.

### The query API

`QueryRouting` turns a path, in each of the forms that `withCanonicalPaths`
accepts or the mux cleans (`Clean`: empty and `.` segments go, `..` takes the one
before with it, a final slash stays), into the permission that is reviewed and the
handler that runs. `QueryHandlers` has each handler's checks of its parameters, in the
order of the code, and the mapping of storage errors to status codes. `LogLabels`
has the label set a row shows (`assembleLabels`), the one matchers read
(`labelExpr`) and the names that are advertised (`LabelNames`), over records whose
attribute names become equal when sanitized. Matchers read the first of them, rows
show the first that is not empty.

`QueryServer` moves a request through filters, middleware, handler and store
(`req[r].pc`). `rows` is the table, `wanted` and `got` what the store found for a
query and what has been read of it; `ctx` is the context, which the client's
leaving or the deadline ends at any point. Reading takes one step per row and may
fail between two. A log store may give up by itself before the deadline of the
call, which is why a 504 to a log request says nothing about the context. Windows of rows in time are `LogQueryAPI`'s matter. External:
the SubjectAccessReview, the drain of the apiserver library, the database driver
and the metrics backend, each with every outcome that the code handles.

Two comments of the code differ from it without consequence for a property: the
403 of `miloauth/middleware.go` is reached by a caller who acts in an
organization (`RefuseUnscoped`), and a path that the mux redirects does report a
pattern (`routes.go:115`).

### The ExportPolicy controller

`ExportPolicyController` follows one policy name, whose object may be deleted and
created again under a new UID. `policy` is the object at the API server, `pending`
the versions its watch has not delivered, `cached` the one the controller reads;
`secret` and `secretCache`, `downstream` and `downCache` pair likewise. `pc`,
`obj` and `config` are the locals of `Reconcile`. One action is one API call with
the computation around it. Failures are failed reads and writes, conflicts, a List
that fails in the Secret watch, a panic while the configuration is built, and a
restart at any point. `missed` is history: the last configuration came from a
failed or stale read that nothing retries but the resync.

### The operator process and the migration Job

`OperatorProcess` models `main` (setup steps that may fail) and
`runUntilManagerStops`: the manager and workers of an errgroup that return in any
order, with nil, with `context.Canceled` or with an error, and signals. A second
signal ends the process at once (`SignalAgain`), whatever its goroutines do.

`ClickhouseMigrate` models `run`: configuration, rendering, creation of the
database, and golang-migrate's steps (external): version read, dirty mark, one step
per statement, clean mark. Jobs overlap, since the driver's lock is local to the
process; pods die between two calls and are restarted; a dirty database may be
repaired by hand.

## Runs

| Run | Result | What it shows |
|---|---|---|
| `nkey_serial` | pass | Runs that do not overlap, readable ConfigMap, careful operator: published keys are stored (`PublishedKeyIsStored`), no live leaf is dropped (`NoSilentDrop`), and the list catches up with the labels (`EnabledEventuallyAuthorized`, `DisabledEventuallyRemoved`), with one run dying anywhere. |
| `nkey_overlap` | pass | What survives two overlapping runs, failing reads, dying runs and an operator who acts at any moment: a published leaf has its PushSecret (`PublishedIsMirrored`), and a stored seed is not replaced (`SeedNeverRegenerated`). |
| `pipeline` | pass | With up to two failures anywhere, in all four combinations of modes: no item vanishes unaccounted (`NothingVanishes`), duplicates need a failure (`DuplicatesNeedFaults`), the receiver implements `AtLeastOnce` (`ReceiverIsAtLeastOnce`), the consumer drains (`PendingDrains`) and items reach the table (`ItemsArrive`). |
| `pipeline_routing` | violation | A batch with one item behind an empty resource is published under the empty resource's subject (`processor.go:47`). |
| `log_pages` | pass | No line twice (`NoRepeat`), none skipped (`NothingSkipped`), a refused query only behind a second that fills a page (`RefusedAtWideEdgeOnly`), and an end (`Terminates`). |
| `log_follow` | pass | No line twice (`PrintedOnce`), late lines in reach stay in reach and are printed (`TimelyStaysInReach`, `TimelyArePrinted`), a 401 ends the command only if the token source is behind (`SignedOutOnlyWhenStale`), and no endless polling without a pause (`NotForeverBusy`). |
| `log_follow_burst` | violation | A page full of lines with the cursor's timestamp is fetched for ever, without a pause (`follow.go:112`). |
| `logql` | pass | The API reads a built query as the conditions that were asked for (`AskedIsMatched`), and the `logs` command reads from every accepted text without a typed backquote the labels that the API requires (`HintsAreRequired`). |
| `query_server` | pass | The handler that runs is the one that was reviewed, for the caller's project (`RunsAsReviewed`); calls to the stores are bounded (`CallsAreBounded`); a 200 is a whole result (`SuccessIsComplete`); an error blames who caused it (`FaultIsNamed`); storage is closed only once no log request needs it (`StoreOutlivesCalls`); a label that is advertised or shown is the one that matchers read, up to an empty column and an empty first value (`ShownIsMatched`); every request is answered (`Answered`). |
| `export_policy` | pass | No downstream Secret outlives its policy (`NoOrphan`), a quiet controller has overlooked nothing (`SettledMatches`), the configuration ends up right (`Converges`) and deletion completes (`DeletionCompletes`). |
| `clickhouse_migrate` | pass | A clean version is applied whole (`VersionIsApplied`), success means migrated (`SuccessMeansMigrated`), a dirty or finished database is left alone (`LeftAlone`), Jobs end migrated if nothing fails (`JobsEndMigrated`). |
| `operator_process` | pass | Unless a second signal ends the process, the exit status tells whether something failed (`ExitReportsError`), nothing runs on alone (`StopsTogether`), and a supported mode serves in the end (`Serves`). |

A run that ends in a violation states what a comment of the repository says; the
entry under `findings` in `PROJECT.json` quotes it.

### Further configurations

These are kept beside the runs; where a module has a type invariant, it
holds on the instance of its passing run. Each of the first eight ends in a violation, which is
what the code does against what a comment says.

| Configuration | Module | Property | What happens |
|---|---|---|---|
| `nkey_read_failure` | `NKeyGenerator` | `NoSilentDrop` | A failed read of the ConfigMap counts as an empty list; with a listing glitch in the same run a live leaf is dropped (`nkey-generator/main.go:430`, comment at 456). |
| `nkey_overlap_key` | `NKeyGenerator` | `PublishedKeyIsStored` | The run that loses the race to create a Secret publishes the key it did not store (`main.go:288`, comment at 239). |
| `nkey_relabel_wedge` | `NKeyGenerator` | `EnabledEventuallyAuthorized` | A cluster labelled again too early makes every later run refuse to write (`main.go:379`, comment at 3). |
| `pipeline_acked` | `MCTelemetryPipeline` | `AckedIsInserted` | An acknowledged item can be lost, because the sink acknowledges what it has in memory (`receiver.go:299`; `sink-collector.yaml:14`). |
| `log_pages_window` | `MCLogPages` | `OnlyTheWindow` | A page that fills inside the window's first or last second makes `Pages` resume outside the window (`fetch.go:71`, comments at 15 and 96). |
| `export_policy_ready` | `MCExportPolicy` | `ReadyIsConfigured` | A sink that loses its target keeps its Accepted condition; the policy stays Ready, the sink is not configured (`export_policy_controller.go:253`; `export_policy_types.go:53`). |
| `logql_backquote` | `MCLogQLQuery` | `BracesInQuotesAreIgnored` | `scanString` accepts backquoted values, `closingBrace` does not know them and ends the selector at a brace inside one (`parser.go:57`, comment at 52). |
| `operator_default_mode` | `OperatorProcess` | `ModeDefaultsToSingle` | A mode left out is refused: the function that sets the default is never called (`operator/internal/config/config.go:63`, comment at 43). |
| `log_pages_order` | `MCLogPages` | `SecondsInOrder`, `StraysAreNear`, `TypeOK` | These hold: pages take no step back by a second, and nothing lies further outside the window than its boundary seconds. |

### Bounds

- **nkey.** Two clusters, which is what a guard over "every other leaf" needs,
  and in `nkey_serial` a third with a name unfit for a NATS subject. Two runs,
  since each race is between one call of a run and one of another. Three or four
  label changes allow labelling, unlabelling, and labelling again. Six keys are
  more than are in use in any reachable state, so `Keys` never runs out. `Spec` without
  liveness in `nkey_overlap`: overlapping runs may starve each other.
- **pipeline.** One batch of two resources with an empty group, a malformed
  message, one worker, a queue of one (so that it is full when the second item
  comes), two failures of any kinds: the second can hit the recovery from the
  first. The same properties were also checked once with two workers (1.8
  million states); the kept instance has one, which is faster.
- **log_pages.** Pages of two or three lines, tails of 0, 2 and 5 (less and more
  than a page); seconds of four instants with three, four and three lines, one
  wider than a page and one with two identical lines; windows on and off second
  boundaries; four lines that may arrive at any time.
- **log_follow.** Five lines over five instants, more than a page within an
  overlap and fewer than a page at one instant; a collector one instant ahead;
  one failed request; two tokens. `log_follow_burst` has as many lines at one
  instant as a page holds.
- **logql.** Two labels; eight values that hold a quote, a brace, a backslash, a
  blank, a backquote, `.` and `|`, or look like a matcher; two conditions, so that
  each scanner goes on after a value. Typed texts of up to seven pieces: two matchers with a
  quote, an escape or a comma inside a value. They hold no backquotes: `closingBrace`
  and the `logs` command do not know that `scanString` takes a backquoted value, so
  with one, as in an `e` that equals `` `k=` ``, the labels that are read differ.
- **query_server.** One request at a time, since requests share nothing but the
  table and the server's state. Every route in every form of its path, callers of
  a project, of an organization with a project's name and of no valid project,
  parameters on both sides of each limit, two rows of records whose attributes
  collide with both values given, with one empty, and with a column.
- **export_policy.** One name with two objects in turn, three specs that differ in
  what they need, one Secret, four writes by users and one failure or crash: delete
  and create again while the first object is still being reconciled needs three.
- **clickhouse_migrate.** The repository's three files with their statements, two
  Jobs, two failures, one repair, two restarts.
- **operator_process.** Both supported modes and an unknown one, three failures:
  one for each of setup, a worker and the manager.

`CHECK_DEADLOCK FALSE` is set where the system may stop: no batch is left, the
window has been read, the command has ended.

### Fairness

- **nkey.** Weak fairness of every run's steps: the CronJob keeps starting runs
  and a run goes on. Strong fairness of deleting the Secret of an unlabelled
  cluster: the refusal asks the operator to do so on every run, and a careful one
  only gets to it between runs. `Abort` is bounded and needs no fairness.
- **pipeline.** Weak fairness of each goroutine, of the restart of a stopped sink
  and of redelivery by the server. Failures are bounded (`MaxFaults`): they stop
  eventually. Nothing forces a batch to arrive.
- **log_pages, log_follow.** Every request is answered or times out
  (`requestTimeout` in `cli/logs/client.go`), and time passes. The fairness of
  polling, of a 401 and of time is separate, so none stands in for another. The
  user need not cancel and the API need not deny anything.
- **query_server.** Weak fairness of the server's own steps and of the deadline's
  timer. A store need not answer, but returns once the context of the call has
  ended, as the driver and `net/http` do.
- **export_policy.** Watches deliver, the worker takes items from the queue, and
  the informer resyncs. Failures and edits are bounded.
- **clickhouse_migrate, operator_process.** Processes run on, goroutines obey a
  cancelled context, Kubernetes restarts pods (a Job's up to `backoffLimit`).
  Nobody has to repair a database.

## Proofs

All theorems hold for arbitrary constants within the named assumptions
in the modules they are about, which TLC evaluates on the instances. They say that
sizes and times are naturals, that placeholders such as `NoKey` or `NoBatch` are
not real values, and that inputs have their type. The ones that restrict more: a
batch holds no item twice (`ExporterAssumption`), two lines have different keys
(`FollowAssumption`), a window is not empty (`PagesAssumption`), a label that a query
is built with is a name (`QueryAssumption`), and the query
server runs with a configuration that its own validation accepts
(`ConfigAssumption`). A module of proofs may be about two components that share no
state; it extends both, and their specifications have names of their own
(`FollowSpec`, `MigrateSpec`, `ProcessSpec`).

An invariant is seldom inductive. Each module states the strengthening it needs,
proves that `Init` gives it, that every action keeps it (one step per action), and
that it implies the property.

### JobsProofs

`NKeyGenerator`, for any number of clusters, keys and overlapping runs:

- `TypeCorrect`: `TypeOK`, strengthened by `HoldsKey`, that a run inside
  `ensureKey` holds a real key for a cluster still on its list.
- `MirroredCorrect`: `PublishedIsMirrored`. `MirrorInv` adds that each run's list
  is mirrored while it is built, and that a PushSecret found is still there when
  it is updated.
- `SeedCorrect`: `SeedNeverRegenerated`, from the type invariant.
- `OwnerCorrect`: no key pair is ever tied to two clusters, by a Secret, a list or
  a run. It is why `droppedNkeys` may compare keys alone.

With an assumption that `nkey_read_failure` and `nkey_overlap_key` show to be
needed:

- `DropCorrect`: `NoSilentDrop` if runs do not overlap and the ConfigMap read
  does not fail. `DropInv` says that while a run guards its write, each published
  user is on the new list, yet to be looked up, or without a Secret.
- `StoredCorrect`: `PublishedKeyIsStored` if runs do not overlap and the
  operator is careful. `StoredInv` follows the key from `ensureKey` to the list.

`ClickhouseMigrate`, for any number of Jobs, files and statements:

- `CleanVersionIsApplied`: `VersionIsApplied`, and `SuccessIsMigrated`:
  `SuccessMeansMigrated`. The invariant `MigrateInv` has for a dirty record that all
  earlier versions are applied (`RecordedInv`), and for each Job that what it has
  gone past is applied (`JobInv`). Statements are never undone, so what one Job
  knows survives the steps of another.
- `SettledIsLeftAlone`: the action property `LeftAlone`.

### TelemetryPipelineProofs

For any batches, workers, modes, queue size and number of failures:

- `SplitIsExact`: `splitLogs` returns batches of one item that hold between them
  exactly the items of the batch; if the batch holds none twice, neither do they.
  Items are counted through nested resources and groups, so this needs induction
  over the sequences that `FlattenSeq` joins. `Induction` states it for a set of
  naturals and is proved from the finiteness of an interval.
- `ItemsAreAccounted`: `NothingVanishes`, with `ExporterShape` (every batch in
  the exporter has one item), `ReceiverShape` (every index points into the stream)
  and `AckIsSafe` (what is acknowledged next has reached the sink or never will).
  `Everywhere` collects the places an item may be in; each step of the receiver
  takes at most the messages it has settled out of those that wait (`Unretired`).
- `AcceptedOnce`: `DuplicatesNeedFaults`, with `Orderly`: while nothing fails, an
  item is in one place of the exporter or in one message (`OnePlace`), and a message
  is in the receiver's hands once and is not delivered again (`HeldOnce`).
- `AtLeastOnceDelivery`: `ReceiverIsAtLeastOnce`, the refinement of `AtLeastOnce`.
  Initial states map to initial states, and every step of exporter, receiver and
  sink to `Put`, `Get`, `Retire` or a stutter (`QueueStep`). It needs
  `HeldIsWaiting`: a message in the receiver's hands is not retired unless the
  consumer accepted it or it is unfit.

### LogReadProofs

`LogPages`, for any lines, windows, page sizes and tails, and lines that arrive
between the queries:

- `PagesDoNotRepeat`: `NoRepeat`. `PassedOnInv` says that a line passed on lies in a
  second the next query has left behind, or in the edge's second with its key in
  `seen`.
- `PagesSkipNothing`: `NothingSkipped`. `FoundInv` says that a line that was there
  from the start is passed on, or ahead of the next query and for a tail no newer
  than what it has, or in a second wider than a page. It rests on what a full page
  says: a line it leaves out is not on the near side of its last one. `CountInv`
  says that what `Tail` counts is the lines passed on.
- `PagesRefusedAtWideEdge`: `RefusedAtWideEdgeOnly`, from `BoundsInv`, which ties the
  query's bounds to `edge`, and `RefusedInv`, the property one step ahead.

`LogFollow`, for every page size, overlap, clock skew, number of lines and order of
arrival:

- `RepeatCorrect`: `PrintedOnce`. It is not inductive: it needs `Forgotten`, that a
  printed line is not newer than the cursor and that one no longer in `followSeen` is
  older than any later poll reaches. Each printing step then adds a set disjoint
  from `printed`, and cardinalities add up.
- `TimelyCorrect`: `TimelyStaysInReach`, with `Overlapping`. The lemma behind it:
  a full page is cut at its newest line, so a line in reach that is not printed
  is not older than the new cursor; a page that is not full leaves none behind.
- `RefusedCorrect`: `NeverRefused`, from `CursorAhead`: cursor and start lie before the
  end of the next poll.
- `OlderCorrect` and `SignedOutCorrect`: the action properties `NothingOlder` and
  `SignedOutOnlyWhenStale`.
- `TypeCorrect`: `FollowTypeOK`.

### OperatorProofs

`ExportPolicyController`, for any specs, Secrets, bounds and orders of delivery:

- `TypeCorrect`: `TypeOK`, with `ObjHasUid`. A configuration holds no credentials
  but those of a well-formed Secret.
- `NoSecretIsOrphaned`: `NoOrphan`. By itself it is not inductive, since
  `Reconcile` writes for an old copy. `CopiesBacked` says that any copy with a
  finalizer that is not being deleted, in the cache or on its way there, is of the
  object that exists; `CacheLeadsToPolicy` that the watch ends at the API server's
  version; `WorkerInv` what the worker's copy implies at each call, in particular
  that the finalizer can only go after the downstream Secret.
- `SettledIsConfigured`: `SettledMatches`. `NothingOverlooked` follows a change
  through the work queue: while the name is not queued, the worker's copy is of the
  cached policy, what it is about to write is what the caches call for, and once it
  is idle the downstream Secret holds that. It rests on `UnreferencedSecret`: a
  Secret for which the mapper queues nothing has no part in the configuration.

`OperatorProcess`, for any modes, failures and restarts:

- `ExitStatusIsRight`: `ExitReportsError`. `RunInv` adds that the group's error is
  kept from the goroutine that returned it, that nothing runs during setup, and that a process that ran and exited has left
  no goroutine running.

### QueryServerProofs

For any paths, callers, forms and records, and any number of requests:

- `RunsWhatWasReviewed`: `RunsAsReviewed`. The table's patterns differ in length or
  in their last segment, which is never `{name}` (`RouteTable`), so no path matches
  routes with different permissions (`PathHasOnePermission`); `Reviewed` says that
  the request that is dispatched is the one that was reviewed.
- `SuccessIsWhole`: `SuccessIsComplete`. `Whole` adds that the selectors before the
  one at hand have been parsed.
- `ErrorBlamesItsCause`: `FaultIsNamed`. `Named` adds that a request has no status
  until it is answered, after which its context is not touched.
- `StoreCallsAreBounded`: `CallsAreBounded`. `Bounded` carries what the checks of a
  form have established to the calls made after them. The samples of a range query
  are mapped one to one into `0..(end - start) \div step` (`SamplesInWindow`).
- `StoreClosesLast`: `StoreOutlivesCalls`, from `Drained`: once the storage is closed
  no request is under way, and none arrives.
- `SeenIsSearchable`: `ShownIsMatched`, from `Stored`, that the rows are well-formed
  records. `Sanitize` is idempotent, so a name that is advertised or shown is its own
  sanitized form. The first attribute of that name is the one a row shows, unless it is
  empty (`AttributeIsShown`), and the query for names leaves out those on which a
  record's attributes collide.

For the first four the invariant is a predicate on one request (`ReqInv`,
`Bounded`), and every step sets at most one request or starts all anew.

### LogQLProofs, LogQLHintsProofs and LogQLQueryProofs

For any labels, values, lists of values, typed pieces and bounds:

- `BuiltQueryIsRead`: `AskedIsMatched`. The inductive invariant is `BuiltAsAsked`: the
  selector's matchers and filters are well-formed, and on every label and line they
  let through what the conditions asked for so far let through (`Agree`). Each method
  keeps it, `OneOf` and `NoneOf` because `dedupe` keeps the values that are meant
  (`DedupeKeeps`) and the pattern that `Alternation` writes matches these and nothing
  else (`AlternationMatches`: `QuoteMeta` is undone by `regexp.Compile`, and the bars
  are the ones between the values). That the API reads such a selector back is
  `LogQLProofs`: what `strconv.Quote` writes, `scanString` reads as the value and
  stops where it ends (`EscapeIsQuoted`); no brace or comma in it is mistaken for
  syntax (`MatchersAreSealed`, with `Sealed`: closed strings, no closing brace outside
  of them); and after `k` passes of `parseMatchers` and `parseFilters` there are the
  first `k` matchers or filters and the text of the others.
- `HintsAreRight`: `HintsAreRequired`, in every state in which no backquote is left in
  the selector without its double-quoted strings (`NoBackquoteLeft`). The parser and
  `unquotedSelector` take the same text between the braces (`SameSelector`,
  `SelectorText`). By an invariant on the passes of `parseMatchers`
  (`NamesAreRequired`), the names found in it are the labels of the matchers read so
  far with `=` or `=~` and the names found in the rest: a double-quoted value leaves
  two blanks behind, so no name comes from inside a value and none is cut.
- `BuiltHintsAreRight`: for a built query there is no such backquote, whatever the
  values hold (`MatchersAreTidy`). `TypedHintsAreRight`: nor is there for a typed one
  if the user types none, which is what the instance of `logql` assumes as well.

Texts have any length here, so these facts need induction. It is done as in
`SplitIsExact`, for a set of naturals that is named first, since the library's
induction theorems cannot be used with the provers at hand.

### Only model-checked

Every safety property of the passing runs is proved; `HintsAreRequired` without
backquotes in typed texts, as it is checked. Liveness (`EnabledEventuallyAuthorized`,
`DisabledEventuallyRemoved`, `PendingDrains`, `ItemsArrive`, `Terminates`,
`TimelyArePrinted`, `NotForeverBusy`, `Converges`, `DeletionCompletes`,
`JobsEndMigrated`, `StopsTogether`, `Serves`, `Answered`) stays with TLC, since
fairness is beyond the proof system.

## Not modelled

- The ExportPolicy webhook and its validation: the operator's `main` does not
  register it (`operator/cmd/main.go:306-314`), so no policy passes through it.
- Generated code, manifests, dashboards and the in-memory stores of the tests: no
  behaviour of the running system.
- Wording, formatting, JSON layout, logging, metrics, tracing, health endpoints,
  flag parsing and TLS options.
- Edge collector configurations: attribute transforms of a third-party collector.
- Exporter shutdown that drains its queue; configuration checks.
- In `LogFollow`: that the backlog itself is fetched in pages (`LogPages`), and a
  client without a token source. If the backlog is empty and takes longer than
  `FollowOverlap` to fetch, lines stamped in between lie before `since`
  (`follow.go:61`) and are not counted as timely.
- In `LogQL`: digits, single quotes, escapes other than of quote and backslash, and
  regexp syntax beyond literals, escapes, `.` and `|`.
- In `LogLabels`: two cases that `ShownIsMatched` leaves out. A row whose promoted
  column is empty shows an attribute of the same name, which matchers do not read
  (`iterator.go:107`), and a name whose first attribute is empty is shown with the
  next one's value; such a name is not advertised. Names are sequences of characters
  that `Sanitize` may change or keep: that a name it keeps can be written in a query is
  not modelled, and one with a character such as `/` is advertised although the parser
  refuses it in a matcher (`storage.go:95`, against `openapi.yaml:131`).
- That the metrics backend honours `extra_label`, which confines a query to its
  project.

## Running

From this directory, with the community modules on the path:

    tlc -workers 2 -config log_follow.cfg MCLogFollow
    tlapm LogReadProofs.tla

`LogQLProofs`, `LogQLHintsProofs` and `LogQLQueryProofs` take some ten minutes each.

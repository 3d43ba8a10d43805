# Verification of ai-store

ai-store keeps JSON documents as streams of RFC 6902 patches: an append-only
log per stream, snapshots of materialized states beside it, gates before a
write, sinks after it. This directory holds TLA+ models of its concurrent core,
the TLC runs that check them on small instances, and proofs, checked by TLAPS,
that the main safety properties hold for every instance of it.

## The system

Paths are relative to `src/crates/<crate>/src/`.

| Component | State it keeps | Operations | What makes it correct | Modelled in |
|---|---|---|---|---|
| `Store` facade (`ai-store-core/facade*`) | one tokio Mutex per stream; everything else is in the backends | `append`, `import_event`, `append_if_head`, `revert`, `delete`, `state`, `state_at`, `prune_cache`; `streams_live`, `seq_at_time`, `read_by_meta` | no lost update; a state returned, cached or dispatched is the one the log replays to; gates judge the transition the log makes; every call returns; a listing is justified by some moment of the call | `StoreWrite`, `Catalogue` |
| Event log and cache (`ai-store-sqlite/backend.rs`, `ai-store-mem`) | rows (stream, seq, kind, patch); snapshots per seq | insert at max + 1, conditional insert, windowed read, head, boundary; put, nearest, prune | coordinates are never reused, gaps below a snapshot are tolerated | `EventLog` |
| Patches and replay (`patch.rs`, `state.rs`) | none | `replay_from`, the patch builder, `json_patch` | replay is deterministic and stops at the first failure | `Documents` |
| Compaction (`ai-store-sqlite/maintenance.rs`) | rewrites log and cache | `compact_stream` | no state at or above the boundary changes | `EventLog`, `StoreWrite` |
| Gates, upcasters (`kind_gate.rs`, `upcasting_backend.rs`) | none | `validate`, `upcast` | see the facade | `StoreWrite` |
| Sink dispatch (`dispatcher.rs`, `facade/lifecycle.rs`) | registry, checkpoints in memory and on disk, the "rebuilt" flags | live dispatch, `catch_up`, `rebuild`, `attach_sink`, `materialize_to_sink` | no event is skipped for good; each comes with its state; outputs are not behind their checkpoints; the report accounts for what was due | `SinkDispatch` (one stream, each await), `Backfill` (streams and stores) |
| Labels (`facade/labels.rs`) | label to seq | `label_set`, `label_delete`, `label_resolve`, callbacks | labels point at events; outputs agree with the backend | `Catalogue`; the files in `ProjectionFiles` |
| File projections (`ai-store-fileproj`) | files, an archive, the map of the combined file | `commit`, `on_label_set`, `on_label_deleted` | a crash leaves the old or the new file; nothing a label showed is lost; a restart truncates nothing | `ProjectionFiles`, `CombinedFile` |
| Read model (`read_model.rs`, `query.rs`) | a row per stream | guarded upsert; filtered, paged queries | a row is its stream's newest state; pages neither skip nor repeat; filters select what they say | `ReadModel`, `Filters`, `SqlValues` |
| Migration (`migration.rs`) | `user_version`, the tables, the append-only triggers | `apply` | the version promises nothing that is missing, an open store has its schema, guarded events stay | `Migration` |
| Wiring (`driver.rs`, `store.rs`) | the connection, the built store | `SqliteStore::open`, `shutdown` | nobody uses the file before its schema is complete | `OpenStore` |
| Blocking facade (`ai-store-sync`), names, builder | none of their own | delegation, construction | | not modelled |

How they interact. Every facade call is an async function that awaits the
backends. The sqlite backends run each call as one job of a single connection
thread, the memory backends under a mutex, so a backend call is atomic and
everything else interleaves at the awaits. Writes of one `Store` on one stream
are serialized by its Mutex, which is held through the dispatch to the sinks.
`state_at`, `catch_up`, `prune_cache`, the labels and `compact_stream` take no
lock, and two `Store` instances on one file share none. `SqliteStore::open` migrates the
file, attaches the read model and catches it up before it hands out the store.

What is hard: the four awaits of `state_at` against a compaction; the commit
and the cache put that follows it against other instances; a failure after the
commit; the live dispatch against `catch_up`, with checkpoints at two levels and
a crash anywhere; processes of different builds that migrate one file, each
going by a version it read once. `PROJECT.json` lists each hazard at its line.

## The modules

    Documents <- EventLog <- StoreWrite <- StoreRefinement     <- MCStoreWrite
                                 ^     <- StoreInvariant    <-----'
                                 |             ^
                                 `---- StoreWriteProofs
    VersionedDocument  (abstract; implemented by StoreWrite)
    SinkDispatch <- SinkDispatchProofs    (one sink on one stream)
    Migration <- OpenStore <- MCOpenStore (a file, its openers and their stores)
                   ^   `- Backfill        (catch_up over streams; an INSTANCE)
                   `- OpenStoreProofs
    Catalogue <- MCCatalogue              (labels, times, meta, live streams)
        ^- CatalogueProofs
    ProjectionFiles <- MCProjectionFiles  (the files of one stream)
        ^- ProjectionFilesProofs
    CombinedFile <- MCCombinedFile        (one file of all streams)
        ^- CombinedFileProofs
    SqlValues <- Filters <- ReadModel <- MCReadModel    (a table of all streams)
                               ^- ReadModelProofs
    NaturalSets        (lemmas on sets of coordinates, for the proofs)

**`Documents`.** A document is `Null` (the state of an empty stream) or an object,
given by its set of members. A patch replaces the root or removes and adds
members, and can fail to apply. `Step` is one iteration of `replay_from`; what
follows a failing patch is `Poison`.

**`EventLog`.** The log as a function from coordinates to events, and the backend
queries as operators on it: `Appended` (`MAX(seq) + 1`), `Window`, `HeadSeq`,
`Boundary` (the earliest event, if it is a snapshot), `Compacted`, and the cache
with `Put`, `Nearest`, `Pruned`.

**`StoreWrite`.** The facade over one stream. A task is a call in progress, `pc` the
await it has reached:

| `pc` | action | code |
|---|---|---|
| `lock` | `Acquire` | `stream_lock(..).lock().await` |
| `state`, `head`, `boundary`, `nearest`, `read` | `ReadHead`, `CheckHead`/`PastHead`, `CheckBoundary`/`BelowBoundary`, `LookUp`, `ReadEvents` | `Store::state`, `Store::state_at` |
| `replay` | `Replay`, `ReplayFails`, then what the state was read for | `replay_from` |
| | `Answer`; `RevertSource`, `RevertTarget`; `GateRejects`, `HeadConflict`, `Commit`; `CompactTx` | the caller of `state_at` |
| `reload`, `put`, `prune`, `dispatch` | `Reload`, `PutCache`, `PruneCache`, `Dispatch` | the rest of `write_event_locked` |
| any | `BackendFails`, `Drop` | `?` on a backend error; the future is dropped |

`goal` tells what the state is read for, `at` its coordinate, `acc` and `pos` the
document in hand. `history` and `floor` are history variables: every event ever
committed with the state it led to, as replayed today, and the largest
coordinate compacted. `Truth(n)` is the state after the n-th event; the
properties compare everything with it. `import_event` is `append` with other
timestamps and `delete` an append of a tombstone: both are in the menus as such.
A dropped future whose job is queued still has the job run: that is the job's
action followed by `Drop`.

**`VersionedDocument`, `StoreRefinement`.** A stream as its callers see it: the
states from some coordinate on. A write adds one, a compaction gives up the
oldest, no reachable state changes. `StoreRefinement` maps the persisted log to
it by replaying it (`Materialized`).

**`StoreInvariant`.** The inductive invariant `IInv`, and the two disciplines under
which it holds (`Serialized`); what more the proofs about the past need, and the
disciplines of theirs (`OwnKinds`, `OneCompactor`, `NoCompactor`).

**`SinkDispatch`.** One sink and one stream. The log is a set of coordinates and a
state is named by the coordinate it is the state of. Appends and their dispatch
hold the stream lock, so one process `Writer` makes them; `Callers` run `catch_up`,
`rebuild` and `attach_sink`. `memory` and `saved` are the two levels of the
checkpoint; `GetHit`, `GetSaved`, `Insert` are `checkpoint_get` (three steps: the map,
the backend, the map again), `Put`, `Advance` `checkpoint_advance`, `Reset`, `Zero`
`checkpoint_reset`. `Deliver` is `ProjectionSink::commit`, and `delivered`, `shown` what the
sink has taken and what its output reflects. `Guarded` tells `SqliteReadModel`
(whose upsert keeps the newer row) from the file sinks (which ignore the seq);
`Ephemeral` is `requires_rebuild_on_attach`. `Target` starts `materialize_to_sink`, which
goes the way of `catch_up` from `state_at` on and leaves the checkpoint alone.

**`Migration`.** The schema of a database file is the set of migration steps whose
objects exist; `version` is `PRAGMA user_version`. An opener reads the version once (`Open`) and
then runs the steps its build knows, each in a transaction (`Step`), so the steps
of two openers interleave, repeat and set the version back. `Close` is a failing
step or the end of the process. The file may be new, of the time before versions,
or left by any build, a newer one too. `Tamper` is another client of the file, which
the triggers of the last step deny; `held` is a history variable, the rows they have
guarded. `Compact` drops and creates the triggers, as `compact_stream` does, in its transaction.

**`Backfill`.** `catch_up` over the streams of a file, of several stores: the read model, whose
rows and saved checkpoints are in the file, which every store attaches when it is
built. `pc` is where a call is: `NextStream`, `GetCheckpoint`, `ReadBatch`, `TakeState` (`Fold` and
`Bootstrap`, the two arms of the match), `Apply` or `Refuse`. An event's patch applies
or does not (`bad`); a store without gates commits either. What `SinkDispatch` takes in
several steps (`checkpoint_get`, `checkpoint_advance`, a dispatch) is one step here. `ghost` says what a
report should account for. A write is `Prepare` (`state()`), `Commit` and `Dispatch`, one at a
time for each store.

**`OpenStore`.** The composition: `SqliteStore::open` runs the migration (`Migrate`), then attaches
and catches up (`Attach`), and then there is a store (`Use`, `Write`, `CompactStream`) until it
stops. It has the variables of `Migration`, and every action but those of `Backfill` alone is one
of `Migration`'s, which `OpenStoreProofs` proves: it is the abstract specification of what
stores may do to a file. `Write` and `CompactStream` are actions of both modules.

**`Catalogue`.** The tables beside the log, in both backends (`backend`). `label_set` is the change of
the table (`LabelSet`, with the check that the coordinate exists), `state_at` (`LabelState`), the read
of the event (`LabelEvent`) and the callback (`Tell`); nothing is locked in between. `streams_live`
is `ListStreams`, `ListHead`, `ListLast`. `ByMeta` is the query of SQLite and `ScanPage` the default of
the trait, which the memory backend uses. `SeqAtTime` is the order by time and
coordinate of SQLite, and the last coordinate in memory. `past` (every event ever
appended), `settled` and `ghost` are history variables.

**`ProjectionFiles`.** The files of `FileProjection` for one stream: the draft, one
label's file, the temporary file of each and the archive. A name refers to an
inode and an open file keeps its inode across a rename, which is what makes a
shared temporary file visible. Each step is one file system call: `Compare` is
`read_if_exists`, `CheckExists` and `Archive` are `archive_if_exists`, `Open`, `Write` and
`Rename` are `write_atomic` (`fs::write` truncates, then writes). `LabelSet` and
`LabelDelete` change the label in the backend (`pinned`, by the body of the state it
points at) and then call the sink; `Fail` is a failing call, a dropped future or
the end of the process between any two of them, inside `fs::write` too. What is
left out: power cuts (the code never calls `fsync`), the creation of directories,
and a write that goes on in the blocking pool after its future was dropped.

**`CombinedFile`.** `CombinedFileSink` under the dispatches of several streams (one writer
each) and one caller of `catch_up`. A body is the map it is rendered from, and
`hash` the body whose hash `last_written_hash` is. `Render` is the code from the Mutex to
the first await; `Write`, `Rename`, `KeepHash` are what follows, with the Mutex held.
`Refuse` is an error of `write_atomic`, `Drop` a future dropped at any await. `kept` is the
checkpoint, with one level where `SinkDispatch` has two. `clean`, `unhashed` and
`unreset` are history variables that name the exceptions of the properties.

**`ReadModel`.** `SqliteReadModel`: the guarded upsert (`Commit`, of any event committed so
far, again and in any order, which is all that dispatch, `catch_up` and
`materialize_to_sink` can amount to) and the queries. A stream is the rank of its name,
a state its one field: a JSON type and a rank in it (`SqlValues`, with the order SQLite
gives them). `Beyond` is the keyset predicate and `OnPage` the WHERE clause with it: a
filter that is a disjunction gets no brackets where `build_where` adds nothing to it
(`Unbracketed`), and the `AND` of the cursor then binds to its last part. `Pages` are the
rows of `ORDER BY` and `LIMIT`: where sort keys are equal it leaves the order open, as
SQL does. `ReadPage` is `query_with_count`, one job of the connection thread and so of one
snapshot; the reader passes the last row of a page as the next `after`, and may stop after any
page (`Close`). Left out:
`raw_where`, `offset`, `get`, `tail` and the check of field paths.

**`Filters`.** `Holds` is `build_filter` in the three truth values of SQL, where an absent field and a
null are both NULL; `Means` is what the documentation says a filter means. Both are recursive
functions over the filters of the queries and their parts, which the constant `Layers` has by their
depth; the parts of a conjunction or disjunction are a list, as in the code, because the last one
matters to `OnPage`. `HoldsBy` and `MeansBy` are what they make of a filter, given its parts.

Operators commented "Slip" are plausible mistakes; no definition uses them. The
entries under "mutants" in `PROJECT.json` put each in the place of the definition
it follows, and TLC then finds the named property violated.

## The runs

All bounds are constants. `MaxSeq` bounds new writes, not what they do.

| Run | Instance | Question | Answer |
|---|---|---|---|
| `store_writers` | two tasks, one Store, 3 events, stride 2, keep 1, gates, sink, failures, fairness | Is everything cached, returned, dispatched, gated, reverted to what the log replays to? Does every call return? | yes |
| `store_compaction` | appender without gates, compactor, reader; stride 1; an upcaster, a sink | Does compaction change a state it keeps? Is the invariant of the proofs right, by which cache, sinks and snapshots are in today's shape? | no; yes |
| `store_cas` | two Stores on one log, `append_if_head` only, failures | Does the conditional insert alone keep an update from being lost? (The rest is proved.) | yes |
| `sink_durable` | one caller, persisted checkpoints, guarded output, `materialize_to_sink`, failures, compactions, a crash; 3 events, batches of 2 | Can a checkpoint cover an event the sink has not taken? Can the output be behind it? Is a state wrong? | no; no; only after a compaction inside `state_at` |
| `sink_memory` | two callers, attach at run time, checkpoints in memory, a restart; 2 events, batches of 1; fairness | Does an attached sink get everything? Does `catch_up` end? | yes; yes |
| `label_files` | one caller commits, one sets and deletes a label; two bodies, four label calls, failures anywhere | Is an incomplete file ever visible? Is a state a label showed ever lost? Does the next successful call repair the label's file? | no; no; yes |
| `combined_file` | two streams, two states, a `catch_up` caller, failures anywhere, a restart; 3 events | Is the file ever incomplete? Does it show the map after a successful commit? Does a restart truncate it? | no; yes; no |
| `read_model` | three streams, events with texts, numbers, nulls and no field, a deletion; five queries; 3 events | Does a row go back? Does a listing have each untouched row once? Is the count right? Do filters select what they say? | no; yes, but for ties and NULLs, and repeats where a disjunction has no brackets; yes, with the same exceptions; yes |
| `opening` | two openers of one file: the newest build, which catches up, rebuilds and compacts, and the one before the triggers, which writes; two streams, 3 events, one failure or stop; files of every age | Does the version ever promise too much? Is a schema used that is incomplete? Do the triggers keep the history? Does `catch_up` skip an event, or misreport? | no; no; yes; no, but for the underflow below |
| `catalogue` | two callers, one label, both backends; 3 events of two times, deletions, compactions; pages and limits of 2 | Does a label dangle? Does the sink agree with the table? Are the answers those of the log? | no; once no calls overlap; yes, but for a compacted tombstone |
| `read_during_compaction` | reader, compactor | Is a state below the boundary always refused? | no |
| `page_ties` | three streams of equal times, pages of one row | Does paging list every untouched row once, ties included? | no |

Why the bounds are enough. One optional member gives three documents (null,
empty, non-empty) and patches that create, add and fail. Three events are enough
for a cached state, a snapshot and an event on either side of it, for a gap in
front of a checkpoint, and for a batch boundary of `catch_up` (batches are 32 in
the code, 1 or 2 here). Strides 1 and 2 make every event, or every other one,
a cache hit. Two tasks race at every await; the properties relate at most two
calls and, with compaction, a third. In `label_files` two bodies make a repeated
and a changed rendering, four label calls a set, a failed one, a delete and
another set; there are more inodes than names, archived files and open files together
(`InodesAssumption`), so `Open` never runs out. In `combined_file` three events let one stream leave a state and
come back to it, which is when skipping a write matters, beside another one. In
`read_model` pages of one and two rows over three streams give every position of a
cursor between rows that move. `MaxListed` bounds the listings of an unbracketed
disjunction, which may never end: with 5 it goes on for at least three pages, and may end with
repeats or without. It binds no other listing: each lists a version of a row at most once, and
here are three. In `opening` the fourth step is the last, as in the code,
and an opener of the build before it meets files of every version, so that a step is
run twice, late, or against a version that was set forward or back; two streams
are enough for one that fails beside one that does not; batches are of two events
and the report counts modulo 64 in the place of 2^64. In `catalogue` two times give events of
one millisecond and of two, and three events a page that is full and one that is not.
`MaxFaults` bounds the failures and stops of `Backfill`; migrations may fail at any time.

Deadlock is checked in every run but `label_files` and `opening`. The label calls of `label_files`
end with `MaxClock`: the caller for the label may then have nothing left to do. In
`opening` a file that is newer than a build refuses it for good, and with the bound on
failures used up a writer's store has nothing left to do after the last event.

Fairness. `store_writers` assumes that a task whose backend call is answered goes
on (weak fairness of its steps) and that the lock is handed over in the order of
arrival, as tokio's Mutex does (strong fairness of `Acquire`). `sink_memory` assumes
only the first, of a sink that answers; no caller has to make a call. Failures
and dropped futures may happen at any time in `store_writers`, in `sink_memory` only a
restart, because a sink that fails for ever gets nothing.

## What the violations show

1. `read_during_compaction`. `state_at` checks the boundary, then looks up the cache
   and reads the events. A compaction in between leaves it nothing to replay and
   it returns `Ok(null)` or an older cached state, where the documentation
   promises `SeqCompacted`. `revert` inherits it and can commit a wrong state;
   `catch_up` does too, and hands wrong states to the sink (`RightState` says how
   far this goes: only from a compacted event on).
2. `page_ties`. The cursor compares the sort key and then the stream, `order_clause`
   sorts by the key alone. A page that ends on the later of two streams with equal
   keys makes the next one skip the other.

Other disagreements met while modelling, without a run of their own. The steps
that lead to most of them are in the models:

- Two `Store` instances on one file that use `append`: the state put in the cache is the one
  computed before the commit, and another instance's commit in between makes it
  wrong for good, although `write.rs` says that it "has to match what `state_at` would
  reconstruct" (`CacheSound` with `TwoHomes` and the menu of `store_writers`).
- `catch_up` checks the checkpoint once and holds no lock: its commit of event n can follow the
  live one of n + 1, which then moves the checkpoint to the head. A sink that
  ignores the coordinate (the file sinks) is left with the older state, although
  `lifecycle.rs` says that the order within a stream is preserved.
- An error of `state_at` (a compaction that overtakes the batch, a patch that does not apply)
  is returned by `?` and ends `catch_up` (`Bootstrap`): the streams that come later go without
  their turn, although `lifecycle.rs` says that "Every other stream is still driven to
  completion in the same call". `OkMeansDriven` is of the calls that return `Ok`. One such event
  in a stream makes every later `SqliteStore::open` of the file fail, if the read model has not
  passed it.
- `head.0 - ev.seq.0` underflows for an event that was appended after the head was read, came
  with the last batch, and fails: the count of skipped events wraps, or a debug
  build panics (`Rest`). `ReportAccounts` needs `over` for this reason.
- An older build that read the version early opens a file that a newer one has
  upgraded meanwhile, and sets `user_version` back (`Open`, `Step`), although `migration.rs` says that it
  rejects such files. `VersionCovered` and `OpenHasSchema` hold nevertheless; the newer build's
  steps run again at its next open and find everything there.
- `label_set` returns an error (`SeqCompacted`) although the label is set, when a compaction
  comes between the two (`LabelState`, `GiveUp`).
- Two overlapping calls for a label may reach the sink in the other order than the
  table, and nothing repairs that but the next call; `OutputAgrees` needs `settled`.
- In the memory backend a rejected `label_set` on an unknown stream creates an entry, so
  `Store::streams` lists a stream without events, which `read.rs` says it does not
  (`LabelRejected`).
- A compaction that another has overtaken in `compact_stream` gives the snapshot the time of
  the other's, which is later than that of the event it stands for.
- Between the reset of a checkpoint and its next read a live dispatch can restore the
  old one (`GetSaved`, `Insert`), and so does a failing put that the reset ignores: the
  rebuild then has nothing to do, and the sink counts as rebuilt. `NothingTruncated`
  needs `unreset` for this reason.
- The temporary file is named after its target only. `catch_up` takes no stream lock, so
  its `commit` can run beside a live one (or two `label_set` calls beside each other):
  one truncates the file the other is about to rename. `CombinedFileSink` has a Mutex.
- A future dropped between the rename of the combined file and its new hash leaves
  the older hash: a later commit that renders the older body is skipped, and its
  checkpoint advances. `FileShowsMap` needs `unhashed` for this reason.
- `build_where` puts the filter in brackets only where it adds a raw clause or `live = 1` to
  it. With `include_dead` a disjunction stays `(a) OR (b)`, and with the cursor it is
  `(a) OR (b) AND (keyset)`: the rows that match `a` are on every page, and where they fill a
  page the listing never ends, although `query.rs` says of the cursor "Combine with any `filter`"
  and that it is "an extra `AND` predicate" (`Unbracketed`, `OnPage`). `ListedOnce` and
  `CountAgrees` promise for such a query only that no row is skipped; without that exception
  both fail in `read_model`, whose fifth query is one.
- A page that ends on a row whose sort key is NULL ends the listing, and such rows
  are on no later page. A row that is rewritten and moves ahead of the cursor is
  skipped, although `query.rs` says that never happens.
- Comparisons of mixed types match by the order of SQLite's types, and the negation
  of a comparison with an absent field matches nothing, where `query.rs` promises "no
  match" and a plain negation.
- A `Busy` from the cache put, the prune or the read-back is returned for an append
  that is committed, although `error.rs` says the operation did not proceed; the
  advice to retry then appends twice, and the sinks miss the event until `catch_up`.
- `compact_stream` at a tombstoned head makes the tombstone a snapshot, so the stream
  counts as live again (`LiveIsJustified` excepts this).
- Two overlapping compactions move the boundary back.
- `append_if_head` below the boundary returns `SeqCompacted`, not `HeadConflict`.
- `catch_up` of an unregistered id marks it rebuilt, and a compaction between a
  tombstone's commit and its read-back hides the tombstone from the sinks.
- A label callback that failed is never driven again, although
  `ai-store-fileproj/lib.rs` says the facade retries it "via its checkpoint machinery":
  after a failed delete the file of a label that no longer exists stays.
- Two changes of one label within a millisecond archive to the same name.
- A label named "draft", which `labels.rs` has as an example of a name, shares `draft.md` with
  the current state of its stream: each overwrites the other's file, and deleting the label
  archives it. `ProjectionFiles` is of a label with another name.

## The proofs

`NaturalSets` has the facts about sets of coordinates that several proofs need (least and
greatest elements exist; what a query with a limit gives). The theorems are in
seven further modules and hold for every value of the constants that satisfies the named
assumptions, which TLC evaluates on every run:

| Module | Theorem | Statement |
|---|---|---|
| `StoreWriteProofs` | `Inductive` | `Spec => [](IInv /\ ConditionalInv)` |
| | `TypeCorrect` | `Spec => []TypeOK` |
| | `CacheIsSound` | `Spec => []CacheSound` |
| | `ReadsAreSound` | `Spec => []ReadsSoundAboveFloor` |
| | `DispatchIsSound` | `Spec => []DispatchSound` |
| | `NoUpdateIsLost` | `Spec => NoLostUpdate` |
| | `GatesHold` | `Spec => []GatedHistory`, without upcasters |
| | `StoreImplementsDocument` | `Spec => ImplementsVersionedDocument` |
| | `ReadsAreExact` | `Spec => []ReadsSound`, without compactions |
| | `RevertsRestore` | `Spec => []RevertRestores`, without compactions |
| | `BoundaryHolds`, `NothingCompacted` | what these rest on |
| `SinkDispatchProofs` | `SinkSound` | `Spec => []IInv` |
| | `SinkSkipsNothing` | `Spec => []NothingSkipped` |
| | `SinkOutputCovers` | `Spec => []OutputCovers`, for a guarded output |
| | `StatesAreRight` | `Spec => []RightState` |
| | `SinkTypes` | `Spec => []TypeOK` |
| `OpenStoreProofs` | `MigrationSound` | `MigrationSpec => []MigrationInv` |
| | `NoStepSkipped` | `MigrationSpec => []VersionCovered` |
| | `SchemaComplete` | `MigrationSpec => []OpenHasSchema` |
| | `HistoryStays` | `MigrationSpec => []HistoryKept` |
| | `ImplementsMigration` | `Spec => MigrationSpec` |
| | `FileSound` | `Spec => []VersionCovered /\ []OpenHasSchema /\ []HistoryKept` |
| | `UsersSound` | `Spec => []UsersHaveSchema` |
| | `StoresSound` | `Spec => []StoreInv` |
| | `CheckpointsAreCovered` | `Spec => []CheckpointsCover` |
| | `OkIsDriven` | `Spec => []OkMeansDriven` |
| | `CountsSound` | `Spec => []CountInv` |
| | `ReportIsExact` | `Spec => []ReportAccounts` |
| `CatalogueProofs` | `Inductive` | `Spec => []IInv` |
| | `LabelsNeverDangle` | `Spec => []LabelsPoint` |
| | `SinkHearsTheEvent` | `Spec => []NotifiedEvent` |
| | `SinkShowsTheLabel` | `Spec => []OutputAgrees` |
| | `ListingIsJustified` | `Spec => []LiveIsJustified` |
| | `ScanIsAQuery` | `Spec => []ScanLikeQuery` |
| | `TimesAreFound` | `Spec => []TimeAnswers` |
| `ProjectionFilesProofs` | `FilesHold` | `Spec => []FilesInv` |
| | `NoPartialFile` | `Spec => []ReaderSeesWhole` |
| | `NothingForgotten` | `Spec => []HistoryPreserved` |
| | `FileIsTheLabels` | `Spec => []FileMatchesLabel` |
| `CombinedFileProofs` | `Inductive` | `Spec => []IInv` |
| | `FileStaysWhole` | `Spec => []FileIsWhole` |
| | `FileFollowsMap` | `Spec => []FileShowsMap` |
| | `NothingLost` | `Spec => []NothingTruncated` |
| `ReadModelProofs` | `RowsAndPlacesHold` | `Spec => []PInv` |
| | `RowsNeverGoBack` | `Spec => []RowIsNewest` |
| | `PagingIsExact` | `Spec => []ListedOnce` |
| | `CountsAgree` | `Spec => []CountAgrees` |
| | `FiltersAreSound` | `Spec => []FilterSound` |
| | `FiltersMeanWhatTheySay` | on a field that is there and not null, the SQL of a filter is true or false as the filter says |

**StoreWrite.** Assumption: `Serialized`, that is, either all tasks call one Store, or there are
no upcasters and no task appends unconditionally or reverts. Two instances that
append show it cannot be dropped (see above).
What a task carries across an await is of two kinds. A state of a
past coordinate stays right by itself, because `history` only grows: `ReadInv` and
`CommittedInv` say of every `pc` which coordinate the document in hand belongs to.
That the coordinate is the newest one is protected by the lock (`LockInv`), or
checked again by the transaction (`HeadMoved`). Replay is the interesting part:
the events in hand may have been read across a compaction, so `Leads` does not say
that they continue the document in hand, but that from some point on, at hand or
about to be reached by a snapshot, there is no gap. This holds whenever the
coordinate wanted is not below `floor`, which is why `ReadsSoundAboveFloor` can be
proved and `ReadsSound` is false. `LogInv` ties the log to `history`: from `floor` on every event
is there and leads from one state to the next, and the event at `floor` is the
snapshot of its state. None of the properties is inductive without these.
The proof has one lemma per action (`LookUpStep`, `ReadEventsStep`, `CommitStep`,
`CompactStep`...), each stating that it keeps `IInv`; `TaskFrame` and `QuietStep` deal with
what an action leaves alone.

**The past.** What callers see of it, by `IInv` and more:
- `StoreImplementsDocument`: the persisted log, replayed, is a `VersionedDocument`. The mapping
  replays the log from its boundary, so what is needed is that the rows are just the
  events from `floor` on (`BoundaryInv`) and lead from one state to the next (`LogInv`); the least
  coordinate at which the recursive function that replays them differed from `Truth` would
  contradict its own equation (`MaterializedIs`), which is where an induction would be. A commit is a
  `Write`, the transaction of a compaction a `GiveUp` of the oldest states, and everything else a
  stutter. Two disciplines are assumed. `OwnKinds`: callers do not append events of the kinds
  `revert` and `compacted`, of which `facade.rs` says that "the maintenance path is the only
  writer". `OneCompactor`: compactions of a stream are made by one caller; one that is overtaken
  moves the boundary back, and old states come back with it.
- `ReadsAreExact` needs that nobody compacts (`NoCompactor`): beside a compaction `ReadsSound` is
  false, as the run `read_during_compaction` shows, and `ReadsSoundAboveFloor` is what is left.
- `RevertsRestore`: while a revert holds the lock, the two states its patch is made from are the
  current one and the target's (`RevertInv`), so the patch leads from the one to the other; and in the
  transaction the current one is still current. Also with `NoCompactor`: `revert` inherits the race of
  `state_at`.

**SinkDispatch.** That a checkpoint covers only what the sink has taken is not
inductive: a checkpoint comes from a position some process carries across its
awaits, and what justifies that position must hold while the others go on. `Fit(c)`
is what makes c a sound checkpoint: every coordinate up to c has been delivered
or compacted away, and a guarded output shows c or later. It is stable, as outputs
and the boundary only grow (`FitKept`), so it may be said of a position in hand: `WriterSound`
and `CallerSound` say at each await which position is `Fit`, and which event is the next
one after it. For `catch_up` the latter needs the batch in hand to be without gaps
(`Follows`), and that needs the log to be so (`Gapless`). A live dispatch moves the checkpoint
only when it is contiguous, so `Fit` of the old one and the delivery of the event
make the new one `Fit`. Assumption: not both `Ephemeral` and `Persistent`. A crash takes the output
of a sink that keeps it in memory and leaves its saved checkpoint, which then
covers what is lost; `requires_rebuild_on_attach` is there for that, and `CombinedFile` models it.
`RightState` needs to know whose state is in hand. `StatesInv` says, at each await, that it is the
state of the cursor or of the event in hand, unless there is an excuse (`Excused`): a wrong state
delivered earlier, or about to be, of an event that has been compacted. Patching forward
keeps that only when nothing is missing from the batch, but for the step to its
snapshot (`NoGap`, again from `Gapless`). Excuses last, because neither `delivered` nor the boundary goes back
while the process lives, and a crash that takes the output leaves no wrong state in it either.

**Migration.** `OpenHasSchema` is not inductive: an opener goes by a version it read before others
changed it, and is right because tables are never dropped. `OpenerSound` says what it
knows wherever it is: the steps before its next one are all there. With it, setting
the version to the step just run keeps `VersionCovered`, even when that is further back.
`RowsSound` says that rows are guarded, and snapshots made, only where the triggers are, that
the snapshot's row stays and is the first: so that no compaction by an opener with an
older view removes more than it should. It and `HistoryKept` are invariant
together. `TriggersBack` is why a step that runs while another store compacts finds the triggers.

**OpenStore.** `ImplementsMigration` is a refinement proof: the initial state is one of `Migration`, and each
action is a step of `Migration` or leaves its variables alone. The theorems of `Migration` then hold
of processes that catch up, write and compact as well (`FileSound`). `UsersSound` needs one more
invariant, `UsersOpen`: whoever has a store, is building one or has a write under way has the file
open. `StoreInv` is that of the backfill, for any number of stores and streams. `Covered(s, c)` is what makes c a sound
checkpoint of the stream s; the saved one, those the stores remember and the cursors of calls in progress are all
`Covered`, and it is stable because coordinates are not used again and rows only go (`Grows`,
from the invariant of `Migration`). `BatchSound` says that a batch read earlier still has every row after
the cursor, up to its last. `Accounted` says of each stream that it is to come, is being driven, has
failed, or was driven as far as it went when the call began: `OkMeansDriven` is its case at the
return.
`ReportAccounts` is about sums over all streams a call has driven, of which each step changes one
term (`CountInv`). `Balanced`: what was due is counted, or is among the rows between the cursor and the head the
call read (`Pending`). Where it begins with a stream and where it gives one up after a failure, the code subtracts
coordinates; without gaps the difference is the number of rows. That the subtraction is also right modulo
`Wrap` needs a bound on a sum that crosses streams: what is skipped is no more than
the coordinates of the streams whose turn is over (`FewSkipped`), which are pairwise distinct pairs
of a stream and a coordinate, and there are at most `MaxEvents` of those. That is why `MigrationAssumption` has finitely
many `Streams`, no more than `MaxEvents`: a file may have an event in each when it is found.

**Catalogue.** `IInv` ties the rows to `past`: they are the events from the boundary on, each in its place and
with its time, and the row of the boundary is a snapshot with the time of the event it replaced
(`LogInv`). What a call carries across an await is about coordinates, and what is at a coordinate does not
change: `LabelInv` and `ListInv` say for each `pc` what was so when the call looked. `ScanInv` is the
loop invariant of the paged scan: what it has are all the matches below its cursor, also of the
events appended since it began. The memory backend does not compact, so no page can miss one.

**ProjectionFiles.** `FilesInv` is about the names of inodes: no inode has two names and none that has one is
archived (`NamesApart`), so a write through an open file cannot reach what a reader opens by
its final name; and a call that renames over the label's file has archived what was there, under a
time nothing else has (`CallerSound`). Assumption: `Serialized`, that is, one caller commits and one moves the label.
Two overlapping calls on one file share its temporary file, which is the disagreement
above. `InodesAssumption`: a file can always be created. That the inode is a new one is a
counting argument (`ProjectionFilesProofs` has it as lemmas on the images of finite sets).

**CombinedFile.** The Mutex is held from the insert into the map to the new hash (`MutexInv`), so a
file being written is of the map as it is, and the hash is that of the file but for the await
in which it is about to be (`FileInv`). `RebuildInv` is why a restart truncates nothing: while the first `catch_up` of
a process is under way, each stream it has passed either has its section in the map or no
checkpoint, and before that nothing else may be said. The exceptions are the history
variables `unhashed` and `unreset`.

**ReadModel.** A row is what the newest delivery of its stream made of it (`RowInv`), because the
upsert compares coordinates. A listing is right by where it is (`PlaceInv`): each untouched row that matches has been listed
or is beyond the cursor, and still to come; where the cursor holds for all rows it is
one or the other, and listed once (`Placed`). A page keeps that because the rows it is taken from (`Offered`) have all that match
beyond the cursor, and nothing else unless the clause is an unbracketed disjunction (`OfferedIs`), and because its rows come
before all others of them, but for rows that tie with the last one, which are the
exception of the property; that the order of the rows is total on rows with a key follows from the
order of SQL values. `CountsAgree` turns the list into a map from its places onto the rows, and a
bijection where no row is repeated.
`FilterSound` is a matter of the values rows can have (`TypeOK`) and of `FiltersMeanWhatTheySay`. A
recursive function is only known to satisfy its equation if some function does, so `Solvable`
makes one for `Holds`, `Means` and `Typed`, layer by layer. Of the filters that are not translated to
what they say, one in the lowest layer would have parts that are. On a field that is there and
not null no comparison is unknown, so the three truth values are two. Assumption
(`FiltersAssumption`): the parts of a filter are in lower layers, of which there are finitely many.

Only model-checked: all liveness, which the provers cannot do. Every safety property of the passing
runs is the conclusion of a theorem, under the disciplines named above.

## Not modelled, and why

- The blocking facade: each call is that of the async `Store` on a runtime. Its sink
  adapter moves a callback to another thread; a write that goes on there after
  its future was dropped is left out of `ProjectionFiles` too.
- The pragmas at the start of a connection, in-memory databases, and the job thread
  itself, which is why a backend call is one step.
- `accepts`, several sinks of one store (they share only the loop that visits them)
  and the observer of failures.
- Meta beyond the one predicate of `Catalogue`; that the two backends compare JSON numbers
  differently is not told apart. That the memory backend refuses `append_if_head` is
  not modelled either.
- Events of kind `compacted` appended by a caller: the kind is reserved by
  documentation, and the menus respect it.
- JSON itself: arrays, nesting, escaping, number formats.
- Names, errors, the builder: they have no state.

## Plan

1. Done: every model above, and the proofs of all safety properties of the passing runs.
2. The blocking sink: callbacks that outlive a dropped future, for the file sinks.
3. `raw_where` and `offset`, and what `get` and `tail` answer beside a write.

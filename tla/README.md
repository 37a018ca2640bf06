# Tower simulator: TLA+ models

TLA+ models of the parts of this repository that have state, order and
control: the Boss Waves calculation (which waves of a run the tower survives),
the query machinery it reads its numbers from, and what surrounds both: caches,
the input overlay, the files a run publishes. Every module is translated from
the Python source; `PROJECT.json` maps each definition to the lines it stands for.

## The system

The layers are those of `ARCHITECTURE.md`: inputs produce runtime state, the
knowledge base owns truth, QE resolves stats, simulators project outcomes,
evaluators score them, advisors recommend, the app orchestrates. It is a batch
program with a Streamlit front end: one caller runs each computation to its end.
There are no threads of its own, no messages and no network. What is hard is
inside the computations: long loops that carry fractional remainders, indices
and candidate lists from iteration to iteration; results of one stage read by
another under a different rule; passes that visit surfaces in an order the
resolvers do not state; caches that outlive what they describe; a directory that
a killed run leaves half written; and input files edited while they are read.

| Component | State it keeps | Operations | Talks to | Hard behaviour | What makes it correct |
|---|---|---|---|---|---|
| Input (`input/`) | frozen account state, raw sections | parse CSV and YAML, apply overlays and presets | read by app and QE | four records of one bot, patched one after the other and read by later steps | the surfaces say what the overlay says and nothing else changes |
| Run plan (`qe/run_plan.py`, caller in `app/pipeline.py`) | frozen `RunPlan` | choose decay inputs, clamp, compile | filled by app, read by Table 1 | start wave and schedule chosen in different places | what is compiled is what was chosen |
| Table 1 (`qe/run_plan.py`) | levels, skip counters, carries, rotation indices, rows | `build_common_trajectory` | rows read by the combat kernel | fractional carries over thousands of waves; a candidate list kept current by hand | conservation, independence of the grid, coverage of the boss waves |
| Perk timeline (`simulators/perk_timeline_*.py`) | pool, counts, last wave, stacks, rows | generate from policy, state at a wave, schedule for Table 1 | read by app, Table 1 | retroactive requirement perk, first choice written over an offer | legality, order, agreement of the readers |
| Combat kernel (`simulators/evaluator_kernel.py`) | boss health, damage ledger, clocks, wall of three lanes | one row of Table 2 | reads Table 1 rows, verdicts read by the scan | damage sources that meet at one instant; two verdicts computed apart | ledger, clocks, one verdict implies the other |
| Boss Waves scan and matrix (`app/pipeline.py`) | end wave under trial, operator rows, failure record, summaries, cells | try growing end waves, evaluate rows, stop, summarise, limit, align; choose presets, certify | reads kernel, published | early exits, ambiguity, stages that rewrite the same fields | the answer is that of one scan of the whole run; the certificate holds of each cell |
| Query kernel (`qe/kernel.py`, `routing.py`) | pending surfaces, resolved rows | one query: closure, passes, finalisation, reply | reads registry, read by all of QE | rows needed before they are settled; answers that depend on what else was asked | a settled row is what its inputs' rows make it |
| Dependency registry (`qe/dependency_registry.py`) | graph | load, closures, order | read by query kernel, deltas | cycles, duplicate edges, sets iterated in hash order | closures least, order a function of the set |
| Checkpoint deltas (`qe/routing.py`, `snapshot_resolver.py`) | snapshots of consumer bundles | resolve in full, resolve as a delta | reads registry | rows taken over from an older snapshot | a delta is a full resolution |
| Process caches (`app/pipeline.py`, `qe/models.py`) | bundles, compiled inputs, LRU of primitives, snapshot ids | look up, insert, evict | shared by all calls of a process | keys that are addresses or file stamps | a hit returns what a recomputation would |
| Publication (`app/publication.py`, `app/run_stats.py`) | output directory | remove old files, write one after the other, stamp | read by the inspector | a failure or a kill in between | what the last-written files vouch for is there |
| Progression bridge, timing, evaluators, advisors, inspector | none that steps, or no caller | recalculate, integrate, compare, rank, format | read artefacts | text, tolerances, closed forms | not modelled, see below |

One Boss Waves calculation runs through the components in this order: the
caches give the account state the input layer built, the query kernel resolves
its surfaces in the registry's order, the perk timeline gives a schedule of perk
counts per wave, the run plan freezes the inputs, Table 1 turns them into one row
per checkpoint boss, the combat kernel evaluates each row, the scan sums the rows
up, the milestone matrix asks for such sums at growing end waves, and what
comes out is published file by file.

## Modules

| Module | Code | State and actions |
|---|---|---|
| `RunPlan` | `qe/run_plan.py`: `compile_run_plan`, grid, clamps, skip decay, wall HP; the Boss Waves caller `app/pipeline.py:7527-7554` | operators only |
| `CommonTrajectory` | `build_common_trajectory` and its three inner loops | the loop's locals; `BeginRow`, `AdvanceWave`, `Generate`, `AllocateOne`, `LeaveOne`, `CloseCategory`, `EmitRow`, `FinishTable`: one action per iteration |
| `PerkTimeline` | `generate_timeline_from_policy`, `perk_state_at_wave`, `_boss_wave_perk_counts_by_wave` | pool, counts, wave, stacks, rows; `TakePerk`, `Finish`; the readers are operators on the rows |
| `BossFight` | `simulators/evaluator_kernel.py`: one row of Table 2; timed-multiplier helpers of `simulators/timing.py` | boss health, damage breakdown, clocks, walls; `Cannon`, `Orbs`, `Electrons`, `Approach`, `Contact`, `ContinuousKill`, `PastHorizon`, `WallHit`, `WallDone` |
| `WaveSummary` | the summary of a scan and the stages that rewrite it: missing contact, limits, references (`app/pipeline.py`) | operators only |
| `BossWaveSearch` | `_build_boss_wave_payload_for_matrix_candidate`, the scan | end waves to try, rows, failure record, summary; `BeginPayload`, `EvaluateRow`, `AmbiguousRow`, `EndOfTable`, `Summarise` |
| `MilestoneMatrix` | `build_boss_wave_milestone_matrix` and its certification | candidates of a cell, rows, certificate; `BuildCandidate`, `PublishCell` (choice and alignment), `Certify` |
| `SurfaceResolution` | `StatQueryKernel.resolve_surfaces` and `_resolve_bucket` | call, queue of a pass, pending, rows, reply; `Begin`, `Refuse`, `Attempt`, `AttemptMixed`, `SkipSettled`, `EndPass`, `Finalise`, `Reply` |
| `DependencyRegistry` | `qe/dependency_registry.py` | ledger, worklist, indegrees, order; `Load`, `Ask`, `Pop`, `Close`, `BeginSort`, `Take`, `Complete`, `Raised` |
| `CheckpointDelta` | `resolve_checkpoint_consumer_bundle(_delta)`, `_plan_checkpoint_overlay_mutation`, `snapshot_resolver.py` | the snapshots; `Full`, `Delta` |
| `AccountStateCaches` | the bundle caches, compiled inputs, primitives LRU, snapshot ids | caches, heap, file versions, call; hit, miss, the two reads, build, derive, store, checkpoint; `Edit` |
| `InputPromise` | what a query promises: an answer from contents the files had while it ran | `Edit`, `Ask`, `Tell`, `Fail` |
| `OutputDirectory` | `execute_pipeline`, `RunStatsSession.execute`, `run_analysis_pipeline`, `app/run_analysis.py`, `app/publication.py` | files with the run they are of, remaining program; remove, open, write, stamp, raise, `Crash` |
| `BotProgression` | `input/state_builder.py`, `ids_parser.py`, bots in `qe/stat_input_compiler.py` and `routing.py` | the account under construction; scan of a row, selection, patches, labs, cards |
| `MC...` | small instances of each, run by the `.cfg` files | |
| `..._proofs` | theorems and their lemmas | |
| `DataLemmas` | the lemmas about sums, finite sets, sequences and orders that several proofs need | |

Eight modules hold the theorems. `CommonTrajectory_proofs` (with `RunPlan`),
`PerkTimeline_proofs` and `BossFight_proofs` are about the module they are named for;
`BossWaves_proofs` is about `WaveSummary`, `BossWaveSearch` and `MilestoneMatrix`,
`SurfaceResolution_proofs` about `SurfaceResolution` and `BotProgression`,
`DependencyRegistry_proofs` about `DependencyRegistry` and `CheckpointDelta`,
`AccountStateCaches_proofs` about `AccountStateCaches` and `OutputDirectory`. Where two
modules share a proof module, the second has prefixed names (`DirInit`, `DeltaNext`,
`MatrixSpec`, `BuildSpec`, ...).

How they fit together:

- `CommonTrajectory` extends `RunPlan`: the plan it steps through is compiled from
  any input in `Scenarios`, so the caller's choices are part of every behaviour.
  It meets `PerkTimeline` in `ScheduledAt`, the lookup Table 1 makes.
- `BossWaveSearch` takes each row's verdict as given. That only four verdicts
  exist, because a row that survives hit by hit survives the contact envelope, is
  `SurvivesThenEnvelope` of `BossFight`, which is proved.
- `BossWaveSearch` and `MilestoneMatrix` extend `WaveSummary`. The matrix takes each
  candidate to be its `FullSummary`, what one payload over all rows would say. That the
  search answers so is `EarlyExitsAgree`, checked and proved.
- `AccountStateCaches` implements `InputPromise` (`Promise == INSTANCE InputPromise
  WITH ...`, checked as `AnswersAreFresh`): the abstract specification knows of no
  cache, only of files that change and of answers.
- `SurfaceResolution` resolves in an order with the properties `OrderSound` states
  of `DependencyRegistry`, and leaves open how ties are broken; `CheckpointDelta` uses
  the closure that `ClosureIsLeast` states to be the least one.

Operators named as mutants in the modules are small defects of the definition that
follows them. They are not part of the specifications; substituted for that
definition, each breaks the property `PROJECT.json` pairs it with.

### Abstractions

- Floats are exact: fractions are whole numbers of `Unit`-ths. The code's guard
  terms (`1e-12` and the like) exist to undo rounding that the model does not have.
- `BossFight`: a kill between two ticks is put at the second tick; the three lanes,
  which never read each other, are stepped together; damage by a total percentage is
  one strike.
- `PerkTimeline`: an offer is any sample of the pool, a superset of what the seeded
  generator draws.
- `CommonTrajectory`: the candidate list is the set of its positions in the track
  order, of which it always is a subsequence; level tables are small functions that grow.
- `BossWaveSearch`: a row's verdict does not depend on the end wave, because the
  loop of Table 1 only looks back; the flame-bot re-evaluation of a row is part of its
  verdict; the pre-contact lane is summed like the other two and left out. An
  explicit limit that the reference is above is overridden by it, as the documents say.
- `MilestoneMatrix`: milestone mode, so no decay input is required and the unified model
  needs no bridge. The annotation of capped bests, hints, samples, comparison with
  earlier matrices and the display of "+" are left out.
- `SurfaceResolution`: a row's value is the set of surfaces that contribute to it, `{}`
  for zero, and no value for a row not resolved. The order of ties in the registry is
  left open. `UsesDeclared`, `MirrorsDeclared`, `SpellingsAgree` and `UnlocksAgree` are facts
  of the ledger and compiler that are shipped; the coin-kill-multiplier mirror is in no published family and left
  out, and so is the wording of traces.
- `CheckpointDelta`: a row is the levels of the tracks it depends on; contributors and
  trace go with it. Levels that do not validate, and changes that change nothing,
  raise before anything is stored and are left out by a guard. Diagnostics are left out.
- `AccountStateCaches`: each edit gives a file a new stamp and a new content; files are
  not restored with an old stamp. A snapshot id is a digest of content. Free addresses
  no cache knows anything of are alike, and one stands for all (`Offered`).
- `OutputDirectory`: files that are written one after the other and removed together
  share a name; removals of legacy names and residue reports, which are in no removal
  list, are left out. One run at a time, since the code has no lock.
- `BotProgression`: a surface is what is added up in it, not a number; every import has
  a flag per bot, and every level is in the tables. The global range bonus and tower
  amplification are "derived"; the Bot + rows, dissonance, lab adjusters and presets of
  the loadout are left out. The export shipped as `input/imports/ids.csv` has a newer
  layout on which `parse_ids` raises; the modelled layout is that of `out/account_state.json`.

## Runs

Properties that belong together are checked as one conjunction of named parts.

| Run | What it shows |
|---|---|
| `common_trajectory` | Table 1: the two fractional recurrences lose nothing (`RecurrencesExact`); the allocation conserves and is, at every step, the stepwise rule (`AllocationExact`); levels, totals and rows tell the same upgrades (`UpgradesConserved`); over the rows the rotation favours no track while none is full, and within a row none of those that stay open (`RotationBalanced`); the rows are the thinned boss waves of the scope, in order and each once (`RowsCoverBossWaves`); wall HP never drops, decay never recovers (`RowsGoOneWay`) |
| `perk_timeline` | every timeline any draw can give is legal (`PicksLegal`), in wave order under the retroactive requirement perk (`DueInOrder`), and read alike by its two readers (`ReadersAgree`) |
| `boss_fight` | damage is accounted for, point by point of the boss's loss (`DamageConserved`; that continuous damage is dealt twice is a matter of `continuous_twice`), deaths and hits are of one clock (`KillsAndHits`), lanes and verdicts are ordered (`VerdictsOrdered`), the end margin decides a lane (`WallNeverRecovers`), every row is resolved or ambiguous (`Terminates`) |
| `continuous_twice` | violated: continuous damage of the approach is dealt a second time by the contact loop (`ContinuousDealtOnce`; see "findings" in `PROJECT.json`) |
| `boss_wave_search` | the search over end waves and the early stop answer what one full scan answers (`EarlyExitsAgree`); the selected wave is backed by surviving rows, complete means resolved, limits and missing references survive the later stages (`AnswerIsBacked`) |
| `milestone_matrix` | complete candidates come first (`CompleteFirst`); limits reach the cell, the certificate's effective and closed flags are those of its cells (`CertificationSound`) |
| `dependency_registry` | closures are least (`ClosureIsLeast`); orders respect the edges, depend on the set only, and fail exactly on cycles, never after loading (`OrderSound`); queries end (`Terminates`) |
| `surface_resolution` | a settled row is what its inputs' rows make it (`RowsAreCurrent`); an answer does not depend on what else was asked, every request is answered, few attempts are made (`QueryAnswered`); the passes end (`Terminates`) |
| `checkpoint_delta` | a delta, and a delta to a delta, gives the rows of a full resolution, all required surfaces and misses only optional ones, for a ledger that lists every read of the resolver and a caller that names every track it changed (`DeltaAgrees`) |
| `warm_caches` | the caches answer as if there were none, from contents the files had during the call (`AnswersAreFresh`, a refinement with liveness); entries are about live states, keys unique, bundles not older than their keys (`CachesSound`); what is kept is not computed again, the least recent goes first (`CachesKeep`) |
| `output_directory` | whatever died where: what the last-written files vouch for is there, a run-stats run that returned left nothing of an earlier one but the matrix and residue reports, a full run a matrix exactly if asked (`DirectoryVouched`); of the two files a request is read back from, the trace is never the younger; unless the last run was an analysis run or was cut short, both are of that run (`ReopenedRequestAges`) |
| `bot_progression` | in whichever order the patches come, the compiled surfaces say what the overlay says and the import elsewhere (`OverlayShows`); nothing of a locked bot counts, with one exception, which is stated exactly: an effective range under another spelling of it that the overlay unlocks (`LockedLeaksOnlyShorts`) |

`EarlyExitsAgree` compares the wave reached, the status and the first failing wave.
The last is left out when one of the two results happens to be at its reference and
the other is not: such a result keeps the failing wave of its rows, one raised or
capped names the wave after the reference.

### Where the documents say otherwise

While the code was modelled, some sentences of its documents and tests turned out not
to hold of it. Each is a definition of the module named; put under `INVARIANTS`
(or `PROPERTIES`) of the module's cfg it gives the counterexample.

| Definition | Document | What the code does |
|---|---|---|
| `CommonTrajectory!CurveLowersSkip` (with `TournamentScenarios`) | `BURNDOWN.yaml:5338`: skip decay defaults to the imported curve in Table 1 | the start wave is set to 0 with it (`app/pipeline.py:7549-7558`), and a schedule counts only from a positive one (`qe/run_plan.py:650`) |
| `PerkTimeline!StepsAreFloored` | `perk_timeline_generator.py:224`: each step is floored | only the sum is (81-99); `_floored_step` has no caller |
| `BossWaveSearch!ProgressiveMatchesFull` | `tests/app/test_pipeline_functional.py:5053`: progressive rows equal full-horizon rows | fields beside the wave reached are those of the early end wave (`app/pipeline.py:6322`) |
| `BossWaveSearch!TruncationIsSeparate` | `BURNDOWN.yaml:5183`: truncation after a failure is separate from completeness | an ambiguous row after the failing one is raised (`app/pipeline.py:7740`) and the candidate recorded as incomplete with wave 0 |
| `MilestoneMatrix!ClosureCoversEveryCell` | `ACTIVE_TRANCHE.md:413`: certification requires the input mapped to each active pressure | the closure of the first closed cell is taken over although another cell is open (`app/pipeline.py:4092`) |
| `MilestoneMatrix!OpenPressureIsVisible` | `ACTIVE_TRANCHE.md:413`: unsupported rows keep their blocker visible | a cell whose presets are all ambiguous lists no pressure (`app/pipeline.py:6663`) |
| `SurfaceResolution!DependenciesResolved` | `stat-query-api-contract.yaml:73`: an unresolved required dependency fails closed | pending rows are finalised and returned (`qe/kernel.py:508`) |
| `SurfaceResolution!EachRequestNamed` | `stat-query-api-contract.yaml:76`: trace for each requested surface | two spellings of one surface share one entry (`qe/kernel.py:390`) |
| `OutputDirectory!ProductIsOneRun` | `ARCHITECTURE.md:333`: `run_stats.json` is the deterministic product | a full run puts its diagnostics into another run's file (`app/pipeline.py:13353`) |
| `AccountStateCaches!IdentityTracksContent` | `stat-query-state-identity.yaml:10-19`: the id owns workshop, labs, relics, ... | the id is looked up by the address of a state that may have died (`qe/models.py:255`) |
| `BotProgression!IdentityOwnsBots` | `stat-query-state-identity.yaml:12-19`: the id owns unlock flags and bot progression | two of the four records of a bot are not hashed (`qe/models.py:268`) |
| `BotProgression!OnlyFinalSuppresses` | `input/manual_inputs.yaml:25`: final values suppress labs | a level alone does, too (`input/state_builder.py:374`, `qe/stat_input_compiler.py:1693`) |
| `BotProgression!LockedReadsZero` | `ACTIVE_TRANCHE.md:149`: locked bots publish zero track values | an overlay may state an effective range under a short spelling (`input/state_builder.py:328-377`); it is asked whether that spelling is unlocked, not whether the bot is owned (`qe/stat_input_compiler.py:2147`) |

### Bounds

- `MCCommonTrajectory`: up to four tracks in two categories, one of which feeds the
  skip chance, chances in quarters, up to twelve waves. A category can run out of one
  track and then of all, carries wrap several times, the grid is thinned, empty or
  starts beyond its end, the decay starts before, at and after a row. In
  `RotationScenarios` one or two of three tracks of a category fill, in the middle of a row or
  between rows, in either order, with several upgrades per row.
- `MCPerkTimeline`: four perks (the requirement perk, a repeatable one, one behind a
  weapon, one single) and two cost sections; sixteen waves are enough for two
  requirement perks and for several perks at one wave.
- `MCBossFight`: bosses of eight points with every mix of sources, and slow kills
  against walls with little, equal and more regeneration than damage.
- `MCBossWaveSearch`: every sequence of four verdicts over rows at waves 2, 5, 8, 11
  with end waves 3, 6, 9, 12, so that each end wave adds one row, and limits and
  references at, between and beyond the rows. End waves that fall before the first
  row, on a horizon or between two, low tiers and a missing contact time are tried
  against fewer sequences.
- `MCMilestoneMatrix`: four cells, two presets, candidates that end in each of four
  ways, with and without explicit limits, pressure factor, bridge input and reference.
- `MCDependencyRegistry`: every list of three edges over three surfaces, duplicates and
  cycles included, and a few larger graphs.
- `MCSurfaceResolution`: seven ids that lock, mirror and feed each other, with
  contributors missing, inactive, zero or mixed, edges declared or not, an old spelling,
  and a surface that is not there under either name. Attempts are counted up to
  `AttemptBound`, above what `QueryAnswered` allows, so that passes that never ended would
  come back to a state and be found by `Terminates`.
- `MCCheckpointDelta`: three snapshots over three tracks, one without a trigger and
  one that reaches the bundle through a surface outside it: a delta to a delta.
- `MCAccountStateCaches`: four kinds of call, five addresses, one edit, an LRU of two:
  every key can be built twice, checkpoint states die and leave their address, and the
  LRU evicts. The theorems hold for any number of each.
- `OutputDirectory`: three runs of either pipeline (`MaxRuns`), the full one with or without
  its trace: what the first left can survive a cut-short second and mislead the third.
- `MCBotProgression`: two bots, two tracks, three labs, four imports; every overlay of
  one bot, of both by values, of a short spelling, and of both spellings of a bot by ranges.

`MaxEdits`, `MaxRuns`, `MaxSnapshots` and `AttemptBound` are the bounds in guards. Deadlock is checked
wherever a call returns and then stutters; it is not for `checkpoint_delta` (at
`MaxSnapshots`) and `bot_progression` (a build ends).

### Fairness

Every fair specification is weak fairness of the steps of a call, and of nothing
else: each call is made by one caller that runs it until it returns, so all that is
assumed is that the interpreter keeps going. Nobody has to edit a file or make another
call. In `InputPromise` the same reads WF of `Tell \/ Fail`: a question asked is
answered. Termination is stated where a loop may really not end: the worklist of the
registry over graphs with cycles, the passes over pending surfaces, the contact loop whose
clock only contacts move. `CommonTrajectory`, all of whose loops run over finite
ranges, `OutputDirectory`, `MilestoneMatrix`, `CheckpointDelta` and `BotProgression`
state safety only.

## Proofs

All theorems hold for every value of the constants under the named assumptions of the
modules: a positive `Unit`, level tables that are functions into numbers
(`TableAssumption`) and grow (`GrowthAssumption`), scenarios whose fields have the types
of their dataclass and whose track orders name a track once (`ScenariosAssumption`,
`DistinctTracks`), fights that `_validate_combat` accepts (`FightsAssumption`), queries as
the three entry points make them (`QueriesAssumption`), a ledger that lists every read
of the resolver (`ReadsAssumption`), bots with names that are no flags and at
least two tracks (`NamesAssumption`), and the like. Every safety property a run checks
is stated by a theorem; what is left to TLC is at the end of this section.

Many of these statements are about every natural number, every position of a sequence or
every finite set. They are proved from the least counterexample (`LeastOfNaturals` of
`DataLemmas`): a set of naturals that is not empty has a least element, and below it there
is none. `DataLemmas` proves so what `SumFunction` and its like do when one term
changes, is added or is taken away, which is all that is needed of them. Recursion
along a graph is avoided the same way: a closure is the least closed set, and a fact
about it follows by taking one element out of it.

**Table 1** (`CommonTrajectory_proofs`). Types are not inductive alone: that a gap
between rows is never negative needs the grid (`GridOK`), that a level stays in its
table needs the candidate list to be current. `TypeInv` joins the two with what
`compile_run_plan` guarantees of a plan (`PlanOK`) and is inductive. Relative to it:
`RecurrencesStayExact` and `AllocationStaysExact`, from one theorem per part.
`RowsInv` relates rows to each other: levels only grow and the decay of later
waves is no smaller, hence `RowsGoOneWayAlongRun`.
`UpgradesAreConserved` needs two sums: that the levels above the start add up to the
total allocated (an allocation changes one term by one; `LevelsAccounted`), and that
generated and allocated totals differ by what the rows report as left over and what the
row under construction still holds (`TableInv`; `TableConserves`).
`RotationStaysBalanced` rests on `RotationInv`: while no track of a category is
full, each has gained as much as any other, but for those the current round has served.
Once tracks are full, the index a row leaves behind is reduced modulo all tracks of the
category (`qe/run_plan.py:735`), the next row starts anywhere among the open ones, and over
several rows one track may be favoured without bound: no balance over rows holds then, and none is
claimed. Within a row it holds: `WithinRowInv` describes the row as a walk of the turn
around the candidates, each of which has gained as often as the turn has passed it. When one
fills and leaves, the others renumber and the turn jumps, which puts them at most one further
apart; so two tracks that stay open differ by one, and one more for each that filled.
`RowsAreTheBossWaves` says of the rows so far that they are the first checkpoints
(`CoverInv`), which are in order, and of the checkpoints that they are every n-th boss
wave of the scope from its start on, by counting the boss waves below one.

**Perks** (`PerkTimeline_proofs`). The pool kept by hand is what the counts allow
(`PicksInv`); so every perk of an offer can be taken, an offer never comes up empty, and
`PicksStayLegal`. What a perk costs is a sum over the sections that grows with its
ordinal, and the wave a perk is taken at lies between what it costs with and without the
requirement perk taken so far (`WaveInv`): hence `PerksComeWhenDue`. `BothReadersAgree`
compares a reader that filters the rows by wave with one that counts a prefix: alike,
because the rows are in wave order.

**The search** (`BossWaves_proofs`). `SearchInv` says that the rows kept are a
prefix of the run and why the scan ended, and that the whole run is still among the
end waves to try until it is tried. A run that is longer than the rows kept sums up to
the same waves if those show a failure (`PrefixOfRun`); if they show none and the
search stopped short, a limit or a reference brought the failure, and it brings the same
one to the longer run (`StagedOnward`). They give `ExitsChangeNothing`;
`AnswersAreBacked` follows from how many rows lie up to a wave (`RowCountIsGrid`) and
from the fact that, unless raised, the stages only lower a wave. The assumption that each
early end wave has a row is needed: an empty payload reaches nothing and would end the
search.

**The matrix** (same module). `MatrixInv` keeps of every cell and every candidate built
what a full answer says of its limits (`CandidateOK`, `CellOK`), and of the
certificate that it is the one of the cells so far. `MatrixCertifiesItsCells` and
`CompleteComesFirst`, an action property, hold for any tiers, categories, presets and limits.

**One fight** (`BossFight_proofs`). `BossInv` says that the boss is alive while it
walks or hits, and that the clock of the contact loop is a function of the hits so far;
with the types it is inductive, and damage never exceeds what is left. From it
`DamageAccounted` and `KillsAndHitsAgree`. The wall needs `WallOK`: what regenerates
before a hit is at most what the hit takes. It is inductive because healing cut at full
health leaves a gap of exactly the last hit, healing that is not cut was already below
the last hit, and hits grow. It gives `WallOnlyFalls` and, with the first hit as a
bound, `VerdictsStayOrdered`.

**The registry** (`DependencyRegistry_proofs`). The worklist invariant is that what is
seen is within every closed set that holds the seeds and that what is seen and not
waiting has its neighbours seen; at the end both give `ClosureHolds`. The sort keeps
the indegree of a waiting surface equal to the number of listed edges from what is
not placed; `OrderStaysSound` follows, with the argument that a set that waits for
itself is never entered.

**Deltas** (same module). Every row of every snapshot is that of its own levels
(`Sound`). The step of a delta needs that a surface whose row changed reads a
changed track, hence is in the closure of the triggers, since the closure is closed
and the ledger lists every read. `DeltasAgree` combines the parts.

**One query** (`SurfaceResolution_proofs`). The invariant says which surfaces a pass
has still to visit, that a settled row has the value its inputs' rows give
(`Supported`), and that what was tried in vain waits for a surface that is pending.
Four lemmas say that a row without value, or one not used, or one settled late, changes no
row settled before (`ValuelessRow`, `UnusedRow`, `LateUse`, `SettleKeeps`); they give
`RowsAreCurrentHolds`, also through the finalisation.
`QueriesAreAnswered` adds three things. Attempts: a pass tries a surface once and a pass
that settles nothing is the last (`AttemptsInv`); where the edges of mirrors are declared,
what the first pass leaves pending the second does not settle either, so it is the last
(`FewInv`) and with the finalisation three attempts are enough. Independence: `Meaning`, what a surface is by
itself, is the one solution of its equation (`MeaningEquation`), because the least set of
surfaces without one is empty; the closure of a query holds what its members read
(`ClosureInv`), hence in queue order the first row that is not its meaning would have to
be (`RequestsAreIndependent`). Replies name the row of the spelling that was asked.
`MirrorsDeclared` and `SpellingsAgree` are hypotheses in the property itself; the
instance has worlds on both sides of each.

**Bots** (same module). `FromSheet` says which flags and names the scanned rows have
given to which bot, and that no row is manual; `Overlaid` tells every record from those
of the section and the set of bots patched so far, so that the order of the patches
does not matter. From the two, `OverlayAlwaysShows` and
`LockedAlwaysLeaksOnlyShorts`, for any overlay. The overlay may state an effective range under a
short spelling, and the compiler then looks at the flag of that spelling; both properties
say exactly which ranges come through (`UnlockedShortRanges`). For an owned bot they stand beside
its own, for a locked one they are the disagreement in the table above.

**Caches** (`AccountStateCaches_proofs`). `Inv` says what each entry describes and what
the call in progress may rely on. The point is `Kept`: an address in a key is always
that of a state some bundle keeps, so no entry outlives its state, although no key holds
a reference. `UniqueInv` adds that nothing is stored under a key between the lookup that
missed and the store. They give `CachesStaySound`, and with the reads bracketed by
stamps `CachesImplementPromise`: each step is one of `InputPromise` or a stutter.
`CachesKeepAlways` is an action property: compiled inputs are never dropped, and a step
removes no other primitive than the one used longest ago; the LRU stays within its size
(`BoundInv`, `TypesHold`).

**The output directory** (same module). First what the programs of the two pipelines do,
put together from their parts: which files they write, that what vouches comes
last, that a run which touches anything touches the diagnostics first, and that all this
still holds of what is left after a step (`ProgramShape`, `Tail` lemmas). `DirInv` then
says, for as long as a run is on, that what must be written is there or still to come,
what must go is gone or still to go, and that diagnostics of an earlier run that lie
whole mean that nothing has been touched yet. A crash keeps it, since it changes the
outcome only. It gives `DirectoryStaysVouched` and `ReopenedRequestsAge` for any number of
runs of either kind, each cut short anywhere; the second also needs that the trace is written
after the diagnostics and removed with them (`TraceAges`).

A request read back is not always of one run. `app/run_analysis.py:44` calls
`run_analysis_pipeline` itself, which returns without a trace (`app/pipeline.py:13384`);
only `execute_pipeline` writes one (13691), and nobody removes the old one. The new diagnostics then lie beside
the trace of an earlier run, and the inspector takes the preset from the one and the
input paths from the other (`app/streamlit_inspector.py:1797`). The same is left by
a full run cut short after its diagnostics. What `ReopenedRequestAges` says is what remains
true: which of the two is the older, and after which runs they agree.

Only model-checked: liveness (`Terminates` of three runs, and that part of
`AnswersAreFresh` which says that a question asked is answered), which the prover does
not reach; the proved bound on attempts is the safety half of the termination of a
query. The definitions of the table above, where the documents say otherwise, are shown
false by TLC.

## Not modelled

The implementation is large (about 60,000 lines) and most of it converts tables and text, or
computes numbers in closed form. What a finite model can say of it is modelled; the rest is left:

- Stat compilers, composites, currency and income (`qe/stat_input_compiler.py`,
  `qe/publication.py`, `qe/query_derived_composites.py`, ...): pure functions from tables
  to numbers, whose correctness is agreement with game data.
- Timing and geometry (`simulators/timing.py`, `geometry.py`): averages over shared
  cycles and closed forms, with no state that steps.
- `ProgressionRecalcBridge.recompute` has no caller in the program, and returns from
  outside the branch that computes its result (`simulators/progression.py:246`): every
  mode but the full one ends in an `UnboundLocalError`.
- Other functions without a caller: `OverlayApplicator`, `resolve_stats_delta`,
  `average_active_fraction_over_interval`, `advance_projected_*`, `allocate_generated_*`,
  `perk_counts_at_wave`. `resolve_wave_row_snapshot_delta` is called by tests only; it
  shares the delta that `CheckpointDelta` models.
- Evaluators and advisors: comparison with another tool's export and ordering of scores.
- The inspector: session state of a form, and tabs that format payloads. The two files
  it reads a request back from are in `OutputDirectory`.
- `ARCHITECTURE.md:285` forbids a continuous boss damage model that the kernel has; the
  models follow the kernel.

## What is next

1. A composition of `PerkTimeline` with `CommonTrajectory` through the schedule, and of
   `BossFight` with the scan through the verdicts, with the theorems of both sides.
2. The other sections of the import and the presets of the loadout, beside bots.
3. More of the stat compilers, where an order of passes matters.
4. The recalculation bridge, should it be called again.

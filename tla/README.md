# Verification of the coffee order system

TLA+ models of the repository's two programs, model-checked with TLC; the
safety of all their stateful parts and the correctness of their pure algorithms
are also proved with TLAPS, for every value of the constants and every input:

* the **order service** (`src/main/java`): a Spring Boot application that runs
  as several instances on one MySQL, one Redis and one Kafka;
* the **change gate** (`scripts/agent-harness.py`, `scripts/harness-oracles.py`,
  `scripts/agent-publish.py`, `scripts/check-doc-context.py`): Python programs
  that decide whether a change may be merged, and merge it.

`PROJECT.json` has the machine-readable side: components, runs, mutants, the
map from definitions to source lines, findings, hazards and theorems.

## 1. Inventory

### Order service

| Part | State | Operations |
|---|---|---|
| Point charging (`PointService`) | `users.balance`, `point_history` | `POST /users/{id}/points/charge` |
| Ordering (`OrderService`) | the same, `orders` | `POST /orders` |
| Popular menus (`PopularMenuService`, `PopularMenuRedisCounter`) | a Redis sorted set per menu, the flag `readModelStale` of each instance | `GET` of the list; ZADD after every commit |
| Order events (`OrderDataPlatformEventListener`, `KafkaDataPlatformClient`, `KafkaOrderDataConsumer`) | executor queue, producer batches, topic, offsets | `@Async` send, consume, retry |
| Menu list, DTOs, configuration | none of their own | - |

*Interaction.* `OrderService.order` runs in one transaction: read the menu,
lock the user's row (`findByIdForUpdate`), take the points, insert history and
order, publish `OrderPaidEvent`. After the commit two listeners get the event.
The Redis listener runs in the request's thread before the client is answered;
the data platform listener hands a task to the executor, which sends to Kafka.
The list of popular menus reads Redis, and MySQL when Redis fails.

*What is hard.* Nothing but a row lock keeps two requests of a user apart, and
the balance is written as an absolute value. A commit may succeed without its
acknowledgement. MySQL, Redis and Kafka are updated one after the other with no
common transaction and no outbox. A Redis or Kafka call that times out may have
happened. An instance may die between any two steps. Ids are drawn before
the commit. Whether Redis can be trusted is remembered per instance only.

*What makes it correct.* Balance and history agree at all times; an order
exists exactly when it was paid for; answers and events tell the truth; every
request ends and frees its lock; the list never counts an uncommitted order or
one outside seven days, and is never empty by mistake; no event is early,
doubled or passed over by the consumer group.

### Change gate

| Part | State | Operations |
|---|---|---|
| `prepare` | `build/harness/plan.lock.json` | freezes plan, branch, base, merge base |
| `evaluate` | `build/harness/evaluation.json` | reads the repository, applies the rules, runs the checks, reads again, writes evidence |
| Rules (`scope_violations`, `classify_risks`, ...) | none | judge changed paths, choose and validate checks |
| Parsing (`parse_plan`, `load_plan_lock`, `load_risk_policy`, `parse_name_status`) | none | accept or refuse plan, lock, policy and git's path stream |
| Oracles (`harness-oracles.py`) | the search's stack; containers, ports and a database per compose project | layering and cycles, API contract, migrations, test sources; start the system, run the smoke test, remove it |
| Documentation check (`check-doc-context.py`) | none | local links, an `AGENTS.md` above every source file |
| `finalize` | the pull request and the issue on GitHub | evaluate, push, create or ready the pull request, merge, close the issue |
| Orchestration policy | none | declarative, read by people and agents |

*Interaction.* `finalize` runs `evaluate` as a command and trusts its exit code
and `evaluation.json`; `evaluate` compares with the lock of `prepare` and runs
the oracles as commands, of which it sees the exit code. Harness
commands are serialized (`harness/orchestration-policy.json`, "shared DB,
Compose, or evidence checks are serialized").

*What is hard.* The repository is read by a dozen separate git commands while
others edit, commit, check out, rebase and push. `gradlew clean` deletes the
lock in the middle of `evaluate`. Each command may be killed. GitHub's state may
change between two `gh` commands, and `gh pr merge` may return before the merge.
Every merge moves the base tip a lock was prepared for. The multi-instance
oracle looks for free ports and lets go of them, and its docker commands may
fail, hang, be interrupted or be killed with containers running.

*What makes it correct.* PASS evidence is about the commit it names and is
given only after every required check ran and passed; exit code and file agree;
an interrupted run leaves no evidence; a run reports or closes nothing that is
not merged, and merges what it evaluated onto the base it was prepared for; what
`prepare` accepts, `evaluate` can use; an oracle's exit code 0 is about this
source tree and this stack, every oracle ends, and it leaves nothing behind
without saying so.

## 2. Modules

| Module | Models | How state and actions correspond |
|---|---|---|
| `Ledger` | the promise of the payment half | a charge and an order are one atomic step each |
| `Payment` | `PointService.charge`, `OrderService.order`, the transaction, MySQL's row lock | `pc[t]` is the next statement of thread `t`, `tx[t]` its request, entity and uncommitted rows; one action per statement, one per way a transaction ends |
| `Ranking` | the Java ranking pipeline, the SQL query | operators |
| `PopularMenu` (extends `Ranking`) | listener, counter, query | `zset` is Redis, `stale[i]` is `readModelStale`; one action per Redis call of a query |
| `Topic` | the promise of the event half | an order is placed, announced at most once after its commit, delivered or unknown, finished |
| `OrderEvents` | listener, executor, producer, topic, consumer group | `orders[k].stage` follows the task of order `k`; `position`, `acked`, `committed` are the offsets of a partition |
| `Gate` | the promise of `prepare` and `evaluate` | a command begins, and then prepares or concludes in one step, or gives up and leaves nothing |
| `HarnessGate` | `prepare`, `evaluate` | `pc` is the next git command, check or write; `run.ids.start` and `run.ids.end` are the two rounds of reads |
| `GateRules` | the path, risk and check rules | operators |
| `GateParsing` | plan, lock, policy and path stream parsing; `check-doc-context.py` | operators on records of what a document's fields hold |
| `Publish` | `finalize`, with `prepare` and the target branch | one action per `git`, `gh` or harness command |
| `CycleSearch` | `_find_cycle` | `path` is the open calls of `visit`, `todo` the targets each has left; one action per way a call goes on |
| `StackOracle` | `run_multi_instance_oracle`, `multi-instance-smoke.sh`, the docker daemon as they use it | `at[o]` is the next command of oracle `o`, `held[o]` the host ports its containers own |
| `Oracles` (extends both) | `main`, `run_oracle`, the static oracles | one action per oracle, the search's steps and the stack's steps |
| `PaymentProofs` | - | the ledger of `Payment`, its promises and its refinement of `Ledger` |
| `RankingProofs`, `PopularMenuProofs` | - | the two rankings; the read model |
| `OrderEventsProofs`, `HarnessGateProofs` | - | invariant and refinement of `OrderEvents` and of `HarnessGate` |
| `PublishProofs`, `OraclesProofs` | - | `finalize`; the oracles, their search and their stacks |
| `AlgorithmsProofs` | - | rankings, rules, parsers and documentation check against their reference definitions |
| `MC*` | - | instances for TLC; `MCAlgorithms` also holds the reference definitions of the pure algorithms, as operators of an input, and the inputs TLC enumerates |

How they fit together: `Payment` ends where the AFTER_COMMIT listeners get the
event (`published`); `PopularMenu` and `OrderEvents` start from an order that is
placed, committed or rolled back, or committed without an acknowledgement, after
which no listener runs.
`HarnessGate` treats the rules as the constant `Allowed` and the check commands
as the constant `Passing`; `GateRules`, `GateParsing` and `Oracles` are what is
behind them. `HarnessGate` implements `Gate`, and `Publish` composes `finalize`
with what `Gate` promises: `prepare` gives a lock for the present base tip,
`evaluate` gives PASS for the present commit only while the lock fits, or
fails and may leave the lock removed.

Three refinements are checked, each an `INSTANCE ... WITH` in the detailed
module and a `PROPERTY` of its run: `Payment` implements `Ledger`
(`LedgerRefinement`), `OrderEvents` implements `Topic` (`TopicRefinement`),
`HarnessGate` implements `Gate` (`GateRefinement`).

Abstractions worth knowing:

* *Payment.* Validation answers before the service runs, so
  `INVALID_CHARGE_AMOUNT` is never seen by a client: `ChargePointRequest` is
  validated first. A missing user id and a missing menu id of an order are one
  case. `trail` is an auxiliary record of all balances.
* *PopularMenu.* Reading the clock, the MySQL snapshot (taken by the first
  statement, the menu list) and the stale check are one step: commits and
  failures in between commute with it, and an order placed in between lies
  outside the window. Redis has no "away" state; every call may fail, with or
  without effect. Its data survives (append-only file with a volume).
* *OrderEvents.* A record's producer retries are inside `BrokerAppends` (the
  producer is idempotent). After the last retry the consumer goes on; whether
  that alone moves the offset to commit is left open. Two orders of one user
  may both have published their events before either commits, which the row
  lock of `OrderService.order` prevents; since listeners run after the commit,
  every such behaviour has one with the same sends in which they do not overlap.
* *HarnessGate.* The git commands of one kind of read are one step: the clean
  check, fetch with the branch, the lists of changed paths, the parts of the
  hash, the migration diffs. A commit is a plan, a branch, a merge base and one of a few
  contents; paths are the constant `Touches`. Any git read may fail
  (`ReadFails`); such failures share the bound `MaxEdits` with the changes of
  others. Unexpected exceptions are covered by `Killed` and `WriteFails`.
* *Publish.* Nobody but GitHub and `finalize` closes the issue. GitHub may merge
  an open pull request that is no draft at any time (`LandPr`): a merge it
  deferred, one whose answer was lost, or one that somebody else asks for.
  `asked` is auxiliary: what the last run that asked for a merge knew.
* *GateParsing.* A document is a record of what its fields hold, a text is a
  model value or `Blank`, a path is the sequence of its segments.
* *CycleSearch.* Nodes carry a number that stands for the sorted order of their
  names. `rank` is auxiliary: the order in which nodes were left.
* *StackOracle.* One port stands for the gateway, database and Redis ports, the
  other for the two that compose publishes under fixed numbers. The four
  `GET /menus` are one request; nginx may pick either instance. `excused` is
  auxiliary: oracles that were killed or whose cleanup failed.
* *Oracles.* A package and a URL path are sequences of segments; the regular
  expressions are represented by what they match.

## 3. Runs

Passing runs:

| Run | Bounds | Shows |
|---|---|---|
| `payment` | 2 instances with a thread each, 1 existing and 1 unknown user, 1 existing and 1 unknown menu, amounts {0, 2}, prices {0, 1, 2}, largest long 4, 3 requests | `LedgerConsistent`, `OrderPerUse`, `ReplyTruthful`, `EventsAreCommitted`, the inductive `RequestInv` (which contains `PaymentInv`), and `LedgerRefinement` |
| `payment_live` | 2 users, one amount and price, 3 requests | `Progress`; `OrderIdsIncrease` across overlapping transactions |
| `algorithms` | 225,511 inputs: 5 menus with up to 3 orders each; 5 paths, 3 patterns, 2 risks, 2 policies, all outcomes of checks, result lists up to 5; plans with each field good and bad; policies, with changed paths and all outcomes of their checks; streams of up to a few renames and changes cut anywhere; trees of links and sources | each algorithm against its reference: `RankingIsRight`, `GateIsPathwise`, `EveryRiskIsChecked`, `RunnerIsFailClosed`, `PassNeedsEveryCheck`, `PreparedPlanIsUsable`, `AcceptedPolicyIsEnforced`, `PathsSurviveTransport`, `DocCheckIsRight` |
| `popular_menu` | 2 instances, 2 menus, lists of 1, window 2, clock to 3, 3 orders, one of them older than the read model, 1 query | the inductive `ReadModelInv` (committed orders only, no trust in Redis after an own failure, snapshots that stay), `NeverOverCounts`, `CountsAllRecorded`, `NeverEmptyByMistake` |
| `popular_menu_live` | 1 order, 2 queries | `QueriesAndListenersEnd` |
| `order_events` | 2 instances with 1 worker each, 1 partition, 2 orders of one user, 3 attempts, 1 rebalance; 146,564 states | the inductive `EventsInv` (no offset passes an unprocessed record, a record has one place, sent means logged), `TopicRefinement`, and in the end `EventuallyProcessed` and `TaskEnds` |
| `harness_gate` | 3 commits, 3 plans, 3 contents, 3 changes by others or failing reads, 3 commands; 3.8 million states | the inductive `GateInv`, `EvidenceDescribesHead`, `PassMeansTested`, and `GateRefinement`: exit code and files agree, PASS keeps the lock, no evidence outlives its run |
| `publish` | 2 finalize runs, 2 commits, 2 pull requests, tips of the target branch up to 3 (others merge to it no further); 2.6 million states | `PublishInv`, `CompletedMeansDone`, `UndisturbedMergeIsEvaluated`, `PreparedForEachMerge` |
| `oracles` | all 4096 graphs on 4 layers, 2401 trees of imports under the contract's rules, contracts of up to 2 endpoints, up to 3 migrations; 2 stacks, 2 ports, 2 faults; 92,793 states | the inductive `SearchInv`, `ArchitectureVerdictIsRight`, `ScanPassIsSound`, the inductive `StackInv`, `NothingLeftBehind`, `OraclesEnd` |

Why these bounds are enough to be interesting: two threads on one row are what a
lost update needs, a third request makes a later one observe its result; a
largest long of 4 overflows with three charges of 2; a window shorter than the
clock lets orders leave it; a list of one with two menus cuts a menu off; two
orders of a user are what reordering needs, and with one worker the second has
to wait for the first; three changes let others check out, edit and come back
within a run; three commands cover prepare, evaluate and a second evaluate; a
second run may find the deferred merge of the first pending, landing or landed,
and a merge makes its lock go stale; four layers have simple cycles of every
length up to four, with branches beside them; two oracles are what a stolen port
needs, and a second fault can hit the cleanup of the first. `harness_gate` and
`oracles` turn the deadlock check off: a repository without further commands may
rest for ever, which is where the bounds lead, and an oracle is a process that
ends.

Every property of a passing run has a mutant, a plausible bug in a modelled
definition, under which TLC finds it violated.

Runs that show a disagreement between documentation and code:

| Run | Documentation | What the code does |
|---|---|---|
| `popular_menu_same` | `docs/strategy.md:43`: every instance sees the same popular read model | after a failed ZADD one instance answers from MySQL, the other still from Redis, which may lack that order |
| `order_events_order` | `README.md:119`: the key `userId` preserves the order of a user's events | the sends run as separate tasks after the lock is released and may overtake each other |
| `publish_head` | `harness/orchestration-policy.json:262`: "candidateHead equals evaluated HEAD" is required to merge | `gh pr merge` merges what the branch points to at that moment |

## 4. Fairness

* `Payment`: weak fairness of a thread's own steps. A running thread goes on;
  waiting for a row ends with the row or with InnoDB's timeout. No fairness of
  requests, failures, crashes or restarts.
* `PopularMenu`: a Redis call returns or times out after 500 ms
  (`application.yaml`), so queries and listeners take their next step.
* `OrderEvents`: a send ends by acknowledgement or after ten seconds, a free
  worker takes a queued task, and some consumer of the group keeps polling
  and committing (the partition always has an owner). No fairness of the broker.

* `Oracles`: a process runs on, and each docker command and the smoke test
  answer or run into the timeout of `_run_command`. No fairness of faults, and
  none is needed for the search, which visits each node once.

`prepare`, `evaluate` and `finalize` have no liveness property: their commands
have no timeouts.

## 5. Proofs

TLAPS proves the theorems below for every value of the constants: any sets of
threads, users, menus, instances, partitions, commits, ports or layers, and any
value of the bounds. `PROJECT.json` lists them with what each establishes. Every
safety property a passing run checks is a theorem, and so are the three
refinements.

| Proof module | Theorems | Inductive invariant |
|---|---|---|
| `PaymentProofs` | `PaymentInvariant`, `TypeCorrect`, `LedgerIsConsistent` | `PaymentInv` |
| | `RequestInvariant`, `OrdersArePaid`, `OrderIdsAreIncreasing`, `AnswersAreTrue`, `EventsFollowCommits`, `ImplementsLedger` | `RequestInv` |
| `RankingProofs` | `RedisRanking`, `DatabaseRanking` | - |
| `PopularMenuProofs` | `ReadModelInvariant`, `NoOverCount`, `AllRecordedCounted`, `NoEmptyMistake` | `Good` |
| `OrderEventsProofs` | `EventsInvariant`, `ImplementsTopic` | `EventsInv` |
| `HarnessGateProofs` | `GateInvariant`, `EvidenceIsAboutHead`, `PassIsTested`, `ImplementsGate` | `GateInv` |
| `PublishProofs` | `PublishInvariant`, `CompletedIsDone`, `UndisturbedMerge`, `OnePreparePerMerge` | `FinalizeInv` |
| `OraclesProofs` | `StackInvariant`, `NothingIsLeftBehind`, `SearchInvariant`, `ArchitectureVerdict`, `ScanIsSound` | `StackCore`, `ScanInv` |
| `AlgorithmsProofs` | for all inputs: `BothRankingsAreRight`, `GateJudgesPathwise`, `RisksBringChecks`, `RunnersFailClosed`, `PassesAreComplete`, `AcceptedPatternsAreTame`, `AcceptedPlansAreUsable`, `RisksAreEvidenced`, `PathListsSurviveTransport`, `DocumentationIsJudged` | - |
| | for the run: `RankingsRight`, `GateRight`, `ChecksRequested`, `RunnerRight`, `PassRight`, `PlanRight`, `PolicyRight`, `TransportRight`, `DocCheckRight` | - |

Each proof has a lemma per action (`...Inv`, `...Keeps`), lemmas for what many
actions have in common, and a theorem that combines them.

*Payment.* `LedgerConsistent` is not inductive: a commit writes the entity's
balance, so one must know that the entity is the committed balance plus the
thread's own change (`EntityFresh`). That stays true only because no other
thread can commit for the same user meanwhile, which is `LockDiscipline` (a
thread inside its transaction holds its user's row, and a held row belongs to
such a thread). That a commit appends exactly one history row is `RowsSaved`.
`PaymentInv` is their conjunction with `TypeOK`. The promises to clients and
listeners need more: a request number is in at most one row and in none while
its thread may still commit it (`RequestsOnce`), an order id is drawn once and,
because it is drawn under the row lock, is larger than those of the user's
committed orders (`IdsDrawnOnce`), and a thread that has committed knows its
rows (`OwnRowsKnown`). `RequestInv` is all of these. `ImplementsLedger` follows:
a commit appends one row to each sequence, which is a step of `Ledger`, and
every other action leaves the committed state alone.

*Ranking.* Sorting is specified as the sequence in which each element stands
behind as many others as precede it. `RedisRanking` and `DatabaseRanking` say
that `filter.sorted.limit` and `GROUP BY ... ORDER BY ... LIMIT` return lists
that are in order, hold the counts, and leave out only what ranks behind the
last entry of a full list. The proof counts predecessors; it needs no induction
over the list.

*Popular menus.* `ReadModelInv` says what Redis holds. What a query may count
while orders commit, are recorded and leave the window is `GoodQuery`: at most
what is committed now, at least what was recorded when it began. `GoodAnswer` is
the same of a given answer. Both are preserved because orders and sorted sets
only grow (`Grow`), and because recorded orders do not change once the query has
begun. `Good` is the conjunction with the type, with `OwnFailureFallsBack` and
with the contents of Redis.

*Order events.* `OnePlaceEach` (an order committed, queued, buffered or logged
once and in one of these places) gives "at most once"; `NothingPassedOver`
relates the three offsets of a partition to the records handled or given up.
`ImplementsTopic` maps the number of copies in the log to `Topic`'s
announcement, so that a retry or a late acknowledgement is a stutter.

*Harness.* `GateInv` follows the commands of a round: `CommandsKeepOrder`,
`RoundsFound` (what each read before the present one has found),
`TrackIsChecked` (what lock, static checks, check commands and comparison have
established while nothing failed), and, for rounds nobody disturbs,
`EndIsCurrent` and `RunIsCurrent`. PASS is written only at the end of a track,
where they give `EvidenceDescribesHead` and `PassMeansTested`. `ImplementsGate`
needs besides that the lock an evaluate has read is the one it started with,
even after `gradlew clean` removed the file.

*Publishing.* `FinalizeInv` joins `PublishInv` with the three promises. A merge
may land long after its run has ended, so what a run knew has to be kept with
the request: `RequestsKnowTheirEvidence` says that it was evaluated on a tip
not above the one the merge goes onto, and, while nobody disturbs it, that it
is about what the branch still points to. What is recorded of a landed merge
never changes. A run that evaluates later has a lock for the tip of that moment,
which is above the one the merge went onto; that is `PreparedForEachMerge`.

*Oracles.* `PortsAreOwned` and `StagesKept` say who publishes a host port and
what an oracle holds at each command; a smoke test therefore reaches its own
stack whoever else asked `_free_port` for the same number. `SearchInv` gives
every left node a rank above those of its targets. A non-empty set of layers
that import in a circle has a member of least rank, whose targets are outside
the set; that is the whole argument for "no cycle" and uses the well-founded
order of the numbers in place of induction over paths. In the same way
consecutive numbering of migrations follows from the smallest counterexample.
`ScanInv` carries the tree and the verdicts of the steps that have run.

*Algorithms.* A reference definition of `MCAlgorithms` takes its input as
parameters. The first group of theorems states it for every input: any paths,
plans, policies, outcomes, result lists and trees, documents with any text in
their fields, path lists of any length. The second group says the same of run
`algorithms`, whose inputs only have to be shown to be such inputs. The rules
need little more than quantifiers, except that PASS means exactly one result per
check, which compares the length of a list with the size of the set of its ids.
`RisksAreEvidenced` follows a risk from the policy file through
`load_risk_policy`, `classify_risks`, `required_check_ids`,
`run_required_checks` and `aggregate_state` to the outcome of a command of its
own. What is computed along a sequence (`Normal`, `ReadTokens`, `FlattenSeq`) is
a fold: `RecursionFolds` says that a recursive function is one, `FoldAppend`
that one element more is one step more. Both rest on `AllNumbers`, which gets
induction over the numbers of a *set* from its least counterexample, since a
theorem about an operator parameter cannot be used. With them

* a pattern that `_validate_repository_pattern` accepts is its own normal form,
  and a prefix of a file in a forbidden directory is a prefix of the directory;
* the reader of a path list is idle after whole records and waits inside one,
  so that a list cut inside a record cannot be accepted;
* following a link one segment a time is what `Path.resolve` does, as long as
  the way stays in the repository; once it has left, it does not lead back.

*Assumptions.* Those of the modules, all named and evaluated by TLC in the runs.
`Payment`: threads have hosts, "nobody" is no thread, existing ids are among the
ids clients send, amounts and prices are integers not above the largest long,
initial balances are in range. `PopularMenu`: finitely many menus with numbers
for ids, a window and lists that are not empty. `OrderEvents`: every user has a
partition; at least one worker and one attempt. `HarnessGate`: plans, contents
and the first commits are of their types (`GateAssumption`), and `None` is none
of the values it stands in for (`NoneAssumption`). `Publish`: before the first
`finalize` nothing of the branch is merged, no merge of it has been asked for,
and GitHub has one open pull request of it at most (`InitialPrsAssumption`).
`CycleSearch` and `StackOracle`: finitely many layers with distinct names, two
application instances, the fixed Kafka port is never the one `_free_port`
returns. `GateRules` (`GateRulesAssumption`): `harness.unit`, `gradle.test`, the
environment checks, which are finitely many, and the others have different ids.
`MCAlgorithms`: menus are finitely many numbers, the ids of its two example
policies fit the constants (`IdsAssumption`), a plan's hash is a text
(`HashAssumption`). `DocumentationIsJudged` is about links whose directory is in
the repository and whose way, where it does not leave the repository, stays
among the places given to the reference. `Oracles` (`TreeAssumption`): the rules
of `architecture.json` name layers, as the present contract does, and all layers
are in `Node`. Without the former a rule about a package inside a layer would
never match, and `ArchitectureVerdictIsRight` would be false.

*Only model-checked.* All liveness: `Progress`, `QueriesAndListenersEnd`,
`EventuallyProcessed`, `TaskEnds`, `OraclesEnd`. Fairness and ENABLED are out of
the prover's reach, so these five hold of the instances of section 3. The
violations of the three documented claims are counterexamples of an instance,
too.

## 6. Not modelled

* Menu list, DTOs, JSON and time configuration, migrations, images and health
  checks: no state changes of their own, or outside the programs.
* The mock data platform: logs only.
* `orchestration-policy.json`: no code interprets it.
* JSON syntax, duplicate keys and the regular expressions themselves; what they
  accept is a field of the modelled documents.
* Gaps of the code that no property can close, noted with the hazards: an order whose
  instance dies right after the commit, or whose commit acknowledgement is
  lost, never reaches Redis and Kafka; two merges may rest on one prepare when
  a deferred merge lands after a second run has evaluated; the executor's queue has no
  limit; check commands of `evaluate` have no timeout; two multi-instance oracles
  on one machine collide on the fixed Kafka ports; static and wildcard imports
  are invisible to the architecture oracle; a worktree change that is made and
  undone while the checks run is not noticed (`PassMeansTested` says so with
  `calmRun`).

## 7. Plan

1. Done: all modules and runs above, and the proofs of section 5.
2. When code changes: the module that `PROJECT.json` maps its lines to, then the
   run of that module, then its proof module. A property that no longer holds
   shows in the run first.
3. Open: the action properties of `Topic` and `Gate` (an announcement is never
   withdrawn, a lock is only made by `prepare`) as theorems of the refined
   modules; liveness, once the prover can reason about ENABLED.

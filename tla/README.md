# Takoserver in TLA+

Takoserver is a self-hosted cloud Host: organizations declare Resources (Workers, queues,
databases, Actor namespaces, Workflows, ...) over HTTP, the Host makes them real through native
backends, runs their code under `workerd`, and charges a prepaid wallet.  This directory holds
TLA+ models of the parts in which an error is hard to see in a test, TLC configurations that
check them on small instances, and proofs of their safety properties for every instance.  Paths
below are relative to the repository.

## The system

| Component | State it keeps | Operations | What is hard | What makes it correct |
| --- | --- | --- | --- | --- |
| Operation ledger (`src/takoform-v2/store.ts`, migrations 0070, 0073, 0077, 0081) | `tf_v2_resources`, `tf_v2_operations`, reference and private-input rows | conditional SQL batches and triggers: accept, claim, defer, mark, wait, replenish, settle | every caller decides on rows read earlier | an open Operation owns its Resource; references never dangle; generations are accounted for |
| Engine (`src/takoform-v2/engine.ts`) | none of its own; lease tokens in the ledger | `acceptCreate/Update/Delete`, `replenishPrivateInputs`, `runNext` | leases expire under running passes; a crash around the backend's call; lost answers | execute once, settle once and truthfully, settle eventually |
| Backends of the Forms (`src/takoform-v2/*-backend.ts`) | native objects, publication and effect rows | `execute`, `reconcile` | remote effects with unknown outcome | effects only under the Operation's key, native fencing before a negative answer |
| Wallet (`src/ledger.ts`) | lots, allocations, append-only entries | fund, hold, capture, release, debit | plan from reads, commit later; retries | no credit used twice, `wallet()` always readable |
| Refund projection (`src/stripe-billing-store.ts`) | fences, refund receipts | freezeFunding, refund, unfreezeFunding | races with every wallet operation | parts of a refund add up; frozen credit does not move |
| Actor lease (`src/selfhost-actor-lease.ts`) | four names in a lease directory | acquire/recover, recordNative, release | several Hosts, a crash between any two system calls, children that outlive their Host | one owner, one native process |
| Invocation custody (`src/takoform-v2/worker-invocation-custody.ts`, migrations 0087, 0088) | `tf_v2_worker_invocations` | admitCron, beginSend, refuse, no-dispatch, arm and drain external SQL, retire | authorization races takeover, republication and deletion; lost acknowledgements | an attempt is sent at most once, only while its Deployment serves it; a Version outlives what runs on it |
| Queues (`src/queue-custody.ts`, `src/takoform-v2/worker-queue-*.ts`, `src/selfhost-v2-queue-*.ts`, migrations 0055, 0082, 0083) | messages with leases, the Consumer's custody row, batch executions, settlement receipts, transfer notices | admit, reserve, claim, register, authorize, settle, retire, reap, dead-letter, wake; attach, replace and detach a Consumer | lapsed leases under running handlers, five paths that give an attempt back, generations retired under late handlers, coalesced notices | attempts counted exactly, a running handler keeps its messages, dead letters only after the permitted retries and never unnoticed |
| Cron (`src/takoform-v2/worker-cron-trigger-*.ts`, migrations 0080, 0089) | a scan cursor, matches with leases | scan a page, record, claim, settle; update and delete triggers | overlapping ticks of several Hosts with clocks of their own; graph changes between page and insert | no trigger skipped, no match left of a deleted trigger, settled only by its last attempt |
| Workflows (`src/workflow-*.ts`, `src/selfhost-workflow-execution-host.ts`, `services/workflow-execution-guard`, migrations 0050-0052) | instances with owner and lease, step journal, event queue, native contexts | poll, claim, open, renew, do, sleep, wait, park, finish, terminate, expire, sendEvent | leases lapse under running code, a stop asked of the wrong Host, events and terminations that meet a claim or a park | code within its deadline runs only under the current claim; events taken once; no lost wake-up; recorded steps and outcomes stand |
| Subscriptions, metering (`src/stripe-*.ts`, `src/metering.ts`, ...) | events, receipts, windows | webhooks, plan change, cancel saga | duplicated and reordered events | each event applied once |
| Authentication, HTTP, composition, console, Terraform provider, deployment scripts | sessions, tokens | parsing, verification, wiring | little that interleaves | not modelled |

A request enters through `routes.ts`, the engine accepts it by one ledger batch and answers with
an Operation.  Timers (`src/app.ts`, `src/entry-bun.ts`, `src/entry-worker.ts`) and
`drainV2Operations` call `runNext`, which leases one Operation, calls the backend of its Form and
settles it.  A provider call that costs money holds its price in the wallet, runs, and captures or
releases (`charged` in `src/provider-driver.ts`).  Stripe events reach the refund projection, which
takes credit back from the same lots.  An Actor backend starts native processes under a lease.
Queue, cron and workflow schedulers tick on every Host, lease work in SQL, authorize one native send by a
conditional update and settle by the token of the lease; the Operations of Consumers, triggers,
Deployments and Versions race them on the same tables.
`PROJECT.json` lists all components with the reason where one is left out, and the hazards of the
code, line by line, with the properties that watch them.

## Modules

`OperationLedger` - the tables and every statement that changes them.  `res`, `op` and `edges`
are the rows of `tf_v2_resources`, `tf_v2_operations` (with its private-input and reference
rows) and `tf_v2_resource_references`; `older` is the order of `updated_at`.  Each action is one
transaction with its triggers: `InsertCreate`/`InsertChange` (acceptance with all guards, the
reference reservation and the generation CAS), `Claim`, `Defer`, `MarkDispatch`, `WaitForInputs`,
`Replenish`, `FailUnverifiable`, `SettleTerminal` (`tf_v2_terminal_guard`, `tf_v2_terminal_project`,
pruning of references), `SettleReconciling`, and the two timers.  `LedgerSpec` allows any statement
at any time: what holds there holds whatever the engine does.  Abstractions: one principal, Space
and target; a spec is the set of Resources it references; the clock appears as the flags `expired`
and `due`; `busy_operation` and `last_operation` are one field while an Operation is open;
configured private inputs, the accepted Host binding and retention pruning are left out.

`HostOperations` extends it by the engine: clients that read, check and later insert, and passes
(`runNext`) with one step per await, so that leases expire, passes crash and clients interfere
between any two.  `native` and `calls` record what the backend did; `BackendWorks` and `Answer` are
the contract of `V2Backend` in `types.ts`, and the backends of the single Forms are not compared
with it.  Authorization, admission predicates and readiness only ever refuse and appear as
`AcceptRefused`.

`OperationContract` is the abstract specification: an Operation has its Resource to itself, its
effects happen between acceptance and settlement, and it is settled once with what happened.
`HostOperations!KeepsContract` is the refinement.

`Wallet` - lots, allocations, entries, fences and refund receipts of one organization, with the
reads (`Begin`, `Plan...`) and the batch (`Commit...`) of a call as separate steps; a batch that
fails a guard is `Abandon`.  Lots are numbered in consumption order; a reference has one price.
Any calls may overlap, of one reference too.  The batches guard against all of these races but two:
a hold committed past another hold call of its reference, and a release or refund committed past a
capture of the hold it ends.  The history variable `overtaken` collects the references to which one
of them happened, so that the properties can say what the guards keep whatever else overlaps; two
runs show what follows from the two races.  The reads that `planHoldSettlement` makes one after the
other (1235-1254) are one step, and so are those of `refund`: the batch compares their sums
again.
Left out: `org_wallet_holds`, allocation admission, paid/free exclusion, the on-demand observation
floor (the other half of `fundingFenceStatement`), integer bounds.

`ActorLease` - the names in the lease directory (`lock`, `claim`, `marker`, `record`, temporary
names), each attempt's progress, live Hosts and native children.  Every change of the directory is
a step, `Crash` may come between any two, and `ChildExits` some time later.  An "unknown" liveness
and every failing system call are `GiveUp`.  Lost power (fsync) and the reuse of PIDs, which the
recorded start time excludes, are left out, and `exists`+`mkdir` of the marker is one step.

`QueueCustody` - one Queue and its v2 Consumers.  `msg` are the message rows (and the fate of a
removed one), `custody` the Queue's row of `queue_consumer_custody`, `exec` and `receipt` the rows
of migrations 0083 and 0082, `notices` those of 0055; `driver` is how far the `deliverOnce` call of
a batch got, `native` the handler it was sent to, `consumer`, `accepted` and `pass` the Consumer
Resource, its Operations and the backend's current pass, `wakes` the wakes a process has scheduled.
One SQL batch is one step, and a call may stop, be cancelled or lose an acknowledgement between any
two (`Abandon`, `CancelBeforeSend`, the second outcome of `Claim` and `AuthorizeSend`); another Host
may boot and refuse what it finds (`RefuseAtBoot`).  There is no clock: a lease, a reservation or a
retention may count as expired in any statement and as live in the next, so nothing checked rests
on a deadline; for the same reason lease renewal, which only moves a deadline, has no step.  A
batch id also stands for the reservation and lease tokens bound to it.  What the send guard asks of
the Worker's publication appears as a send that is not authorized.  The reaper and the window take
one message per step, and the reservation of the claim that reaps, which comes to nothing, is left
out.  The delivery of the dead-letter Queue is external (`TargetSettles`).  Left out: the drain of a
batch's external SQL, the Queue's own Operations, the v1 entry points of `createQueueCustody`.

`CronDelivery` - the triggers of one Worker, its Deployment and Versions, the scan cursor, the
matches, and `tf_v2_worker_invocations` by match and attempt (unique there).  `tick` and `job` are
what each Host is scanning and delivering, one at a time (`activeTick`), with one step per SQL
statement; `Stop` ends either at any point and what was sent runs on.  `Redeliver` is a restarted
adapter that takes up an admitted attempt.  A tick may see any minute and a lease may count as
lapsed at any time, so clocks may differ between Hosts and step back.  Whether a cron expression
names a minute is left open.  Scheduler and invocation custody are composed the way
`tests/takoform-v2-worker-cron-trigger-scheduler.test.ts` does; at this commit `admitCron` is
exported and tested but no entry point calls it, and the self-hosted delivery invokes the handler
without it (at least once).  The list of claimable matches is folded into the guard of the claim;
the Worker's own row is taken as settled.  Left out: endpoint and service ingress, `observeBody`,
creation of triggers and Deployments, deletion of the Deployment.  By design the code promises
neither that attempts of one match do not overlap once a lease lapsed, nor that minutes missed
while no Host ticked are made up; neither is stated.

`WorkflowRuns` - one Workflow instance.  `row`, `steps` and `queue` are the rows of
`tf_workflow_instances`, `tf_workflow_steps` and `tf_workflow_events`; `context` is the native
execution that each claim (epoch) opened, with the Host that registered it and its hard deadline;
`job` is how far each call of `runOne` or `terminate` got, with its step call in progress; `send`
are the `sendEvent` calls and `fresh` those whose revision is still the row's.  One statement is one
step.  Only the Host that registered a context can stop it (`Stop`, `HostStops`); asked anywhere else,
the call waits for the lease to run out.  A context is contained by its guard process
(`services/workflow-execution-guard`), which has a timer at the context's hard deadline and kills
after it has fired: `GuardKills` comes at any time after the deadline (`Overdue`) or after the Host's
pipe to the guard closed, and nobody waits for it, while a claim needs only the end of the lease in the
row.  Until then the application runs on beside its successor; what it writes is fenced by the claim
(`Runnable`).  Once the timer has fired, the guard of a started context answers a stop with an error
(`GuardRefuses`).  `Crash` ends the calls of a Host and closes its pipes; `OpenFails` and `StopFails`
are Host calls that fail with or without effect, `RunRejects` a run that ends in an error with its
context dead or alive.  A mutation accepted by `withMutation` lands at any later time; `finish` and
`park` wait for it (`Drained`) before they stop their own context, a stop does not.  The clock
matters here: claims, heartbeats and hard deadlines compare instants, so
the module has one, common to Hosts and database, and statements carry instants up to `Lag` old.
In the last lease of a lifetime the renewal is capped at `deadline_at`, which is not later than the
context's deadline; `extendDeadline` refuses it and the run is given up and claimed again, as in the
code.  Left out: retention and reuse of an id, deletion of the Resource
(`retireExpiredForResourceDelete`), clocks that differ, the transport journal between Host and
context, event types and sizes, the legacy `sendEvent`, the limits of eight attempts.

`MC...` modules give instances for TLC.  The proofs are in modules of their own: `LedgerProofs`,
`HostProofs`, `WalletProofs` (over `SumTheorems`, facts about sums), `ActorLeaseProofs`,
`QueueProofs`, `CronProofs` and `WorkflowProofs`.
Definitions named "Faulty variant" in a comment are plausible mistakes in the definition that
follows; each property is known to fail when one of them takes its place, which shows that the
property can fail.

## Runs

| Run | Instance | Shows |
| --- | --- | --- |
| `ledger_references` | 2 Resources, 4 Operations, one worker | `OperationOwnsResource`, `GenerationsAccounted`, `DependenciesStay`, `PublicationExcludesUpdate`, `ResourceHistory` under any order of statements |
| `host_passes` | 1 Resource, 2 Operations, 2 passes, 1 client | `DispatchedOnce`, `OutcomeIsTrue`, `InputsBeforeDispatch`, `SettledIsFinal`, and the refinement `KeepsContract` |
| `host_progress` | 2 Resources, 2 Operations, 1 pass | `EventuallySettled` under `FairSpec` |
| `wallet_races` | 2 lots (one refundable, one expiring), 2 references, 2 calls, 2 freezes | `LotsCovered`, `ReadableUntilOvertaken`, `EntriesBacked` (with the accounts of partial refunds), `FrozenUntouched` (a newer freeze outlives the end of an older refund too), `DebtStopsSpending`, with calls of one reference overlapping in any way |
| `wallet_overlapping_holds`, `wallet_overlapping_settlement`, `wallet_late_debit` | as above, the first without refunds and with captures alone (`CapturesAlone`), so that the shortest counterexample is that of the holds | violations, see below |
| `actor_lease` | 3 Hosts, 2 children each | `SingleOwner`, `SingleNative`, `RunningIsRecorded`, `HolderUndisturbed` |
| `actor_late_claim` | 3 Hosts | violation, see below |
| `queue_delivery` | 2 messages, 2 batches at a time, 2 Consumers one after the other, 2 policies (one retry and a dead-letter Queue; no retry and none), 2 creates or updates and their deletes | `AttemptsAccounted`, `HandlerKeepsMessages`, `OldGenerationsIdle`, `GivenUpAfterRetries` (and each transfer is noticed) |
| `cron_delivery` | 2 triggers, 2 minutes, 2 Hosts, 2 Versions, pages of 1, 2 attempts per match, 4 scans, claims, redeliveries and Operations in all | `ScanMissesNone`, `ResultOfLastAttempt` (and a deleted trigger has no open match), `SentOnce`, `VersionKept`, `AuthorizedForServing` |
| `workflow_runs` | 2 calls of `runOne` or `terminate` (one `terminate` at a time), 2 Hosts of which one polls, a do, a wait and a sleep step, 1 event, 1 fault, 2 claims, a lifetime of two leases | `CodeUnderClaim`, `EventsAccounted`, `WaitersWoken`, `RecordsFinal` |

`QueueTransferAttribution.cfg` is a further configuration of `MCQueueCustody` (one message, two
batches one at a time); TLC finds `TransferAttributed` violated in it.  `WorkflowLateKill.cfg` and
`WorkflowStopBarrier.cfg` are configurations of `MCWorkflowRuns` in which TLC finds `DeadlineIsProof`
and `StopDrains` violated.  See Disagreements for all three.

Bounds.  References are about pairs (a target and its referrer), and the longest history that
matters to a pair is create, create, update or delete of one while the other changes: four
Operations.  Two passes suffice for a takeover, and whatever a third does the second does after its
own crash.  Two lots make an allocation span lots, a lot of 3 bought for 2 makes refunds round,
prices of 2 make them compete; two freezes let a newer one overtake an older.  Three Hosts are an
owner that dies and two that race to recover it, or a fresh one that meets a recovery.  In the queue
two batches are a late handler and the delivery that follows it, two messages let one batch be
settled in part, and two Consumers or two generations of one take over from each other; the
dead-letter Queue is reached after a first delivery and its retry; the same properties were also
checked with three batches over one message, and with three creates or updates.  In the cron model
pages of one make every scan of two triggers take two ticks, two minutes let a slow clock meet a
fast one, a second attempt is a takeover, and `MaxWork` bounds the history: four is, for instance, a
scan, a claim, a takeover and the Operation that races them.  In the workflow model two calls are a
run and the poll or termination that takes over from it; with the second Host `terminate` meets a
context it cannot stop; a lease of two instants has its heartbeat in the middle, and a lifetime of
two leases lets a second claim follow a lapsed first one and still be renewed or expire.  One step
row at a time (`MaxSteps`) makes the step limit bite; one name is asked for as a wait and as a
sleep, which is a changed definition.  `AtMostTwo` leaves out behaviours in which more than two of
an event, a termination, a fault and a context that outlives its deadline meet in one instance, or
an event and such a context; every other two of them do meet, and the theorems cover the rest.
Deadlock is checked in `workflow_runs`, where a client may call `terminate` at any time and only
calls that wait for each other would stop; not in the others: all identifiers of an instance are
used up in the end, and the system may then rest. `VIEW Essence` drops only what no ledger statement
reads; `SYMMETRY` is used in safety runs only, over model values no definition distinguishes.

Fairness.  `FairSpec` asks that passes go on (`runNext` is driven by timers of every entry point
and by `drainV2Operations`), that leases and retry delays run out, and that crashes and missing
adapters stop at some point.  (A row whose adapter is missing is deferred and keeps its place in the
order; that others are served meanwhile rests on the length of the retry delay, which an untimed
model cannot show.)  The choice among candidates is not fair: the order by `updated_at`
decides, and that it lets every Operation have its turn is what the run shows.  The backend of
the Operation in question is assumed to conclude if it is asked again and again.

## Disagreements

* An expired lease or hard deadline does not prove that a context is dead.  The guard's timer fires
  at the deadline and the kill follows
  (`services/workflow-execution-guard/guard_linux_amd64.go:1186-1248, 1453`), while a claim, an expiry or
  a termination needs only `run_lease_until <= now` or `deadline_at <= now`: application code of the old
  epoch may run beside the new one, or after a published outcome, for as long as the kill takes.  Its
  journal writes are refused, its effects outside the journal are not.
  (`tlc -config WorkflowLateKill.cfg MCWorkflowRuns`.)  The comment at `src/workflow-execution.ts:357-361`
  says that "an expired lease or hard deadline is already a proof that this exact context cannot
  continue", and `docs/workflow-runtime.md:149` that the coordinator "does use its short lease's expiry
  as proof that an old execution is dead".
* The self-hosted Host acknowledges a stop while a mutation accepted from the context is unresolved: a
  run that rejects is stopped and its owner cleared with the step write still on its way
  (`tlc -config WorkflowStopBarrier.cfg MCWorkflowRuns`).  `src/selfhost-workflow-execution-host.ts:152-204`
  and `drainAfterStop` in `src/selfhost-workflow-http-transport.ts:164` join the readers of frames and
  never call `driver.stopBarrier`; only tests do.  `src/workflow-execution.ts:74-79` requires of the
  acknowledgement that all frames "are delivered and processed", and the comment at 965 says that "the
  Host must not acknowledge stop while an accepted mutation is unresolved".  The late write is fenced by
  the claim, and `EventsAccounted` and `RecordsFinal` hold all the same.
* Two overlapping `hold` calls of one reference, with the first hold settled before the second
  batch: allocations come back without an entry, `wallet()` throws from then on
  (`wallet_overlapping_holds`).
* A refund, or the release, closes a hold between the reads and the batch of its capture: the sums
  in the guard hold although nothing was moved, and both commit (`wallet_overlapping_settlement`).
* A debit planned before the expiry of a lot commits after a refund recorded the lot as expired
  (`wallet_late_debit`); when that refund was one of several parts, the later parts fail.
* A dead-letter notice carries the generation of the custody row, and its wake looks for an
  Operation of that generation.  After a Consumer is deleted and another created on its Queue the
  two differ: the notice is never acknowledged, and the new Consumer can neither be changed in
  policy nor deleted (`tlc -config QueueTransferAttribution.cfg MCQueueCustody`).  The comparison is
  at `src/takoform-v2/worker-queue-scheduler.ts:360`; the comment at line 352 says the accepted
  generation's references "still distinguish this from legacy custody or another target Queue", and
  `migrations/0055_queue_custody_transfer_notices.sql:5` that the caller "wakes it, then
  acknowledges this marker".
* A recovery of an Actor lease that was overtaken leaves its claim on the live winner's lock; the
  namespace is then blocked until it is repaired by hand (`actor_late_claim`).

## Proofs

`LedgerProofs` proves, for any sets of Resources, Operations, names, keys, passes and reference
choices that satisfy `LedgerAssumption` (identifiers are numbers, NULL is none of them), that
`LedgerInv` is an invariant of `LedgerSpec`, and from it: `LedgerTypeCorrect`, `OpenOwns`,
`GenerationsAccountedFor`, `DependenciesAlwaysStay`, `PublicationSerialized` and `HistoryKept`.

`DependenciesStay` is not inductive by itself.  It follows from two facts about the edges table:
`EdgesCover`, every dependency of a live Resource has its row, and `EdgesLive`, a row only joins
live Resources whose target is not being deleted.  `EdgesCover` survives settlements because an
Operation settles at its Resource's current generation (`OperationOwnsResource`) and because an
observed generation belongs to one Operation (`GenerationsUnique`), so pruning at success removes
what no generation in use needs; `EdgesLive` survives the end of a delete because a Resource in
phase deleting is one whose delete is open (`DeletePhase`).  `GenerationsCovered` and
`GenerationsUnique` together are `GenerationsAccounted`; `RowsAgree` ties rows to each other
(a generation of an Operation was reached by its Resource, a Resource that is not live is not
busy).  Each statement has a lemma; those that change only status, lease and schedule share
`QuietInv`.

`HostProofs` carries this to the engine, for any number of clients and passes as well.  Every step
of the engine is a statement of the ledger or leaves it alone (`EngineUsesLedger`), so all of the
above holds of `Spec`; and `HostInv` is inductive, from which `HostTypeCorrect`,
`NeverDispatchedTwice`, `OutcomeAlwaysTrue`, `InputsNeverAfterDispatch`, `SettledStays` and the
refinement `EngineKeepsContract` follow.  None of these is inductive by itself.  `DispatchedOnce`
needs to know who is about to call `execute`: such a pass has found its own mark (`PassesFollowMark`)
and is the only one, with no call before it (`ExecutesFirst`), because a row that can be marked is
`running` and a running row was never marked (`SendsRecorded`).  `OutcomeIsTrue` needs that a
conclusive answer stays true while its pass carries it to the ledger (`AnswersStand`), which is
where native fencing is used: the backend adds nothing after a conclusive answer.  Steps that
neither mark nor settle a row and leave passes ahead of the mark share `HarmlessInv`; the others
have a lemma each.  `HostInv` and `LedgerInv` were checked by TLC on the instances of
`host_passes` and `ledger_references` before they were proved.

What the engine's theorems assume is the backend contract stated at
`BackendWorks` and `Answer`; nothing is assumed of the order or the number of calls.

`WalletProofs` has two invariants and assumes nothing of the callers.  In `RefundInv` receipts
account for their share (`RefundsAccounted`: what was debited, lost to expiry and is owed adds up to
`Target`, which grows with what is refunded, so that a later part never takes back less than
nothing), and what a refund has read of its lot is current or shows by `before` that it is not
(`RefundPlansSound`).  From it follow `TypeCorrect` and `DebtStopsSpendingHolds`.  `WalletInv` gives
`LotsCoveredHolds`, `ReadableUntilOvertakenHolds`, `EntriesBackedHolds` and `FrozenUntouchedHolds`.
It adds that a hold being made finds no other of its reference unless one overtook it
(`HoldsAlone`), that what a settlement read still stands, or its batch will be refused because
another settlement came first, unless it was overtaken (`SettlementsSound`: the comparison with what
was captured meanwhile is what refuses the second of a capture and a release), that nothing is held
of a lot before it is funded (`HoldsFunded`), and that a replayed usage debit finds its own price
(`DebitsPriced`).  `WalletReadable` compares sums over references with sums over lots; it is
derived, by exchanging the two (`SumSwaps`), from the lot-by-lot fact that what a lot is worth
covers what is held and frozen of it.

`SumTheorems` says what `SumFunctionOnSet` of the community modules computes: that it is the sum of
an element and the rest whichever element is taken, adds pointwise, is monotone, ignores zeros and may
be exchanged.  The sum is defined by a fold over a chosen element, so all of this needs induction
over finite sets.  The library's induction rules take a predicate as a parameter, which the provers
cannot instantiate; `SubsetInduction` has the *set* of the good subsets as its parameter instead,
and rests on the least-number principle (`LeastNatural`), which follows from the library's theorem
that `<` is well-founded on the naturals.

`ActorLeaseProofs`: `LeaseInv`, for any Hosts, attempts and children.  `SingleOwner` rests on
`LockKept` (the lock of a live Host that has published is its own) and that on two facts about
recoveries: there is one at a time (`OneClaimant`: the claim is linked before, and unlinked after,
everything else) and the lock it unlinks is the one of a dead Host that it read first (`LockStale`).
`SingleNative` follows from `RunningIsRecorded`, there being one record, and that is kept because a
child runs only after it is recorded and a holder records or releases with no other running
(`ChildrenKept`).

`QueueProofs`: `QueueInv`, for any messages, batches, Consumers and policies.
`HandlerKeepsMessages` follows from `ClaimsLeased` (from registration on, what a batch claimed is
leased to it until it settles or expires).  `AttemptsAccounted` counts a set and is kept by each of
the five paths that give an attempt back because each touches only batches that were not sent.
`OldGenerationsIdle` needs that generations only come from creates and updates
(`GenerationsCounted`), `GivenUpAfterRetries` that a notice which is about to be acknowledged has had
every copy of its generation looked at (`NoticesKept`).  Steps are grouped by what they write
(`GivesBack`, `LetsGo`, `Retires`).

`CronProofs`: `CronInv`, for any triggers, minutes, Hosts, Versions and page sizes.  `SentOnce`
needs that whoever was told it may send is alone and nothing of the attempt was sent or resolved
(`SenderAlone`), which survives lost acknowledgements because the row is authorized once.
`ScanMissesNone` needs what an unfinished tick knows (`ScanKept`: every trigger it passed is decided
or still on its page) and that a page takes the least triggers after the cursor, for which the
set of triggers must be finite.  `VersionKept` needs that a Version whose removal was granted is
unused and stays so (`GrantedUnused`).

`WorkflowProofs`: `WorkflowInv`, for any number of calls, Hosts, steps, events, claims and faults
and for every length of leases, delays and lags; the theorems also cover what `AtMostTwo` leaves out
of the run.  `ClaimInv` is about claims: one driver of an epoch (`OneDriver`), a lease and contexts
whose hard deadlines end with it (`LeaseBounded`, `ContextsBounded`, `JobsTimely`: a renewal is in
the row before it is in the Host), and a context that was stopped by its Host or is past its
deadline before anyone parks, finalizes or releases (`StopsProved`).  Nothing is assumed of when a
guard kills; that an overdue context may still run is part of what `CodeUnderClaim` says.
`JournalInv` is about steps and events: what the driver of the claim has read of a wait is so
(`JobsLooked`), what a `sendEvent` has read is so while its revision stands (`SendsFresh`), a
waiting instance is parked on a wait that is open or has its event (`WaitersParked`), and every
accepted event has one place (`EventsPlaced`).  From them follow `CodeUnderClaimHolds`,
`WaitersWokenHolds`, `EventsAccountedHolds` and `RecordsFinalHolds`.

Each of these invariants was checked by TLC on the instance of its run before it was proved.  The
assumptions on constants are that bounds are numbers, that NULL (`None`) is no identifier and no
record, that lots, references and triggers are finite, and that amounts, prices and payments are
positive; TLC evaluates them in every run.

Only model-checked: `EventuallySettled`, since liveness under fairness is out of the provers' reach;
and the violations, which are counterexamples on their instances.  Every other property of the
passing runs is a theorem.

## Plan

1. Done: the ledger and the engine, the contract they implement, the wallet with refunds, the Actor
   lease, Queue custody with its Consumers, cron delivery with invocation custody, Workflow runs; and
   proofs of all their invariants and action properties.
2. Next modules: the endpoint and service ingress of invocation custody, the cancel saga and event
   replay of subscriptions, and the progress of Workflow instances (a due instance is polled and
   ends) under the fairness of `workflow-due-scheduler.ts`.
3. Next theorems: further abstract specifications in the manner of `OperationContract` for the Queue
   and the wallet.

## Not modelled

The repository has some 450 000 lines of implementation, and these modules map a small part of
them: the protocols in which several actors change shared state under failures.  Most of the rest
is adapters to suppliers and operating systems (`src/providers`, `src/workerd-runtime.ts`),
operator tooling (`scripts/deploy`), the retained v1 host (`src/takoform`), parsing, rendering and
tests.  There a model would repeat the code statement by statement without an interleaving to
explore.  `PROJECT.json` gives the reason for each component.  Of the parts that do interleave,
the cancel saga of subscriptions, the remaining ingress kinds and the sessions of Actor namespaces
are the ones still missing.

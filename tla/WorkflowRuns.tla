---------------------------- MODULE WorkflowRuns ----------------------------
(***************************************************************************)
(* The runs of one Workflow instance: claims under a lease, the native     *)
(* context that executes the application, the journal of its steps, events *)
(* and termination (workflow-execution.ts, workflow-instances.ts,          *)
(* workflow-due-scheduler.ts, selfhost-workflow-execution-host.ts, and the *)
(* execution guard in services/workflow-execution-guard).                  *)
(*                                                                         *)
(* A claim is identified by its epoch: every claim takes a new one, so     *)
(* "the row has this epoch and is owned" is CLAIM_ID.  One statement is    *)
(* one step, and so is a read with what is decided from its answer.  The   *)
(* clock is read before a statement is sent, so a statement may carry an   *)
(* instant up to Lag old.  Instants start at 1; 0 stands for NULL.  The    *)
(* row's retention ends after every instant considered, and the Workflow   *)
(* Resource stays live.  terminate, recoverTermination and sendV3Event     *)
(* look again as often as they must; the code gives up after eight times.  *)
(***************************************************************************)
EXTENDS Naturals, Sequences, FiniteSets, SequencesExt, FiniteSetsExt

CONSTANTS
  Controllers,  \* concurrent calls of runOne and terminate
  Hosts,        \* Host processes, each with its own registry of contexts
  Pollers,      \* the Hosts that run due instances; any Host serves terminate
  Names,        \* step names
  Plan,         \* the steps an application may ask for: pairs of a name and a kind
  Events,       \* calls of sendEvent
  LeaseMs,      \* length of a run lease
  Delay,        \* retry delay, sleep and wait timeout
  Retries,      \* length of a do step's retryDelaysSeconds
  MaxSteps,     \* MAX_STEPS
  MaxPending,   \* WORKFLOW_MAX_PENDING_EVENT_COUNT
  Deadline,     \* deadline_at of the instance
  Horizon,      \* bound on the clock
  Lag,          \* bound on the age of a statement's instant
  MaxEpoch,     \* bound on claims
  MaxTerminating, \* bound on concurrent calls of terminate
  MaxFaults,    \* bound on crashes and failed Host calls
  None

ASSUME WorkflowAssumption ==
  /\ Plan \subseteq Names \X {"do", "sleep", "wait"}
  /\ Pollers \subseteq Hosts
  /\ {LeaseMs, Delay, Deadline, Horizon} \subseteq Nat \ {0}
  /\ {Retries, MaxSteps, MaxPending, Lag, MaxEpoch, MaxFaults, MaxTerminating} \subseteq Nat
  /\ None \notin Names \cup Events \cup Hosts

VARIABLES
  now,      \* the clock
  row,      \* tf_workflow_instances
  steps,    \* tf_workflow_steps, None where there is no row
  queue,    \* tf_workflow_events in admission order
  context,  \* the native execution registered for each epoch
  job,      \* the runOne or terminate call of each controller
  send,     \* the sendEvent calls
  fresh,    \* the sendEvent calls whose revision is still the row's
  faults    \* crashes and failed Host calls so far

journal == <<steps, queue>>
vars == <<now, row, journal, context, job, send, fresh, faults>>

Epochs == 1..MaxEpoch
Terminal == {"complete", "errored", "terminated"}
Settled == {"complete", "errored"}
Least(m, n) == IF m < n THEN m ELSE n

NoContext == [state |-> "none", until |-> 0, host |-> None]
Dead(x) == IF x.state = "none" THEN x ELSE [x EXCEPT !.state = "stopped", !.until = 0]
NoCall == [phase |-> "none", name |-> None, prior |-> None, to |-> None, event |-> None]
NoJob == [op |-> "none", host |-> None, pc |-> "idle", epoch |-> 0, at |-> 0, owned |-> FALSE,
          next |-> "none", outcome |-> "none", name |-> None, beat |-> 0, renewed |-> 0,
          call |-> NoCall]

StepRows == [kind: {"do", "sleep", "wait"},
             state: {"pending", "retry_wait", "waiting", "complete", "errored"},
             attempt: 0..Retries, at: Nat, result: Events \cup {None}]

ASSUME NoneIsNoRow == None \notin StepRows

Rows == [status: {"queued", "running", "sleeping", "waiting"} \cup Terminal,
         epoch: 0..MaxEpoch, owned: BOOLEAN, lease: Nat, wakeAt: Nat,
         pending: Names \cup {None}, termination: BOOLEAN]
\* The step call in progress: what it read, what it writes, the event it consumes.
Calls == [phase: {"none", "insert", "effect", "write", "look", "consume"},
          name: Names \cup {None}, prior: StepRows \cup {None},
          to: StepRows \cup {None}, event: Events \cup {None}]

TypeOK ==
  /\ now \in 1..Horizon
  /\ row \in Rows
  /\ steps \in [Names -> StepRows \cup {None}]
  /\ queue \in Seq([event: Events, at: Nat])
  /\ context \in [Epochs -> [state: {"none", "paused", "running", "stopped", "expired"},
                             until: Nat, host: Hosts \cup {None}]]
  /\ job \in [Controllers ->
       [op: {"none", "run", "terminate"}, host: Hosts \cup {None},
        pc: {"idle", "claim", "claimed", "reread", "open", "opened", "executing", "stop",
             "park", "terminalize", "release", "mark", "marked", "recheck", "finalize", "clearbit"},
        epoch: 0..MaxEpoch, at: Nat, owned: BOOLEAN,
        next: {"none", "park", "terminalize", "release", "recheck", "clearbit"},
        outcome: {"none", "complete", "failed", "sleeping", "waiting"},
        name: Names \cup {None}, beat: Nat, renewed: Nat, call: Calls]]
  /\ send \in [Events -> [pc: {"idle", "commit", "accepted", "refused"},
                          at: Nat, direct: Names \cup {None}]]
  /\ fresh \subseteq Events
  /\ faults \in 0..MaxFaults

\* Instance creation: one queued row.
Init ==
  /\ now = 1
  /\ row = [status |-> "queued", epoch |-> 0, owned |-> FALSE, lease |-> 0, wakeAt |-> 0,
            pending |-> None, termination |-> FALSE]
  /\ steps = [n \in Names |-> None]
  /\ queue = <<>>
  /\ context = [e \in Epochs |-> NoContext]
  /\ job = [c \in Controllers |-> NoJob]
  /\ send = [v \in Events |-> [pc |-> "idle", at |-> 0, direct |-> None]]
  /\ fresh = {}
  /\ faults = 0

-----------------------------------------------------------------------------
(* The row.                                                                 *)

Instants == {t \in 1..now : now - t <= Lag}
Active(r) == r.status \notin Terminal
Claimed(e) == row.epoch = e /\ row.owned
Runnable(e, t) ==
  /\ Claimed(e) /\ row.status = "running" /\ ~row.termination
  /\ row.lease > t /\ Deadline > t

\* Every UPDATE of the row takes a new revision.
SetRow(r) == row' = r /\ fresh' = {}
KeepRow == UNCHANGED <<row, fresh>>
Unowned(r) == [r EXCEPT !.owned = FALSE, !.lease = 0]
Ended(r, status) == [r EXCEPT !.status = status, !.wakeAt = 0, !.pending = None]
DropJournal == steps' = [n \in Names |-> None] /\ queue' = <<>>

\* settleExpired: an instance past its lifetime ends, whoever owns it.
\* Faulty variant: whatever the status.
ExpiredAnyStatus(t) == Deadline <= t

Expired(t) == Active(row) /\ Deadline <= t
Expire == SetRow(Ended(row, "errored")) /\ DropJournal

\* clearOwner
ClearOwner(e) == IF Claimed(e) THEN SetRow(Unowned(row)) ELSE KeepRow

Tick ==
  /\ now < Horizon
  /\ now' = now + 1
  /\ UNCHANGED <<row, journal, context, job, send, fresh, faults>>

Executes(e) == context[e].state = "running"
\* The deadline of the context has come, although its guard may not have acted on it yet.
Overdue(e) == context[e].until <= now

\* The guard of a context kills it when the timer of its hard deadline has fired or the pipe
\* from its Host is closed: some time after either, and nobody waits for it.  The guard of a
\* started context then answers no stop any more.
GuardKills(e) ==
  /\ context[e].state \in {"paused", "running"}
  /\ Overdue(e) \/ context[e].host = None
  /\ context' = [context EXCEPT ![e].until = 0,
                   ![e].state = IF Executes(e) THEN "expired" ELSE "stopped"]
  /\ UNCHANGED <<now, row, journal, job, send, fresh, faults>>

\* status and get: any client may settle an expired instance.
Status ==
  /\ Expired(now)
  /\ Expire
  /\ UNCHANGED <<now, context, job, send, faults>>

-----------------------------------------------------------------------------
(* What becomes of a call.  A mutation it has accepted stays with it until  *)
(* it has landed; any other step call gets no answer any more.              *)

Accepted(j) == j.call.phase \in {"insert", "write", "consume"}
At(j, pc, e) == [NoJob EXCEPT !.op = j.op, !.host = j.host, !.pc = pc, !.epoch = e,
                              !.call = IF Accepted(j) THEN j.call ELSE NoCall]
Stopping(j, next) == [At(j, "stop", j.epoch) EXCEPT !.next = next]
\* stopAndClear
GiveUp(j) == Stopping(j, "release")
\* finish
Finish(j, outcome) == [Stopping(j, "terminalize") EXCEPT !.outcome = outcome]
\* park, up to the stop
Parking(j, status, n, at) ==
  [Stopping(j, "park") EXCEPT !.outcome = status, !.name = n, !.at = Least(at, Deadline)]

\* recoverTermination with the row r just read: stop the owner unless its time is over.
Recovering(j, r) ==
  LET next == IF Active(r) THEN "recheck" ELSE "clearbit"
      mustStop == r.owned /\ r.lease > now /\ Deadline > now
  IN [At(j, IF mustStop THEN "stop" ELSE next, r.epoch) EXCEPT
        !.next = IF mustStop THEN next ELSE "none", !.owned = r.owned]

Deferred(r) == r.wakeAt > now \/ (r.owned /\ r.lease > now) \/ Deadline <= now

\* What runOne and terminate do with the row r they read.
Reading(j, r) ==
  IF r.termination THEN Recovering(j, r)
  ELSE IF ~Active(r) THEN IF r.owned THEN GiveUp([j EXCEPT !.epoch = r.epoch]) ELSE NoJob
  ELSE IF j.op = "terminate" THEN [At(j, "mark", r.epoch) EXCEPT !.owned = r.owned]
  ELSE IF Deferred(r) \/ r.epoch = MaxEpoch THEN NoJob
  ELSE [At(j, "claim", r.epoch) EXCEPT !.at = now]
\* A call that could not conclude: terminate looks again, runOne reports stale.
Inconclusive(j) == IF j.op = "terminate" THEN Reading(j, row) ELSE NoJob
\* recoverTermination looks at the row again.
LookingAgain(j) ==
  IF row.termination THEN Recovering(j, row) ELSE IF Active(row) THEN Inconclusive(j) ELSE NoJob

Become(c, j) == job' = [job EXCEPT ![c] = j]
To(c, pc) == Become(c, [job[c] EXCEPT !.pc = pc])

-----------------------------------------------------------------------------
(* Calls of runOne and terminate up to the execution.                       *)

\* parseScannedRow
Due ==
  \/ row.termination
  \/ ~Active(row) /\ row.owned
  \/ Active(row) /\ (Deadline <= now \/ (row.wakeAt <= now /\ (row.owned => row.lease <= now)))

\* The poll found the instance due, or a client terminates it; both settle expiry first.
Begin(c, h, op) ==
  LET j == [NoJob EXCEPT !.op = op, !.host = h] IN
  /\ job[c].pc = "idle"
  /\ IF op = "run" THEN h \in Pollers /\ Due
     ELSE Cardinality({d \in Controllers : job[d].op = op}) < MaxTerminating
  /\ \E t \in Instants :
       IF Expired(t)
       THEN Expire /\ Become(c, Reading(j, Ended(row, "errored")))
       ELSE Become(c, Reading(j, row)) /\ KeepRow /\ UNCHANGED journal
  /\ UNCHANGED <<now, context, send, faults>>

Claim(c) ==
  LET j == job[c]
      until == Least(Deadline, j.at + LeaseMs)
  IN
  /\ j.pc = "claim"
  /\ IF /\ row.epoch = j.epoch /\ Active(row) /\ Deadline > j.at /\ ~row.termination
        /\ row.owned => row.lease <= j.at
        /\ row.wakeAt <= j.at
     THEN /\ SetRow([row EXCEPT !.status = "running", !.epoch = @ + 1, !.owned = TRUE,
                                !.lease = until, !.wakeAt = 0, !.pending = None])
          /\ Become(c, [At(j, "claimed", j.epoch + 1) EXCEPT !.at = until])
     ELSE KeepRow /\ Become(c, NoJob)
  /\ UNCHANGED <<now, journal, context, send, faults>>

\* The two checks before openPaused, which fail alike.
BeforeOpen(c) ==
  /\ job[c].pc = "claimed"
  /\ IF Runnable(job[c].epoch, now)
     THEN To(c, "open") /\ KeepRow
     ELSE ClearOwner(job[c].epoch) /\ To(c, "reread")
  /\ UNCHANGED <<now, journal, context, send, faults>>

Reread(c) ==
  /\ job[c].pc = "reread"
  /\ Become(c, IF row.termination THEN Recovering(job[c], row) ELSE NoJob)
  /\ UNCHANGED <<now, row, journal, context, send, fresh, faults>>

Registered(j) == [state |-> "paused", until |-> j.at, host |-> j.host]

\* openPaused: the context may not outlive the lease of its claim.
OpenPaused(c) ==
  LET j == job[c] IN
  /\ j.pc = "open"
  /\ IF j.at > now
     THEN context' = [context EXCEPT ![j.epoch] = Registered(j)] /\ To(c, "opened")
     ELSE Become(c, GiveUp(j)) /\ UNCHANGED context
  /\ UNCHANGED <<now, row, journal, send, fresh, faults>>

\* A failed open may have registered the context.
OpenFails(c) ==
  LET j == job[c] IN
  /\ j.pc = "open" /\ faults < MaxFaults
  /\ faults' = faults + 1
  /\ \/ context' = [context EXCEPT ![j.epoch] = Registered(j)]
     \/ UNCHANGED context
  /\ Become(c, GiveUp(j))
  /\ UNCHANGED <<now, row, journal, send, fresh>>

NextBeat == now + (IF LeaseMs \div 2 = 0 THEN 1 ELSE LeaseMs \div 2)

\* The last check, then the application starts and the heartbeat with it.
Start(c) ==
  LET j == job[c] IN
  /\ j.pc = "opened"
  /\ IF Runnable(j.epoch, now) /\ context[j.epoch].state = "paused" /\ ~Overdue(j.epoch)
     THEN /\ context' = [context EXCEPT ![j.epoch].state = "running"]
          /\ Become(c, [At(j, "executing", j.epoch) EXCEPT !.beat = NextBeat])
     ELSE Become(c, GiveUp(j)) /\ UNCHANGED context
  /\ UNCHANGED <<now, row, journal, send, fresh, faults>>

-----------------------------------------------------------------------------
(* Stopping a context, and what follows it.                                 *)

\* drainMutations
Drained(e) == \A d \in Controllers : job[d].epoch = e => ~Accepted(job[d])

\* A stop may be waiting for the instant at which the Host is asked again.
AsksHost(j) == j.pc = "stop" /\ now >= j.beat
Proved(j) == [j EXCEPT !.pc = j.next, !.beat = 0]

\* Faulty variant: an unknown context counts as a stopped one.
StopUnproved(c) ==
  LET j == job[c]
      mine == context[j.epoch].host = j.host
  IN
  /\ AsksHost(j)
  /\ context' = IF mine THEN [context EXCEPT ![j.epoch] = Dead(@)] ELSE context
  /\ Become(c, Proved(j))
  /\ UNCHANGED <<now, row, journal, send, fresh, faults>>

\* The Host that registered the context acknowledges its stop once the guard has reaped it;
\* it does not wait for the mutations that were accepted from it.
HostStops(j) ==
  /\ context[j.epoch].host = j.host
  /\ context[j.epoch].state # "expired"
  /\ context' = [context EXCEPT ![j.epoch] = Dead(@)]

\* Without an acknowledgement the claim must be gone or its lease or the lifetime run out;
\* else the Host is asked again when they have.
Stop(c) ==
  LET j == job[c] IN
  /\ AsksHost(j)
  /\ \/ HostStops(j) /\ Become(c, Proved(j))
     \/ /\ context[j.epoch].host # j.host
        /\ Become(c, IF ~Claimed(j.epoch) \/ row.lease <= now \/ Deadline <= now
                     THEN Proved(j)
                     ELSE [j EXCEPT !.beat = Least(row.lease, Deadline)])
        /\ UNCHANGED context
  /\ UNCHANGED <<now, row, journal, send, fresh, faults>>

\* The guard's timer has fired, so it answers a stop with an error.
GuardRefuses(j) ==
  /\ context[j.epoch].host = j.host
  /\ context[j.epoch].state = "expired" \/ (Executes(j.epoch) /\ Overdue(j.epoch))

\* A stop that is not acknowledged: the transition fails, the run is given up, and its owner
\* stays until the lease runs out.
StopFails(c) ==
  /\ AsksHost(job[c])
  /\ \/ GuardRefuses(job[c]) /\ UNCHANGED faults
     \/ faults < MaxFaults /\ faults' = faults + 1
  /\ Become(c, IF job[c].next \in {"park", "terminalize"} THEN GiveUp(job[c]) ELSE NoJob)
  /\ UNCHANGED <<now, row, journal, context, send, fresh>>

Release(c) ==
  /\ job[c].pc = "release"
  /\ ClearOwner(job[c].epoch)
  /\ Become(c, NoJob)
  /\ UNCHANGED <<now, journal, context, send, faults>>

Terminalize(c) ==
  LET j == job[c] IN
  /\ j.pc = "terminalize" /\ Drained(j.epoch)
  /\ \E t \in Instants :
       LET expired == t >= Deadline
           status == IF expired \/ j.outcome = "failed" THEN "errored" ELSE "complete"
       IN IF /\ Claimed(j.epoch) /\ ~row.termination /\ Active(row)
             /\ ~expired => row.status = "running" /\ row.lease > t
          THEN SetRow(Ended(row, status)) /\ DropJournal
          ELSE KeepRow /\ UNCHANGED journal
  /\ Become(c, At(j, "release", j.epoch))
  /\ UNCHANGED <<now, context, send, faults>>

\* The positions of the queued events that came in time for a wait.
Matching(until) == {i \in DOMAIN queue : queue[i].at <= until}

\* Faulty variant: the wake-up comes from the step alone.
ParkUntilTimeout(c) ==
  LET j == job[c] IN
  /\ j.pc = "park" /\ Drained(j.epoch)
  /\ \E t \in Instants :
       IF Runnable(j.epoch, t)
       THEN /\ SetRow([Unowned(row) EXCEPT !.status = j.outcome, !.pending = j.name, !.wakeAt = j.at])
            /\ Become(c, NoJob)
       ELSE KeepRow /\ Become(c, At(j, "release", j.epoch))
  /\ UNCHANGED <<now, journal, context, send, faults>>

\* Sleeping or waiting is published once the context has stopped; an event that arrived
\* before that makes the instance due at once.
Park(c) ==
  LET j == job[c] IN
  /\ j.pc = "park" /\ Drained(j.epoch)
  /\ \E t \in Instants :
       IF Runnable(j.epoch, t)
       THEN /\ SetRow([Unowned(row) EXCEPT
                 !.status = j.outcome, !.pending = j.name,
                 !.wakeAt = IF j.outcome = "waiting" /\ Matching(steps[j.name].at) # {}
                            THEN t ELSE j.at])
            /\ Become(c, NoJob)
       ELSE KeepRow /\ Become(c, At(j, "release", j.epoch))
  /\ UNCHANGED <<now, journal, context, send, faults>>

-----------------------------------------------------------------------------
(* The execution: heartbeat, outcome and steps.  A run is finishing as soon *)
(* as it has left "executing", and accepts no mutation from then on.        *)

\* The lease is renewed in SQL first, then in the Host.  The instant is read after the wait.
Renew(c) ==
  LET j == job[c] IN
  /\ j.pc = "executing" /\ j.renewed = 0
  /\ \E t \in Instants :
       LET until == Least(Deadline, t + LeaseMs) IN
       /\ t >= Least(Deadline, j.beat)
       /\ IF t >= Deadline THEN KeepRow /\ Become(c, Finish(j, "failed"))
          ELSE IF Runnable(j.epoch, t)
          THEN SetRow([row EXCEPT !.lease = until]) /\ Become(c, [j EXCEPT !.renewed = until])
          ELSE KeepRow /\ Become(c, GiveUp(j))
  /\ UNCHANGED <<now, journal, context, send, faults>>

\* extendDeadline refuses a context that is stopped or expired, and a deadline that is not later.
Extend(c) ==
  LET j == job[c] IN
  /\ j.pc = "executing" /\ j.renewed # 0
  /\ IF Executes(j.epoch) /\ ~Overdue(j.epoch) /\ j.renewed > context[j.epoch].until
     THEN /\ context' = [context EXCEPT ![j.epoch].until = j.renewed]
          /\ Become(c, [j EXCEPT !.renewed = 0, !.beat = NextBeat])
     ELSE Become(c, GiveUp(j)) /\ UNCHANGED context
  /\ UNCHANGED <<now, row, journal, send, fresh, faults>>

Recorded == {n \in Names : steps[n] # None}

\* The application's Promise: an outcome around an unsettled step is a mismatch.
Return(c) ==
  LET j == job[c] IN
  /\ j.pc = "executing" /\ Executes(j.epoch)
  /\ \E outcome \in {"complete", "failed"} :
       /\ j.call # NoCall \/ (\E n \in Recorded : steps[n].state \notin Settled)
            => outcome = "failed"
       /\ Become(c, Finish(j, outcome))
  /\ UNCHANGED <<now, row, journal, context, send, fresh, faults>>

\* session.run rejects: the context is gone, stopped from elsewhere or at its deadline, or
\* preparing or transporting it failed while it lives.
RunRejects(c) ==
  /\ job[c].pc = "executing"
  /\ \/ ~Executes(job[c].epoch) /\ UNCHANGED faults
     \/ faults < MaxFaults /\ faults' = faults + 1
  /\ Become(c, GiveUp(job[c]))
  /\ UNCHANGED <<now, row, journal, context, send, fresh>>

\* definitionMismatch: it outranks a park whose stop is pending.
Mismatch(c) ==
  LET j == job[c] IN
  /\ \/ j.pc = "executing"
     \/ j.next = "park" /\ j.pc = "stop"
  /\ Executes(j.epoch)
  /\ Become(c, Finish(j, "failed"))
  /\ UNCHANGED <<now, row, journal, context, send, fresh, faults>>

NewStep(k) == [kind |-> k, state |-> "pending", attempt |-> 0,
               at |-> IF k = "do" THEN 0 ELSE now + Delay, result |-> None]
SettledStep(s, state, result) == [s EXCEPT !.state = state, !.result = result, !.at = 0]

\* The call of step n that has read s: it goes on to a phase, or asks for a row to be written.
InPhase(j, p, n, s) ==
  [j EXCEPT !.call = [phase |-> p, name |-> n, prior |-> s, to |-> None, event |-> None]]
Writing(j, n, s, to) == [InPhase(j, "write", n, s) EXCEPT !.call.to = to]
Answered(j) == [j EXCEPT !.call = NoCall]

\* do, sleep and waitForEvent, once they know the step's row.
Proceed(j, n, s) ==
  CASE s.state \in Settled -> Answered(j)
    [] s.kind = "do" /\ s.state = "pending" -> InPhase(j, "effect", n, s)
    [] s.state = "retry_wait" ->
         IF s.at > now THEN Parking(j, "sleeping", n, s.at)
         ELSE Writing(j, n, s, [s EXCEPT !.state = "pending", !.at = 0])
    [] s.kind = "sleep" /\ s.state \in {"pending", "waiting"} ->
         IF s.at > Deadline THEN Finish(j, "failed")
         ELSE IF s.at <= now THEN Writing(j, n, s, SettledStep(s, "complete", None))
         ELSE IF s.state = "pending" THEN Writing(j, n, s, [s EXCEPT !.state = "waiting"])
         ELSE Parking(j, "sleeping", n, s.at)
    [] s.kind = "wait" /\ s.state = "pending" -> Writing(j, n, s, [s EXCEPT !.state = "waiting"])
    [] s.kind = "wait" /\ s.state = "waiting" -> InPhase(j, "look", n, s)

\* They go on like that after a write of their own too, but a retry or a sleep that was just
\* recorded parks without another look at the clock.
Continue(j, n, s) ==
  IF s.kind # "wait" /\ s.state \in {"retry_wait", "waiting"} THEN Parking(j, "sleeping", n, s.at)
  ELSE Proceed(j, n, s)

\* do, sleep or waitForEvent; a settled step answers from the journal and changes nothing.
CallStep(c, n, k) ==
  LET j == job[c] IN
  /\ j.pc = "executing" /\ Executes(j.epoch)
  /\ n \in Recorded => steps[n].state \notin Settled
  /\ Become(c,
       IF j.call # NoCall THEN Finish(j, "failed")
       ELSE IF ~Runnable(j.epoch, now) THEN GiveUp(j)
       ELSE IF n \notin Recorded THEN [InPhase(j, "insert", n, None) EXCEPT !.call.to = NewStep(k)]
       ELSE IF steps[n].kind # k THEN Finish(j, "failed")
       ELSE Proceed(j, n, steps[n]))
  /\ UNCHANGED <<now, row, journal, context, send, fresh, faults>>

\* Faulty variant: the failed attempt is counted twice.
EffectCountedTwice(c) ==
  LET j == job[c]
      s == j.call.prior
  IN
  /\ j.pc = "executing" /\ Executes(j.epoch) /\ j.call.phase = "effect"
  /\ s.attempt < Retries
  /\ Become(c, Writing(j, j.call.name, s,
               [s EXCEPT !.state = "retry_wait", !.attempt = @ + 2, !.at = now + Delay]))
  /\ UNCHANGED <<now, row, journal, context, send, fresh, faults>>

\* The effect of a do step: its result, its last error or the wait for a retry.
Effect(c) ==
  LET j == job[c]
      s == j.call.prior
      Write(to) == Become(c, Writing(j, j.call.name, s, to))
  IN
  /\ j.pc = "executing" /\ Executes(j.epoch) /\ j.call.phase = "effect"
  /\ \/ Write(SettledStep(s, "complete", None))
     \/ s.attempt = Retries /\ Write(SettledStep(s, "errored", None))
     \/ /\ s.attempt < Retries
        /\ Write([s EXCEPT !.state = "retry_wait", !.attempt = @ + 1, !.at = now + Delay])
  /\ UNCHANGED <<now, row, journal, context, send, fresh, faults>>

\* The events query of a waiting step.
Look(c) ==
  LET j == job[c]
      n == j.call.name
      s == j.call.prior
      found == Matching(s.at)
      first == queue[Min(found)].event
  IN
  /\ j.pc = "executing" /\ j.call.phase = "look"
  /\ Become(c,
       IF found # {}
       THEN [j EXCEPT !.call = [phase |-> "consume", name |-> n, prior |-> s,
                                to |-> SettledStep(s, "complete", first), event |-> first]]
       ELSE IF s.at <= now THEN Writing(j, n, s, SettledStep(s, "errored", None))
       ELSE Parking(j, "waiting", n, s.at))
  /\ UNCHANGED <<now, row, journal, context, send, fresh, faults>>

\* The statement of a mutation, guarded by the step's revision and the claim.
Mutation(e, t, k) ==
  /\ Runnable(e, t)
  /\ steps[k.name] = k.prior
  /\ k.phase = "insert" => Cardinality(Recorded) < MaxSteps
  /\ k.phase = "consume" => \E i \in DOMAIN queue : queue[i].event = k.event

\* An accepted mutation reaches SQL, at any time after it was accepted.  That of a process
\* which has died in the meantime is one that landed before.
Land(c) ==
  LET j == job[c]
      k == j.call
      running == j.pc = "executing"
  IN
  /\ Accepted(j)
  /\ \E t \in Instants :
       IF Mutation(j.epoch, t, k)
       THEN /\ steps' = [steps EXCEPT ![k.name] = k.to]
            /\ IF k.phase = "consume"
               THEN \E i \in DOMAIN queue : queue[i].event = k.event /\ queue' = RemoveAt(queue, i)
               ELSE UNCHANGED queue
            /\ Become(c, IF running THEN Continue(Answered(j), k.name, k.to) ELSE Answered(j))
       ELSE /\ UNCHANGED journal
            /\ Become(c, IF ~running THEN Answered(j)
                         ELSE IF k.phase = "insert" /\ Runnable(j.epoch, now)
                         THEN Finish(Answered(j), "failed") ELSE GiveUp(Answered(j)))
  /\ UNCHANGED <<now, row, context, send, fresh, faults>>

-----------------------------------------------------------------------------
(* Termination.                                                             *)

\* requestTermination
Mark(c) ==
  LET j == job[c] IN
  /\ j.pc = "mark"
  /\ IF row.epoch = j.epoch /\ row.owned = j.owned /\ ~row.termination /\ Active(row)
     THEN SetRow([row EXCEPT !.termination = TRUE]) /\ Become(c, At(j, "marked", j.epoch))
     ELSE KeepRow /\ Become(c, Inconclusive(j))
  /\ UNCHANGED <<now, journal, context, send, faults>>

Marked(c) ==
  /\ job[c].pc = "marked"
  /\ Become(c, LookingAgain(job[c]))
  /\ UNCHANGED <<now, row, journal, context, send, fresh, faults>>

\* The read after the stop.
Recheck(c) ==
  LET j == job[c] IN
  /\ j.pc = "recheck"
  /\ Become(c, IF row.epoch # j.epoch THEN Inconclusive(j)
               ELSE IF row.termination /\ Active(row)
               THEN [At(j, "finalize", j.epoch) EXCEPT !.owned = row.owned]
               ELSE LookingAgain(j))
  /\ UNCHANGED <<now, row, journal, context, send, fresh, faults>>

FinalizeTermination(c) ==
  LET j == job[c] IN
  /\ j.pc = "finalize"
  /\ IF row.epoch = j.epoch /\ row.owned = j.owned /\ row.termination /\ Active(row)
     THEN /\ \E t \in Instants :
               SetRow([Unowned(Ended(row, IF t >= Deadline THEN "errored" ELSE "terminated"))
                         EXCEPT !.termination = FALSE])
          /\ DropJournal
          /\ Become(c, NoJob)
     ELSE KeepRow /\ UNCHANGED journal /\ Become(c, LookingAgain(j))
  /\ UNCHANGED <<now, context, send, faults>>

\* clearTerminalTermination
ClearBit(c) ==
  LET j == job[c] IN
  /\ j.pc = "clearbit"
  /\ IF row.epoch = j.epoch /\ row.owned = j.owned /\ row.termination /\ ~Active(row)
     THEN SetRow([Unowned(row) EXCEPT !.termination = FALSE]) ELSE KeepRow
  /\ Become(c, NoJob)
  /\ UNCHANGED <<now, journal, context, send, faults>>

-----------------------------------------------------------------------------
(* Events.                                                                  *)

\* The parked wait that may take an event of this instant directly.
PendingWait(t) ==
  {n \in Recorded : /\ row.status = "waiting" /\ row.pending = n
                    /\ ~row.owned /\ ~row.termination /\ Deadline > t
                    /\ steps[n].kind = "wait" /\ steps[n].state = "waiting" /\ steps[n].at >= t}

\* What a sendEvent of instant t does with the instance it reads.
Attempt(v, t) ==
  IF Active(row)
  THEN /\ fresh' = fresh \cup {v}
       /\ send' = [send EXCEPT ![v] = [pc |-> "commit", at |-> t, direct |->
            IF PendingWait(t) = {} THEN None ELSE CHOOSE n \in PendingWait(t) : TRUE]]
  ELSE /\ UNCHANGED fresh
       /\ send' = [send EXCEPT ![v] = [pc |-> "refused", at |-> 0, direct |-> None]]

\* An instance that has expired is settled first, and so is terminal when it is read.
SendEvent(v) ==
  /\ send[v].pc = "idle"
  /\ \E t \in Instants :
       IF Expired(t)
       THEN Expire /\ send' = [send EXCEPT ![v].pc = "refused"]
       ELSE Attempt(v, t) /\ UNCHANGED <<row, journal>>
  /\ UNCHANGED <<now, context, job, faults>>

\* Faulty variant: the queue insert of the batch does not see that the wait took the event.
AdmitTwice(v) ==
  LET n == send[v].direct
      t == send[v].at
  IN
  /\ send[v].pc = "commit" /\ v \in fresh /\ Active(row)
  /\ IF n = None THEN KeepRow /\ UNCHANGED steps
     ELSE /\ steps' = [steps EXCEPT ![n] = SettledStep(@, "complete", v)]
          /\ SetRow([row EXCEPT !.wakeAt = t])
  /\ queue' = Append(queue, [event |-> v, at |-> t])
  /\ send' = [send EXCEPT ![v] = [pc |-> "accepted", at |-> 0, direct |-> None]]
  /\ UNCHANGED <<now, context, job, faults>>

\* One batch: complete the wait that was read, else queue the event, all under the revision.
\* While the revision of a parked instance stands, nobody changes its steps.  When it does
\* not, the same event is tried on what the instance has become.
Admit(v) ==
  LET n == send[v].direct
      t == send[v].at
      Became(pc) == send' = [send EXCEPT ![v] = [pc |-> pc, at |-> 0, direct |-> None]]
      SameRow == UNCHANGED row /\ fresh' = fresh \ {v}
  IN
  /\ send[v].pc = "commit"
  /\ IF v \notin fresh THEN Attempt(v, t) /\ UNCHANGED <<row, journal>>
     ELSE IF n # None /\ Matching(steps[n].at) = {}
     THEN /\ steps' = [steps EXCEPT ![n] = SettledStep(@, "complete", v)]
          /\ SetRow([row EXCEPT !.wakeAt = t])
          /\ Became("accepted")
          /\ UNCHANGED queue
     ELSE IF Active(row) /\ ~row.termination /\ Deadline > t /\ Len(queue) < MaxPending
     THEN /\ queue' = Append(queue, [event |-> v, at |-> t])
          /\ Became("accepted") /\ SameRow /\ UNCHANGED steps
     ELSE Became("refused") /\ SameRow /\ UNCHANGED journal
  /\ UNCHANGED <<now, context, job, faults>>

-----------------------------------------------------------------------------
\* A Host process dies: its calls are gone and nobody can address its contexts, which run on
\* until their guards have noticed.
Crash(h) ==
  /\ \/ \E c \in Controllers : job[c].host = h
     \/ \E e \in Epochs : context[e].host = h /\ context[e].state \in {"paused", "running"}
  /\ faults < MaxFaults
  /\ faults' = faults + 1
  /\ job' = [c \in Controllers |-> IF job[c].host = h THEN NoJob ELSE job[c]]
  /\ context' = [e \in Epochs |-> IF context[e].host = h THEN [context[e] EXCEPT !.host = None]
                                  ELSE context[e]]
  /\ UNCHANGED <<now, row, journal, send, fresh>>

\* The steps a controller takes by itself once its call has begun.
Work(c) ==
  \/ Claim(c) \/ BeforeOpen(c) \/ Reread(c) \/ OpenPaused(c) \/ Start(c)
  \/ Stop(c) \/ Release(c) \/ Terminalize(c) \/ Park(c)
  \/ Renew(c) \/ Extend(c) \/ RunRejects(c) \/ Look(c)
  \/ Mark(c) \/ Marked(c) \/ Recheck(c) \/ FinalizeTermination(c) \/ ClearBit(c)

Application(c) == Return(c) \/ Mismatch(c) \/ Effect(c) \/ \E p \in Plan : CallStep(c, p[1], p[2])

Next ==
  \/ Tick \/ Status
  \/ \E c \in Controllers :
       \/ \E op \in {"run", "terminate"} : \E h \in Hosts : Begin(c, h, op)
       \/ Work(c) \/ Application(c) \/ Land(c) \/ OpenFails(c) \/ StopFails(c)
  \/ \E e \in Epochs : GuardKills(e)
  \/ \E v \in Events : SendEvent(v) \/ Admit(v)
  \/ \E h \in Hosts : Crash(h)

Spec == Init /\ [][Next]_vars

-----------------------------------------------------------------------------
(* Properties.                                                              *)

\* Application code that runs is that of the current claim of a running instance, or that of
\* a context past its hard deadline which its guard has yet to kill: never two epochs within
\* their deadlines at once, never within its deadline after a park, a termination or an outcome
\* was published, although leases lapse, Hosts die and stops go unanswered.
CodeUnderClaim ==
  \A e \in Epochs : Executes(e) => (Claimed(e) /\ row.status = "running") \/ Overdue(e)

\* What the comment above recoverTermination claims: an expired lease or hard deadline is
\* already a proof that the context cannot continue.  It is not, for the guard kills after
\* its timer has fired (README, Disagreements).
DeadlineIsProof == \A e \in Epochs : Executes(e) => Claimed(e) /\ row.status = "running"

\* What WorkflowExecutionHost.stop and stopBarrier claim: the Host does not acknowledge a stop
\* while a mutation accepted from the context is unresolved.  The self-hosted Host does.
StopDrains == \A e \in Epochs : context[e].state = "stopped" => Drained(e)

\* An accepted event is in the queue or is the result of one wait, never both, twice or
\* neither; when the instance has ended nothing of its journal is left.
EventsAccounted ==
  LET Queued(v) == Cardinality({i \in DOMAIN queue : queue[i].event = v})
      Taken(v) == Cardinality({n \in Recorded : steps[n].result = v})
  IN IF Active(row)
     THEN \A v \in Events : Queued(v) + Taken(v) = IF send[v].pc = "accepted" THEN 1 ELSE 0
     ELSE Recorded = {} /\ queue = <<>>

\* No lost wake-up: an instance parked on a wait whose event has come is due, however the
\* sending of the event and the parking overlapped.
WaitersWoken ==
  (row.status = "waiting" /\ row.pending # None) =>
    LET s == steps[row.pending] IN
    s.state = "complete" \/ Matching(s.at) # {} => row.wakeAt <= now

\* What a settled step recorded is what every later replay reads, a published outcome stands,
\* and a requested termination is outrun by no completion and no park: no late driver of an
\* older epoch and no late settlement of expiry changes any of them.
RecordsFinal ==
  [][/\ ~Active(row) => row'.status = row.status
     /\ row.termination => row'.status \in {row.status, "terminated", "errored"}
     /\ Active(row') => \A n \in Recorded : steps[n].state \in Settled => steps'[n] = steps[n]]_vars

=============================================================================

---------------------------- MODULE CronDelivery ----------------------------
(***************************************************************************)
(* Scheduled delivery to one Worker: the scan that records cron matches    *)
(* and the lease under which a match is dispatched                         *)
(* (takoform-v2/worker-cron-trigger-scheduler.ts, migrations 0080, 0089),  *)
(* the custody of one physical attempt                                     *)
(* (takoform-v2/worker-invocation-custody.ts, migrations 0087, 0088) and   *)
(* the Operations it races: updates and deletes of triggers                *)
(* (worker-cron-trigger-backend.ts), republication of the Deployment,      *)
(* deletion of a Version (worker-native-deletions.ts).                     *)
(*                                                                         *)
(* One SQL statement is one step.  Every Host reads a clock of its own,    *)
(* which may step back: a tick may see any minute, and a lease may count   *)
(* as lapsed in one statement and as live in the next.                     *)
(***************************************************************************)
EXTENDS Naturals, FiniteSets, FiniteSetsExt

CONSTANTS
  Triggers,     \* uids of WorkerCronTriggers, numbers because the scan is in uid order
  Minutes,      \* the UTC minutes a clock may show
  Hosts,        \* processes that tick
  Versions,     \* WorkerVersions of the Worker
  Answers,      \* the answers of a handler: it resolved, it rejected
  PageSize,     \* SCAN_PAGE_SIZE
  MaxAttempts,  \* bound on the attempts of one match
  MaxWork,      \* bound on scans, claims, redeliveries and Operations together
  None

ASSUME CronAssumption ==
  /\ Triggers \subseteq Nat \ {0} /\ IsFiniteSet(Triggers) /\ Minutes \subseteq Nat \ {0}
  /\ PageSize \in Nat \ {0}
  /\ MaxAttempts \in Nat /\ MaxWork \in Nat
  /\ Answers \cap {"none", "pending", "dispatching", "running"} = {}
  /\ None \notin Versions \cup (Triggers \X Minutes)

VARIABLES
  trigger,     \* the trigger Resources
  deployment,  \* the Worker's Deployment; edges are its references to Versions
  version,     \* the Version Resources and their native deletion
  work,        \* scans, claims, redeliveries and Operations so far
  cursor,      \* tf_v2_worker_cron_scan_cursors; minute 0 when there is no row
  match,       \* tf_v2_worker_cron_matches
  tick,        \* the scan of each Host's current tick
  job,         \* the attempt each Host is delivering
  row,         \* tf_v2_worker_invocations, by match and attempt
  native,      \* the handler of an attempt
  sends,       \* native dispatches of an attempt
  considered   \* minutes at which a scan has decided about a trigger

graphVars == <<trigger, deployment, version>>
scanVars == <<cursor, tick, considered>>
custodyVars == <<row, native, sends>>
vars == <<graphVars, scanVars, match, job, custodyVars, work>>

Matches == Triggers \X Minutes
Attempts == 1..MaxAttempts
Invocations == Matches \X Attempts
Outstanding == {"pending", "dispatching"}
NoTick == [stage |-> "idle", minute |-> 0, saved |-> [minute |-> 0, after |-> 0, complete |-> FALSE],
           page |-> {}, last |-> 0, more |-> FALSE]
NoJob == [match |-> None, attempt |-> 0, stage |-> "idle", owner |-> FALSE]
NoRow == [phase |-> "none", version |-> None, generation |-> 0,
          noDispatch |-> FALSE, retired |-> FALSE, drain |-> "none"]

TypeOK ==
  /\ trigger \in [Triggers -> [phase: {"idle", "updating", "failed", "deleting", "clear", "deleted"},
                               generation: 1..(MaxWork + 1), settled: Minutes \cup {0}]]
  /\ deployment \in [phase: {"idle", "updating", "failed"}, generation: 1..(MaxWork + 1),
                     versions: SUBSET Versions, edges: SUBSET Versions]
  /\ version \in [Versions -> {"ready", "deleting", "granted"}]
  /\ work \in 0..MaxWork
  /\ cursor \in [minute: Minutes \cup {0}, after: Triggers \cup {0}, complete: BOOLEAN]
  /\ match \in [Matches -> [state: {"none"} \cup Outstanding \cup Answers, attempts: 0..MaxAttempts]]
  /\ \A h \in Hosts :
       /\ tick[h].stage \in {"idle", "scan", "record"}
       /\ tick[h].page \subseteq Triggers \X (1..(MaxWork + 1))
       /\ job[h].match \in Matches \cup {None} /\ job[h].attempt \in 0..MaxAttempts
       /\ job[h].stage \in {"idle", "claimed", "admitted", "authorized", "sent", "barred"}
       /\ job[h].stage # "idle" => tick[h] = NoTick
  /\ row \in [Invocations -> [phase: {"none", "admitted", "send_authorized", "pre_effect_refused"},
                              version: Versions \cup {None}, generation: 0..(MaxWork + 1),
                              noDispatch: BOOLEAN, retired: BOOLEAN,
                              drain: {"none", "pending", "drained"}]]
  /\ native \in [Invocations -> {"none", "running"} \cup Answers]
  /\ sends \in [Invocations -> Nat]
  /\ considered \in [Triggers -> SUBSET Minutes]

Init ==
  /\ trigger = [t \in Triggers |-> [phase |-> "idle", generation |-> 1, settled |-> 0]]
  /\ \E v \in Versions :
       deployment = [phase |-> "idle", generation |-> 1, versions |-> {v}, edges |-> {v}]
  /\ version = [v \in Versions |-> "ready"]
  /\ work = 0
  /\ cursor = NoTick.saved
  /\ match = [m \in Matches |-> [state |-> "none", attempts |-> 0]]
  /\ tick = [h \in Hosts |-> NoTick]
  /\ job = [h \in Hosts |-> NoJob]
  /\ row = [i \in Invocations |-> NoRow]
  /\ native = [i \in Invocations |-> "none"]
  /\ sends = [i \in Invocations |-> 0]
  /\ considered = [t \in Triggers |-> {}]

-----------------------------------------------------------------------------
(* The scan of one tick.                                                    *)

\* The bound on the length of what is explored.
Works == work < MaxWork /\ work' = work + 1

\* The active Deployment is settled, and every Version it selects is.
Serving ==
  /\ deployment.phase = "idle"
  /\ \A v \in deployment.versions : version[v] = "ready"

\* Faulty variant: a new minute is scanned from where the last one stopped.
AfterOfSaved(saved, k) == saved.after

\* Where the scan of minute k begins, given the saved cursor.
After(saved, k) == IF saved.minute = k THEN saved.after ELSE 0

\* Faulty variant: a tick starts while the Host's previous one is still delivering.
StartScanAnyway(h, k) ==
  /\ tick[h] = NoTick
  /\ cursor.minute <= k
  /\ ~(cursor.minute = k /\ cursor.complete)
  /\ Works
  /\ tick' = [tick EXCEPT ![h] = [NoTick EXCEPT !.stage = "scan", !.minute = k, !.saved = cursor,
                                                !.last = After(cursor, k)]]
  /\ UNCHANGED <<graphVars, cursor, considered, match, job, custodyVars>>

\* A tick reads the clock and the cursor.  A cursor ahead of the clock, or a minute scanned to
\* the end, leaves nothing to scan; the tick then only dispatches.
StartScan(h, k) ==
  /\ tick[h] = NoTick /\ job[h] = NoJob
  /\ cursor.minute <= k
  /\ ~(cursor.minute = k /\ cursor.complete)
  /\ Works
  /\ tick' = [tick EXCEPT ![h] = [NoTick EXCEPT !.stage = "scan", !.minute = k, !.saved = cursor,
                                                !.last = After(cursor, k)]]
  /\ UNCHANGED <<graphVars, cursor, considered, match, job, custodyVars>>

\* scanPage: the next idle triggers in uid order, and whether more follow.
ReadPage(h) ==
  LET idle == {t \in Triggers : t > tick[h].last /\ trigger[t].phase = "idle"}
      page == {t \in idle : Cardinality({u \in idle : u < t}) < PageSize}
      last == IF page = {} THEN tick[h].last ELSE Max(page)
      more == page # idle
      passed == {t \in Triggers : t > tick[h].last /\ t \notin page /\ (more => t < last)}
  IN /\ tick[h].stage = "scan"
     /\ tick' = [tick EXCEPT ![h].stage = "record", ![h].last = last, ![h].more = more,
                             ![h].page = {<<t, trigger[t].generation>> : t \in page}]
     /\ considered' = [t \in Triggers |-> considered[t] \cup
                                          (IF t \in passed THEN {tick[h].minute} ELSE {})]
     /\ UNCHANGED <<graphVars, cursor, match, job, custodyVars, work>>

\* The insert's own condition and its guard trigger: the trigger is still the one the page
\* showed, settled before the minute, the Worker serves, and no earlier minute is outstanding.
Recordable(t, g, k) ==
  /\ trigger[t].phase = "idle" /\ trigger[t].generation = g /\ trigger[t].settled < k
  /\ Serving
  /\ \A j \in Minutes : j < k => match[<<t, j>>].state \notin Outstanding

\* One candidate of the page.  Whether the cron expression names the minute is left open.
RecordMatch(h) ==
  /\ tick[h].stage = "record" /\ tick[h].page # {}
  /\ LET c == CHOOSE p \in tick[h].page : \A q \in tick[h].page : p[1] <= q[1]
         t == c[1]
         k == tick[h].minute
     IN /\ tick' = [tick EXCEPT ![h].page = @ \ {c}]
        /\ considered' = [considered EXCEPT ![t] = @ \cup {k}]
        /\ \/ /\ Recordable(t, c[2], k) /\ match[<<t, k>>].state = "none"
              /\ match' = [match EXCEPT ![<<t, k>>].state = "pending"]
           \/ UNCHANGED match
  /\ UNCHANGED <<graphVars, cursor, job, custodyVars, work>>

\* advanceScanCursor: an insert for the first cursor, else a compare-and-set on the saved one.
AdvanceCursor(h) ==
  /\ tick[h].stage = "record" /\ tick[h].page = {}
  /\ cursor' = IF cursor = tick[h].saved
               THEN [minute |-> tick[h].minute, after |-> tick[h].last, complete |-> ~tick[h].more]
               ELSE cursor
  /\ tick' = [tick EXCEPT ![h] = NoTick]
  /\ UNCHANGED <<graphVars, considered, match, job, custodyVars, work>>

-----------------------------------------------------------------------------
(* Claims and their settlement.                                             *)

Invocation(h) == <<job[h].match, job[h].attempt>>

\* A due match, or one whose lease has lapsed, is claimed under a new attempt and lease token;
\* the transition guard refuses a deleted trigger.
Claim(h, m) ==
  /\ tick[h] = NoTick /\ job[h] = NoJob
  /\ match[m].state \in Outstanding
  /\ trigger[m[1]].phase # "deleted"
  /\ match[m].attempts < MaxAttempts
  /\ Works
  /\ match' = [match EXCEPT ![m].state = "dispatching", ![m].attempts = @ + 1]
  /\ job' = [job EXCEPT ![h] = [match |-> m, attempt |-> match[m].attempts + 1,
                                stage |-> "claimed", owner |-> TRUE]]
  /\ UNCHANGED <<graphVars, scanVars, custodyVars>>

\* After a restart another adapter takes up an attempt that was admitted; it reports to no tick.
Redeliver(h, m) ==
  /\ tick[h] = NoTick /\ job[h] = NoJob
  /\ match[m].state = "dispatching" /\ row[<<m, match[m].attempts>>].phase # "none"
  /\ Works
  /\ job' = [job EXCEPT ![h] = [match |-> m, attempt |-> match[m].attempts,
                                stage |-> "claimed", owner |-> FALSE]]
  /\ UNCHANGED <<graphVars, scanVars, match, custodyVars>>

\* Faulty variant: any dispatching match is settled, whoever holds its lease.
HoldsMatch(h) == match[job[h].match].state = "dispatching"

\* state = 'dispatching' AND lease_token = ?
HoldsLease(h) ==
  /\ match[job[h].match].state = "dispatching"
  /\ match[job[h].match].attempts = job[h].attempt

\* The answer of invokeScheduled is recorded: the handler's own once it has one, otherwise
\* unknown, which makes the match due again.
Settle(h, result) ==
  /\ job[h].stage # "idle" /\ job[h].owner
  /\ \/ result = "pending"
     \/ job[h].stage = "sent" /\ result = native[Invocation(h)] /\ result \in Answers
  /\ match' = IF HoldsLease(h) THEN [match EXCEPT ![job[h].match].state = result] ELSE match
  /\ job' = [job EXCEPT ![h] = NoJob]
  /\ UNCHANGED <<graphVars, scanVars, custodyVars, work>>

\* The process stops, or a statement of the tick throws.  What it sent runs on.
Stop(h) ==
  /\ tick[h] # NoTick \/ job[h] # NoJob
  /\ tick' = [tick EXCEPT ![h] = NoTick]
  /\ job' = [job EXCEPT ![h] = NoJob]
  /\ UNCHANGED <<graphVars, cursor, considered, match, custodyVars, work>>

-----------------------------------------------------------------------------
(* Custody of one attempt.                                                  *)

\* Both statements compare the match, its lease and the publication with the current rows.
CurrentAttempt(m, a) ==
  /\ match[m].state = "dispatching" /\ match[m].attempts = a
  /\ trigger[m[1]].phase # "deleted"

\* admitCron, for a Version of the route that its caller resolved at generation g of the
\* Deployment: the row of (match, attempt) is inserted once; who finds one admitted for the
\* same route and Version goes on with it.
AdmitCron(h, v, g) ==
  LET i == Invocation(h) IN
  /\ job[h].stage = "claimed"
  /\ \/ /\ row[i].phase = "none"
        /\ CurrentAttempt(i[1], i[2])
        /\ Serving /\ deployment.generation = g /\ v \in deployment.versions
        /\ row' = [row EXCEPT ![i] = [NoRow EXCEPT !.phase = "admitted", !.version = v,
                                                   !.generation = g]]
     \/ /\ row[i].phase # "none" /\ row[i].version = v /\ row[i].generation = g
        /\ UNCHANGED row
  /\ job' = [job EXCEPT ![h].stage = "admitted"]
  /\ UNCHANGED <<graphVars, scanVars, match, native, sends, work>>

\* Faulty variant: a later authorization of the same row is granted again.
AuthorizableAgain(i) ==
  /\ row[i].phase \in {"admitted", "send_authorized"}
  /\ CurrentAttempt(i[1], i[2])
  /\ deployment.phase = "idle" /\ deployment.generation = row[i].generation
  /\ row[i].version \in deployment.versions /\ version[row[i].version] = "ready"

Authorizable(i) ==
  /\ row[i].phase = "admitted"
  /\ CurrentAttempt(i[1], i[2])
  /\ deployment.phase = "idle" /\ deployment.generation = row[i].generation
  /\ row[i].version \in deployment.versions /\ version[row[i].version] = "ready"

\* Faulty variant: the authorization trusts what admission compared.
BeginSendOnAdmission(h, acknowledged) ==
  LET i == Invocation(h) IN
  /\ job[h].stage = "admitted" /\ row[i].phase = "admitted"
  /\ row' = [row EXCEPT ![i].phase = "send_authorized"]
  /\ job' = [job EXCEPT ![h].stage = IF acknowledged THEN "authorized" ELSE "barred"]
  /\ UNCHANGED <<graphVars, scanVars, match, native, sends, work>>

\* beginSend.  A lost acknowledgement is no permission to send.
BeginSend(h, acknowledged) ==
  LET i == Invocation(h) IN
  /\ job[h].stage = "admitted" /\ Authorizable(i)
  /\ row' = [row EXCEPT ![i].phase = "send_authorized"]
  /\ job' = [job EXCEPT ![h].stage = IF acknowledged THEN "authorized" ELSE "barred"]
  /\ UNCHANGED <<graphVars, scanVars, match, native, sends, work>>

\* The adapter starts the handler once it was told it may.
Send(h) ==
  /\ job[h].stage = "authorized"
  /\ job' = [job EXCEPT ![h].stage = "sent"]
  /\ native' = [native EXCEPT ![Invocation(h)] = "running"]
  /\ sends' = [sends EXCEPT ![Invocation(h)] = @ + 1]
  /\ UNCHANGED <<graphVars, scanVars, match, row, work>>

HandlerEnds(i, result) ==
  /\ native[i] = "running"
  /\ native' = [native EXCEPT ![i] = result]
  /\ UNCHANGED <<graphVars, scanVars, match, job, row, sends, work>>

\* refuseBeforeSend.
RefuseBeforeSend(i) ==
  /\ row[i].phase = "admitted"
  /\ row' = [row EXCEPT ![i].phase = "pre_effect_refused"]
  /\ UNCHANGED <<graphVars, scanVars, match, job, native, sends, work>>

\* The row counts as sent and not yet resolved.
Sendable(i) == row[i].phase = "send_authorized" /\ ~row[i].noDispatch /\ ~row[i].retired

\* confirmNoNativeDispatch, by the one adapter that was authorized and has not sent.
ConfirmNoNativeDispatch(h) ==
  LET i == Invocation(h) IN
  /\ job[h].stage = "authorized"
  /\ Sendable(i) /\ row[i].drain = "none"
  /\ row' = [row EXCEPT ![i].noDispatch = TRUE]
  /\ job' = [job EXCEPT ![h].stage = "barred"]
  /\ UNCHANGED <<graphVars, scanVars, match, native, sends, work>>

\* armSQLiteExternalUse, before the handler's first statement on an external database.
ArmSQLiteExternalUse(i) ==
  /\ native[i] = "running"
  /\ Sendable(i) /\ row[i].drain = "none"
  /\ row' = [row EXCEPT ![i].drain = "pending"]
  /\ UNCHANGED <<graphVars, scanVars, match, job, native, sends, work>>

\* confirmNativeRetirement, with the receipt of a context that ended.
ConfirmNativeRetirement(i) ==
  /\ native[i] \in Answers
  /\ Sendable(i)
  /\ row' = [row EXCEPT ![i].retired = TRUE]
  /\ UNCHANGED <<graphVars, scanVars, match, job, native, sends, work>>

\* confirmSQLiteDrained, with the receipt of a drained database.
ConfirmSQLiteDrained(i) ==
  /\ row[i].retired /\ row[i].drain = "pending"
  /\ row' = [row EXCEPT ![i].drain = "drained"]
  /\ UNCHANGED <<graphVars, scanVars, match, job, native, sends, work>>

-----------------------------------------------------------------------------
(* Operations on the triggers, the Deployment and the Versions.             *)

\* A trigger and the Deployment of its Worker are not replaced at the same time.
AcceptTriggerUpdate(t) ==
  /\ trigger[t].phase \in {"idle", "failed"} /\ deployment.phase # "updating"
  /\ Works
  /\ trigger' = [trigger EXCEPT ![t].phase = "updating", ![t].generation = @ + 1]
  /\ UNCHANGED <<deployment, version, scanVars, match, job, custodyVars>>

\* The backend confirms the scheduled handler (settled at minute k), or its absence.
TriggerUpdateEnds(t, k) ==
  /\ trigger[t].phase = "updating"
  /\ \/ /\ Serving
        /\ trigger' = [trigger EXCEPT ![t].phase = "idle", ![t].settled = k]
     \/ trigger' = [trigger EXCEPT ![t].phase = "failed"]
  /\ UNCHANGED <<deployment, version, scanVars, match, job, custodyVars, work>>

AcceptTriggerDelete(t) ==
  /\ trigger[t].phase \in {"idle", "failed"}
  /\ Works
  /\ trigger' = [trigger EXCEPT ![t].phase = "deleting", ![t].generation = @ + 1]
  /\ UNCHANGED <<deployment, version, scanVars, match, job, custodyVars>>

\* The backend's pass finds no outstanding match; until then it answers unknown.
TriggerDeleteRuns(t) ==
  /\ trigger[t].phase = "deleting"
  /\ \A k \in Minutes : match[<<t, k>>].state \notin Outstanding
  /\ trigger' = [trigger EXCEPT ![t].phase = "clear"]
  /\ UNCHANGED <<deployment, version, scanVars, match, job, custodyVars, work>>

\* The Host commits the backend's answer.
TriggerDeleteEnds(t) ==
  /\ trigger[t].phase = "clear"
  /\ trigger' = [trigger EXCEPT ![t].phase = "deleted"]
  /\ UNCHANGED <<deployment, version, scanVars, match, job, custodyVars, work>>

\* A new release set of ready Versions, referenced from acceptance on.
AcceptDeploymentUpdate(S) ==
  /\ deployment.phase \in {"idle", "failed"}
  /\ S # {} /\ \A v \in S : version[v] = "ready"
  /\ \A t \in Triggers : trigger[t].phase # "updating"
  /\ Works
  /\ deployment' = [phase |-> "updating", generation |-> deployment.generation + 1,
                    versions |-> S, edges |-> deployment.edges \cup S]
  /\ UNCHANGED <<trigger, version, scanVars, match, job, custodyVars>>

DeploymentUpdateEnds ==
  /\ deployment.phase = "updating"
  /\ \/ deployment' = [deployment EXCEPT !.phase = "idle", !.edges = deployment.versions]
     \/ deployment' = [deployment EXCEPT !.phase = "failed"]
  /\ UNCHANGED <<trigger, version, scanVars, match, job, custodyVars, work>>

\* Faulty variant: external SQL still in flight does not count.
ResolvedOnRetirement(i) ==
  row[i].phase \in {"none", "pre_effect_refused"} \/ row[i].noDispatch \/ row[i].retired

\* External SQL of the attempt is in flight: it outlives the handler, and guards the deletion of
\* its Version in triggers of its own.
DrainPending(i) == row[i].drain = "pending"

\* The attempt never ran and never will, or it ended and its external database is drained.
Resolved(i) ==
  \/ row[i].phase \in {"none", "pre_effect_refused"}
  \/ row[i].noDispatch
  \/ row[i].retired /\ ~DrainPending(i)

\* No reference and no unresolved attempt holds the Version.
Unused(v) ==
  /\ v \notin deployment.edges
  /\ \A i \in Invocations : row[i].version = v => Resolved(i)

AcceptVersionDelete(v) ==
  /\ version[v] = "ready" /\ Unused(v)
  /\ Works
  /\ version' = [version EXCEPT ![v] = "deleting"]
  /\ UNCHANGED <<trigger, deployment, scanVars, match, job, custodyVars>>

\* grant: the deletion of the native code may be sent.
GrantNativeDeletion(v) ==
  /\ version[v] = "deleting" /\ Unused(v)
  /\ version' = [version EXCEPT ![v] = "granted"]
  /\ UNCHANGED <<trigger, deployment, scanVars, match, job, custodyVars, work>>

-----------------------------------------------------------------------------
Next ==
  \/ \E h \in Hosts :
       \/ \E k \in Minutes : StartScan(h, k)
       \/ ReadPage(h) \/ RecordMatch(h) \/ AdvanceCursor(h)
       \/ \E m \in Matches : Claim(h, m) \/ Redeliver(h, m)
       \/ \E r \in Answers \cup {"pending"} : Settle(h, r)
       \/ Stop(h)
       \/ \E v \in Versions, g \in 1..deployment.generation : AdmitCron(h, v, g)
       \/ \E a \in BOOLEAN : BeginSend(h, a)
       \/ Send(h) \/ ConfirmNoNativeDispatch(h)
  \/ \E i \in Invocations :
       \/ \E r \in Answers : HandlerEnds(i, r)
       \/ RefuseBeforeSend(i) \/ ArmSQLiteExternalUse(i)
       \/ ConfirmNativeRetirement(i) \/ ConfirmSQLiteDrained(i)
  \/ \E t \in Triggers :
       \/ AcceptTriggerUpdate(t) \/ AcceptTriggerDelete(t)
       \/ \E k \in Minutes : TriggerUpdateEnds(t, k)
       \/ TriggerDeleteRuns(t) \/ TriggerDeleteEnds(t)
  \/ \E S \in SUBSET Versions : AcceptDeploymentUpdate(S)
  \/ DeploymentUpdateEnds
  \/ \E v \in Versions : AcceptVersionDelete(v) \/ GrantNativeDeletion(v)

Spec == Init /\ [][Next]_vars

-----------------------------------------------------------------------------
(* Properties.                                                              *)

\* An attempt reaches the handler at most once, although its acknowledgements may be lost and
\* a restarted adapter may take it up again; a row that says it was refused or never
\* dispatched is about an attempt that did not and will not run.
SentOnce ==
  \A i \in Invocations :
    /\ sends[i] <= 1
    /\ sends[i] = 1 => row[i].phase = "send_authorized" /\ ~row[i].noDispatch

\* Once the deletion of a Version's native code may be sent, no handler of it is running or
\* about to be started and none of its external SQL is in flight.
VersionKept ==
  \A v \in Versions : version[v] = "granted" =>
    /\ v \notin deployment.edges
    /\ \A i \in Invocations : row[i].version = v =>
         native[i] # "running" /\ row[i].drain # "pending"
    /\ \A h \in Hosts : job[h].stage = "authorized" => row[Invocation(h)].version # v

\* A settled match carries the answer of its last attempt: the late answer of an attempt whose
\* lease was taken over settles nothing.  And a deleted trigger leaves no match to dispatch:
\* the transition guard would refuse its claim, and the refusal would end every later tick.
ResultOfLastAttempt ==
  /\ \A m \in Matches : match[m].state \in Answers =>
       native[<<m, match[m].attempts>>] = match[m].state
  /\ \A t \in Triggers : trigger[t].phase = "deleted" =>
       \A k \in Minutes : match[<<t, k>>].state \notin Outstanding

\* The cursor passes no trigger that no scan of its minute decided about, whatever pages,
\* Hosts and restarts the scan was made of and wherever the clocks stood.
ScanMissesNone ==
  cursor.minute # 0 =>
    \A t \in Triggers : (cursor.complete \/ t <= cursor.after) => cursor.minute \in considered[t]

\* An attempt is authorized only while the match is its own and the Deployment that admitted
\* it still serves its Version: a takeover, a republication or a deletion accepted between
\* admission and authorization prevents the send.
AuthorizedForServing ==
  [][\A i \in Invocations :
       row[i].phase # "send_authorized" /\ row'[i].phase = "send_authorized" =>
         /\ match[i[1]].state = "dispatching" /\ match[i[1]].attempts = i[2]
         /\ deployment.phase = "idle" /\ deployment.generation = row[i].generation
         /\ version[row[i].version] = "ready"]_vars

=============================================================================

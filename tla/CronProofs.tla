----------------------------- MODULE CronProofs -----------------------------
(***************************************************************************)
(* Scheduled delivery, for any triggers, minutes, Hosts, Versions and page *)
(* size: CronInv is inductive, and the properties of CronDelivery follow.  *)
(***************************************************************************)
EXTENDS CronDelivery, FiniteSetTheorems, WellFoundedInduction, TLAPS

TriggerRecord ==
  [phase: {"idle", "updating", "failed", "deleting", "clear", "deleted"},
   generation: 1..(MaxWork + 1), settled: Minutes \cup {0}]

DeploymentRecord ==
  [phase: {"idle", "updating", "failed"}, generation: 1..(MaxWork + 1),
   versions: SUBSET Versions, edges: SUBSET Versions]

CursorRecord == [minute: Minutes \cup {0}, after: Triggers \cup {0}, complete: BOOLEAN]

MatchRecord == [state: {"none"} \cup Outstanding \cup Answers, attempts: 0..MaxAttempts]

TickRecord ==
  [stage: {"idle", "scan", "record"}, minute: Minutes \cup {0}, saved: CursorRecord,
   page: SUBSET (Triggers \X (1..(MaxWork + 1))), last: Triggers \cup {0}, more: BOOLEAN]

JobRecord ==
  [match: Matches \cup {None}, attempt: 0..MaxAttempts,
   stage: {"idle", "claimed", "admitted", "authorized", "sent", "barred"}, owner: BOOLEAN]

CustodyRecord ==
  [phase: {"none", "admitted", "send_authorized", "pre_effect_refused"},
   version: Versions \cup {None}, generation: 0..(MaxWork + 1),
   noDispatch: BOOLEAN, retired: BOOLEAN, drain: {"none", "pending", "drained"}]

\* The types, with those of the ticks and jobs in full.
Types ==
  /\ trigger \in [Triggers -> TriggerRecord]
  /\ deployment \in DeploymentRecord
  /\ version \in [Versions -> {"ready", "deleting", "granted"}]
  /\ work \in 0..MaxWork
  /\ cursor \in CursorRecord
  /\ match \in [Matches -> MatchRecord]
  /\ tick \in [Hosts -> TickRecord]
  /\ job \in [Hosts -> JobRecord]
  /\ row \in [Invocations -> CustodyRecord]
  /\ native \in [Invocations -> {"none", "running"} \cup Answers]
  /\ sends \in [Invocations -> Nat]
  /\ considered \in [Triggers -> SUBSET Minutes]

\* Every generation was paid for with work.
GenerationsBounded ==
  /\ \A t \in Triggers : trigger[t].generation <= work + 1
  /\ deployment.generation <= work + 1

\* A Host delivers or scans; what it delivers is an attempt that was claimed.
JobsClaimed ==
  /\ \A h \in Hosts : job[h].stage = "idle" => job[h] = NoJob
  /\ \A h \in Hosts : job[h].stage # "idle" =>
       tick[h] = NoTick /\ job[h].match \in Matches /\ job[h].attempt \in Attempts
  /\ \A m \in Matches : match[m].state \in {"dispatching"} \cup Answers => match[m].attempts \in Attempts

\* The scan of a Host has decided about every trigger it passed or still has it on its page.
Decided(h, t) ==
  tick[h].minute \in considered[t] \/ \E p \in tick[h].page : p[1] = t

ScanKept ==
  \A h \in Hosts : tick[h].stage # "idle" =>
    /\ tick[h].minute \in Minutes
    /\ tick[h].stage = "scan" => tick[h].page = {}
    /\ \A t \in Triggers :
         t <= tick[h].last \/ (tick[h].stage = "record" /\ ~tick[h].more) => Decided(h, t)

\* Who was told that it may send is the only one, and nothing was sent or resolved.
Unsent(i) ==
  /\ row[i].phase = "send_authorized" /\ ~row[i].noDispatch /\ ~row[i].retired
  /\ row[i].drain = "none" /\ sends[i] = 0

SenderAlone ==
  /\ \A h \in Hosts : job[h].stage = "authorized" => Unsent(Invocation(h))
  /\ \A g, h \in Hosts :
       job[g].stage = "authorized" /\ job[h].stage = "authorized" /\ Invocation(g) = Invocation(h) => g = h

\* What the row of an attempt says of its handler.
RowTruthful ==
  \A i \in Invocations :
    /\ sends[i] \in {0, 1}
    /\ sends[i] = 0 <=> native[i] = "none"
    /\ sends[i] = 1 => row[i].phase = "send_authorized" /\ ~row[i].noDispatch
    /\ row[i].drain # "none" => sends[i] = 1
    /\ row[i].retired => native[i] \in Answers
    /\ row[i].noDispatch => row[i].phase = "send_authorized"
    /\ row[i].phase = "none" => row[i].version = None

\* A Version that is being removed stays unused.
GrantedUnused ==
  /\ deployment.versions \subseteq deployment.edges
  /\ \A v \in Versions : version[v] = "granted" => Unused(v)

\* Answers are those of the last attempt, and a trigger without a match to dispatch gets none.
MatchesSettled ==
  /\ \A m \in Matches : match[m].state \in Answers => native[<<m, match[m].attempts>>] = match[m].state
  /\ \A t \in Triggers : trigger[t].phase \in {"clear", "deleted"} =>
       \A k \in Minutes : match[<<t, k>>].state \notin Outstanding

CronInv ==
  /\ Types
  /\ GenerationsBounded
  /\ JobsClaimed
  /\ ScanKept
  /\ ScanMissesNone
  /\ SenderAlone
  /\ RowTruthful
  /\ GrantedUnused
  /\ MatchesSettled

-----------------------------------------------------------------------------
(* The steps, by what they write.                                           *)

ScanStep(h) ==
  \/ \E k \in Minutes : StartScan(h, k)
  \/ ReadPage(h) \/ RecordMatch(h) \/ AdvanceCursor(h)

LeaseStep(h) ==
  \/ \E m \in Matches : Claim(h, m) \/ Redeliver(h, m)
  \/ \E r \in Answers \cup {"pending"} : Settle(h, r)
  \/ Stop(h)

SendStep(h) ==
  \/ \E v \in Versions, g \in 1..deployment.generation : AdmitCron(h, v, g)
  \/ \E a \in BOOLEAN : BeginSend(h, a)
  \/ Send(h) \/ ConfirmNoNativeDispatch(h)

RowStep(i) ==
  \/ \E r \in Answers : HandlerEnds(i, r)
  \/ RefuseBeforeSend(i) \/ ArmSQLiteExternalUse(i)
  \/ ConfirmNativeRetirement(i) \/ ConfirmSQLiteDrained(i)

TriggerStep(t) ==
  \/ AcceptTriggerUpdate(t) \/ AcceptTriggerDelete(t)
  \/ \E k \in Minutes : TriggerUpdateEnds(t, k)
  \/ TriggerDeleteRuns(t) \/ TriggerDeleteEnds(t)

DeploymentStep ==
  \/ \E S \in SUBSET Versions : AcceptDeploymentUpdate(S)
  \/ DeploymentUpdateEnds

VersionStep(v) == AcceptVersionDelete(v) \/ GrantNativeDeletion(v)

\* Every step is one of these, or changes nothing.
LEMMA StepCases ==
  ASSUME [Next]_vars
  PROVE  \/ \E h \in Hosts : ScanStep(h) \/ LeaseStep(h) \/ SendStep(h)
         \/ \E i \in Invocations : RowStep(i)
         \/ \E t \in Triggers : TriggerStep(t)
         \/ DeploymentStep
         \/ \E v \in Versions : VersionStep(v)
         \/ UNCHANGED vars
BY DEF Next, ScanStep, LeaseStep, SendStep, RowStep, TriggerStep, DeploymentStep, VersionStep

\* A finite non-empty set of numbers has a greatest element: a smallest subset without one
\* cannot be had by adding a number to a set that has one.
LEMMA GreatestExists ==
  ASSUME NEW S \in SUBSET Nat, IsFiniteSet(S), S # {}
  PROVE  \E x \in S : \A y \in S : x >= y
<1> DEFINE HasGreatest(T) == \E x \in T : \A y \in T : x >= y
           Bad == {T \in SUBSET S : T # {} /\ ~HasGreatest(T)}
<1> SUFFICES ASSUME Bad # {} PROVE FALSE
  BY S \in SUBSET S
<1>1. IsWellFoundedOn(StrictSubsetOrdering(S), SUBSET S)
  BY FS_StrictSubsetOrderingWellFounded, FS_FiniteSubsetsOfFinite
<1>2. Bad \subseteq SUBSET S
  OBVIOUS
<1>3. PICK T \in Bad : \A R \in Bad : ~(<<R, T>> \in StrictSubsetOrdering(S))
  <2> HIDE DEF Bad
  <2> QED
    BY <1>1, <1>2, WFMin
<1>4. PICK x \in T : TRUE
  OBVIOUS
<1> DEFINE R == T \ {x}
<1>5. R \notin Bad
  <2>1. <<R, T>> \in StrictSubsetOrdering(S)
    BY <1>2, <1>4 DEF StrictSubsetOrdering
  <2> QED
    BY <1>3, <2>1
<1>6. CASE R = {}
  <2>1. \A y \in T : x >= y
    BY <1>4, <1>6
  <2> QED
    BY <1>4, <2>1
<1>7. CASE R # {}
  <2>1. PICK z \in R : \A y \in R : z >= y
    BY <1>5, <1>7
  <2>2. x \in Nat /\ z \in Nat /\ T \subseteq Nat
    BY <1>4
  <2>3. CASE z >= x
    <3>1. \A y \in T : z >= y
      BY <2>1, <2>3
    <3> QED
      BY <2>1, <3>1
  <2>4. CASE ~(z >= x)
    <3>1. \A y \in T : x >= y
      BY <2>1, <2>2, <2>4
    <3> QED
      BY <1>4, <3>1
  <2> QED
    BY <2>3, <2>4
<1> QED
  BY <1>6, <1>7

\* The last trigger of a page is on it.
LEMMA LastOnPage ==
  ASSUME NEW page \in SUBSET Triggers, page # {}
  PROVE  Max(page) \in page /\ \A t \in page : t <= Max(page)
<1>1. IsFiniteSet(page) /\ page \in SUBSET Nat
  BY CronAssumption, FS_Subset
<1>2. \E x \in page : \A y \in page : x >= y
  BY <1>1, GreatestExists
<1> QED
  BY <1>1, <1>2 DEF Max

\* An attempt that is being delivered is one of a match.
LEMMA InvocationOfJob ==
  ASSUME JobsClaimed, NEW h \in Hosts, job[h].stage # "idle"
  PROVE  Invocation(h) \in Invocations
BY DEF JobsClaimed, Invocation, Invocations

\* Initially nothing is scanned, claimed or sent.
LEMMA InitInv == Init => CronInv
<1> SUFFICES ASSUME Init PROVE CronInv
  OBVIOUS
<1> USE CronAssumption DEF Init, NoTick, NoJob, NoRow
<1>1. Types
  BY DEF Types, TriggerRecord, DeploymentRecord, CursorRecord, MatchRecord, TickRecord, JobRecord, CustodyRecord
<1>2. GenerationsBounded
  BY DEF GenerationsBounded
<1>3. JobsClaimed
  BY DEF JobsClaimed
<1>4. ScanKept /\ ScanMissesNone
  BY DEF ScanKept, ScanMissesNone
<1>5. SenderAlone /\ RowTruthful
  BY DEF SenderAlone, RowTruthful
<1>6. GrantedUnused /\ MatchesSettled
  BY DEF GrantedUnused, MatchesSettled, Outstanding, Matches
<1> QED
  BY <1>1, <1>2, <1>3, <1>4, <1>5, <1>6 DEF CronInv

-----------------------------------------------------------------------------
(* What each kind of step leaves alone.                                     *)

\* At most one unit of work is done.
Pays == UNCHANGED work \/ Works

\* A scan writes the cursor, its tick and matches.
LEMMA ScanLeaves ==
  ASSUME NEW h \in Hosts, ScanStep(h)
  PROVE  UNCHANGED <<graphVars, job, custodyVars>> /\ Pays
BY DEF ScanStep, StartScan, ReadPage, RecordMatch, AdvanceCursor, Pays

\* Claims and settlements write the match and the job; a Host that stops loses its tick.
LEMMA LeaseLeaves ==
  ASSUME NEW h \in Hosts, LeaseStep(h)
  PROVE  UNCHANGED <<graphVars, cursor, considered, custodyVars>> /\ Pays
<1>1. ASSUME NEW m \in Matches, Claim(h, m)
      PROVE  UNCHANGED <<graphVars, cursor, considered, custodyVars>> /\ Pays
  BY <1>1 DEF Claim, Pays, scanVars
<1>2. ASSUME NEW m \in Matches, Redeliver(h, m)
      PROVE  UNCHANGED <<graphVars, cursor, considered, custodyVars>> /\ Pays
  BY <1>2 DEF Redeliver, Pays, scanVars
<1>3. ASSUME NEW r \in Answers \cup {"pending"}, Settle(h, r)
      PROVE  UNCHANGED <<graphVars, cursor, considered, custodyVars>> /\ Pays
  BY <1>3 DEF Settle, Pays, scanVars
<1>4. CASE Stop(h)
  BY <1>4 DEF Stop, Pays, scanVars
<1> QED
  BY <1>1, <1>2, <1>3, <1>4 DEF LeaseStep

\* Custody writes the row, the job and the handler.
LEMMA SendLeaves ==
  ASSUME NEW h \in Hosts, SendStep(h)
  PROVE  UNCHANGED <<graphVars, scanVars, match, work>>
BY DEF SendStep, AdmitCron, BeginSend, Send, ConfirmNoNativeDispatch

\* What happens to an attempt by itself writes its row or its handler.
LEMMA RowLeaves ==
  ASSUME NEW i \in Invocations, RowStep(i)
  PROVE  UNCHANGED <<graphVars, scanVars, match, job, sends, work>>
BY DEF RowStep, HandlerEnds, RefuseBeforeSend, ArmSQLiteExternalUse, ConfirmNativeRetirement, ConfirmSQLiteDrained

\* Operations on a trigger write the trigger.
LEMMA TriggerLeaves ==
  ASSUME NEW t \in Triggers, TriggerStep(t)
  PROVE  UNCHANGED <<deployment, version, scanVars, match, job, custodyVars>> /\ Pays
BY DEF TriggerStep, AcceptTriggerUpdate, AcceptTriggerDelete, TriggerUpdateEnds, TriggerDeleteRuns, TriggerDeleteEnds, Pays

\* Operations on the Deployment write the Deployment.
LEMMA DeploymentLeaves ==
  ASSUME DeploymentStep
  PROVE  UNCHANGED <<trigger, version, scanVars, match, job, custodyVars>> /\ Pays
BY DEF DeploymentStep, AcceptDeploymentUpdate, DeploymentUpdateEnds, Pays

\* Operations on a Version write the Version.
LEMMA VersionLeaves ==
  ASSUME NEW v \in Versions, VersionStep(v)
  PROVE  UNCHANGED <<trigger, deployment, scanVars, match, job, custodyVars>> /\ Pays
BY DEF VersionStep, AcceptVersionDelete, GrantNativeDeletion, Pays

-----------------------------------------------------------------------------
(* The types.                                                               *)

GraphTyped ==
  /\ trigger \in [Triggers -> TriggerRecord] /\ deployment \in DeploymentRecord
  /\ version \in [Versions -> {"ready", "deleting", "granted"}] /\ work \in 0..MaxWork
  /\ GenerationsBounded

\* The work is bounded, and generations are no further than it.
LEMMA WorkTyped ==
  ASSUME CronInv, Pays
  PROVE  /\ work' \in 0..MaxWork
         /\ \A t \in Triggers : trigger[t].generation \in 1..(work' + 1)
         /\ deployment.generation \in 1..(work' + 1)
<1>1. work \in Nat /\ work' \in 0..MaxWork /\ work <= work'
  BY CronAssumption DEF CronInv, Types, Pays, Works
<1>2. \A t \in Triggers : trigger[t].generation \in 1..(MaxWork + 1)
  BY DEF CronInv, Types, TriggerRecord
<1>3. deployment.generation \in 1..(MaxWork + 1)
  BY DEF CronInv, Types, DeploymentRecord
<1> QED
  BY <1>1, <1>2, <1>3, CronAssumption DEF CronInv, GenerationsBounded

\* The trigger Resources keep their type: no generation grows without work.
LEMMA TriggerTypes ==
  ASSUME CronInv, NEW t \in Triggers, TriggerStep(t)
  PROVE  /\ trigger' \in [Triggers -> TriggerRecord]
         /\ \A u \in Triggers : trigger'[u].generation <= work' + 1
<1>1. Pays
  BY TriggerLeaves
<1>2. work' \in 0..MaxWork /\ \A u \in Triggers : trigger[u].generation \in 1..(work' + 1)
  BY <1>1, WorkTyped
<1>3. trigger \in [Triggers -> TriggerRecord]
  BY DEF CronInv, Types
<1>4. \/ \E p \in {"idle", "updating", "failed", "deleting", "clear", "deleted"} :
           trigger' = [trigger EXCEPT ![t].phase = p]
      \/ \E p \in {"updating", "deleting"} :
           trigger' = [trigger EXCEPT ![t].phase = p, ![t].generation = @ + 1] /\ Works
      \/ \E k \in Minutes : trigger' = [trigger EXCEPT ![t].phase = "idle", ![t].settled = k]
  BY DEF TriggerStep, AcceptTriggerUpdate, AcceptTriggerDelete, TriggerUpdateEnds, TriggerDeleteRuns, TriggerDeleteEnds
<1>5. ASSUME NEW p \in {"idle", "updating", "failed", "deleting", "clear", "deleted"},
             trigger' = [trigger EXCEPT ![t].phase = p]
      PROVE  /\ trigger' \in [Triggers -> TriggerRecord]
             /\ \A u \in Triggers : trigger'[u].generation <= work' + 1
  BY <1>2, <1>3, <1>5 DEF TriggerRecord
<1>6. ASSUME NEW p \in {"updating", "deleting"},
             trigger' = [trigger EXCEPT ![t].phase = p, ![t].generation = @ + 1], Works
      PROVE  /\ trigger' \in [Triggers -> TriggerRecord]
             /\ \A u \in Triggers : trigger'[u].generation <= work' + 1
  <2>1. work \in Nat /\ work' = work + 1 /\ work' <= MaxWork
    BY <1>6, CronAssumption DEF Works, CronInv, Types
  <2>2. trigger[t].generation + 1 \in 1..(work' + 1)
    BY <2>1, <1>3 DEF CronInv, GenerationsBounded, TriggerRecord
  <2>3. trigger[t].generation + 1 \in 1..(MaxWork + 1)
    BY <2>1, <2>2, CronAssumption
  <2>4. trigger' = [trigger EXCEPT ![t] = [phase |-> p, generation |-> trigger[t].generation + 1,
                                           settled |-> trigger[t].settled]]
    BY <1>3, <1>6 DEF TriggerRecord
  <2> DEFINE new == [phase |-> p, generation |-> trigger[t].generation + 1, settled |-> trigger[t].settled]
  <2>5. new \in TriggerRecord /\ new.generation <= work' + 1
    BY <1>3, <2>1, <2>2, <2>3 DEF TriggerRecord
  <2> HIDE DEF new
  <2> QED
    BY <1>2, <1>3, <2>1, <2>4, <2>5 DEF new
<1>7. ASSUME NEW k \in Minutes, trigger' = [trigger EXCEPT ![t].phase = "idle", ![t].settled = k]
      PROVE  /\ trigger' \in [Triggers -> TriggerRecord]
             /\ \A u \in Triggers : trigger'[u].generation <= work' + 1
  <2> DEFINE moved == [trigger EXCEPT ![t].phase = "idle"]
  <2>1. /\ moved \in [Triggers -> TriggerRecord]
        /\ \A u \in Triggers : moved[u].generation <= work' + 1
    BY <1>2, <1>3 DEF TriggerRecord
  <2>2. trigger' = [moved EXCEPT ![t].settled = k]
    BY <1>7
  <2> HIDE DEF moved
  <2> QED
    BY <2>1, <2>2 DEF TriggerRecord
<1> QED
  BY <1>4, <1>5, <1>6, <1>7

\* The Deployment keeps its type.
LEMMA DeploymentTypes ==
  ASSUME CronInv, DeploymentStep
  PROVE  /\ deployment' \in DeploymentRecord
         /\ deployment'.generation <= work' + 1
<1>1. Pays
  BY DeploymentLeaves
<1>2. work \in Nat /\ work' \in 0..MaxWork /\ deployment.generation \in 1..(work' + 1)
  BY <1>1, WorkTyped, CronAssumption DEF CronInv, Types
<1>3. deployment \in DeploymentRecord /\ deployment.generation <= work + 1
  BY DEF CronInv, Types, GenerationsBounded
<1>4. ASSUME NEW S \in SUBSET Versions, AcceptDeploymentUpdate(S)
      PROVE  /\ deployment' \in DeploymentRecord
             /\ deployment'.generation <= work' + 1
  <2>1. /\ work' = work + 1
        /\ deployment' = [phase |-> "updating", generation |-> deployment.generation + 1,
                          versions |-> S, edges |-> deployment.edges \cup S]
    BY <1>4 DEF AcceptDeploymentUpdate, Works
  <2>2. deployment.generation + 1 \in 1..(MaxWork + 1) /\ deployment.generation + 1 <= work' + 1
    BY <1>2, <1>3, <2>1, CronAssumption
  <2>3. deployment.edges \cup S \in SUBSET Versions
    BY <1>3 DEF DeploymentRecord
  <2> QED
    BY <2>1, <2>2, <2>3 DEF DeploymentRecord
<1>5. CASE DeploymentUpdateEnds
  <2>1. \/ deployment' = [deployment EXCEPT !.phase = "idle", !.edges = deployment.versions]
        \/ deployment' = [deployment EXCEPT !.phase = "failed"]
    BY <1>5 DEF DeploymentUpdateEnds
  <2>2. deployment'.generation = deployment.generation
    BY <1>3, <2>1 DEF DeploymentRecord
  <2>3. deployment' \in DeploymentRecord
    BY <1>3, <2>1 DEF DeploymentRecord
  <2> QED
    BY <1>2, <2>2, <2>3
<1> QED
  BY <1>4, <1>5 DEF DeploymentStep

\* The Resources keep their types.
LEMMA GraphTypes ==
  ASSUME CronInv, [Next]_vars
  PROVE  GraphTyped'
<1>1. ASSUME Pays, UNCHANGED <<trigger, deployment>>,
             version' \in [Versions -> {"ready", "deleting", "granted"}]
      PROVE  GraphTyped'
  <2>1. work' \in Nat
    BY <1>1, WorkTyped
  <2>2. /\ work' \in 0..MaxWork
        /\ \A t \in Triggers : trigger'[t].generation \in 1..(work' + 1)
        /\ deployment'.generation \in 1..(work' + 1)
    BY <1>1, WorkTyped
  <2>3. GenerationsBounded'
    BY <2>1, <2>2 DEF GenerationsBounded
  <2> QED
    BY <1>1, <2>2, <2>3 DEF CronInv, Types, GraphTyped
<1>2. version \in [Versions -> {"ready", "deleting", "granted"}]
  BY DEF CronInv, Types
<1>3. ASSUME NEW h \in Hosts, ScanStep(h) \/ LeaseStep(h) \/ SendStep(h) PROVE GraphTyped'
  <2>1. UNCHANGED graphVars /\ Pays
    BY <1>3, ScanLeaves, LeaseLeaves, SendLeaves DEF Pays
  <2> QED
    BY <1>1, <1>2, <2>1 DEF graphVars
<1>4. ASSUME NEW i \in Invocations, RowStep(i) PROVE GraphTyped'
  BY <1>1, <1>2, <1>4, RowLeaves DEF graphVars, Pays
<1>5. ASSUME NEW t \in Triggers, TriggerStep(t) PROVE GraphTyped'
  <2>1. work' \in 0..MaxWork /\ deployment.generation \in 1..(work' + 1)
    BY <1>5, TriggerLeaves, WorkTyped
  <2>2. deployment' = deployment /\ version' = version
    BY <1>5, TriggerLeaves
  <2>3. GenerationsBounded'
    BY <1>5, <2>1, <2>2, TriggerTypes DEF GenerationsBounded
  <2> QED
    BY <1>2, <1>5, <2>1, <2>2, <2>3, TriggerTypes DEF GraphTyped, CronInv, Types
<1>6. CASE DeploymentStep
  <2>1. work' \in 0..MaxWork /\ \A t \in Triggers : trigger[t].generation \in 1..(work' + 1)
    BY <1>6, DeploymentLeaves, WorkTyped
  <2>2. trigger' = trigger /\ version' = version
    BY <1>6, DeploymentLeaves
  <2>3. GenerationsBounded'
    BY <1>6, <2>1, <2>2, DeploymentTypes DEF GenerationsBounded
  <2> QED
    BY <1>2, <1>6, <2>1, <2>2, <2>3, DeploymentTypes DEF GraphTyped, CronInv, Types
<1>7. ASSUME NEW v \in Versions, VersionStep(v) PROVE GraphTyped'
  <2>1. version' \in [Versions -> {"ready", "deleting", "granted"}]
    BY <1>2, <1>7 DEF VersionStep, AcceptVersionDelete, GrantNativeDeletion
  <2> QED
    BY <1>1, <1>7, <2>1, VersionLeaves
<1>8. CASE UNCHANGED vars
  BY <1>1, <1>2, <1>8 DEF vars, graphVars, Pays
<1> QED
  BY StepCases, <1>3, <1>4, <1>5, <1>6, <1>7, <1>8

ScanTyped ==
  /\ cursor \in CursorRecord /\ tick \in [Hosts -> TickRecord]
  /\ considered \in [Triggers -> SUBSET Minutes]

\* A tick that has read a page.
LEMMA TickAfterPage ==
  ASSUME NEW A, NEW B, NEW C, NEW D, NEW E,
         NEW old \in [stage: A, minute: B, saved: C, page: D, last: E, more: BOOLEAN],
         NEW stage \in A, NEW last \in E, NEW more \in BOOLEAN, NEW page \in D,
         NEW new, new = [old EXCEPT !.stage = stage, !.last = last, !.more = more, !.page = page]
  PROVE  new = [stage |-> stage, minute |-> old.minute, saved |-> old.saved,
                page |-> page, last |-> last, more |-> more]
OBVIOUS

\* Where a scan stands is a number.
LEMMA PositionIsNumber ==
  ASSUME NEW x \in Triggers \cup {0}
  PROVE  x \in Nat
BY CronAssumption

\* What the scan of one Host knows after it has read a page: every trigger it had decided
\* about or passed, or has on the page.
LEMMA PageRead ==
  ASSUME CronInv, NEW h \in Hosts, ReadPage(h)
  PROVE  ScanTyped' /\ ScanKept'
<1> DEFINE idle == {t \in Triggers : t > tick[h].last /\ trigger[t].phase = "idle"}
           page == {t \in idle : Cardinality({u \in idle : u < t}) < PageSize}
           last == IF page = {} THEN tick[h].last ELSE Max(page)
           more == page # idle
           passed == {t \in Triggers : t > tick[h].last /\ t \notin page /\ (more => t < last)}
           entries == {<<t, trigger[t].generation>> : t \in page}
           new == [stage |-> "record", minute |-> tick[h].minute, saved |-> tick[h].saved,
                   page |-> entries, last |-> last, more |-> more]
<1>1. cursor \in CursorRecord /\ tick \in [Hosts -> TickRecord] /\ considered \in [Triggers -> SUBSET Minutes]
  BY DEF CronInv, Types
<1>2. page \in SUBSET Triggers /\ more \in BOOLEAN
  OBVIOUS
<1>3. last \in Triggers \cup {0} /\ (page # {} => last \in page)
  <2> HIDE DEF page
  <2> QED
    BY <1>1, <1>2, LastOnPage DEF TickRecord
<1>4. entries \in SUBSET (Triggers \X (1..(MaxWork + 1)))
  <2>1. \A t \in Triggers : trigger[t].generation \in 1..(MaxWork + 1)
    BY DEF CronInv, Types, TriggerRecord
  <2> HIDE DEF page
  <2> QED
    BY <1>2, <2>1
<1>5. \A t \in page : \E p \in entries : p[1] = t
  <2> SUFFICES ASSUME NEW t \in page PROVE \E p \in entries : p[1] = t
    OBVIOUS
  <2>1. <<t, trigger[t].generation>> \in entries
    OBVIOUS
  <2> HIDE DEF page, entries
  <2> QED
    BY <2>1
<1>6. tick[h].stage = "scan" /\ tick[h].minute \in Minutes
  BY DEF ReadPage, CronInv, ScanKept
<1>7. tick' = [tick EXCEPT ![h].stage = "record", ![h].last = last, ![h].more = more, ![h].page = entries]
  BY DEF ReadPage
<1>8. /\ considered' = [t \in Triggers |-> considered[t] \cup (IF t \in passed THEN {tick[h].minute} ELSE {})]
      /\ cursor' = cursor
  BY DEF ReadPage
<1>9. passed = {t \in Triggers : t > tick[h].last /\ t \notin page /\ (more => t < last)}
  OBVIOUS
<1> HIDE DEF idle, page, last, more, passed, entries
<1>10. new \in TickRecord
  BY <1>1, <1>2, <1>3, <1>4, <1>6 DEF TickRecord
<1>11. tick' = [tick EXCEPT ![h] = new]
  <2> DEFINE next == [tick[h] EXCEPT !.stage = "record", !.last = last, !.more = more, !.page = entries]
  <2>1. tick' = [tick EXCEPT ![h] = next]
    BY <1>1, <1>7
  <2>2. next = [tick[h] EXCEPT !.stage = "record", !.last = last, !.more = more, !.page = entries]
    OBVIOUS
  <2>3. tick[h] \in TickRecord
    BY <1>1
  <2> HIDE DEF next
  <2>4. next = new
    BY <1>2, <1>3, <1>4, <2>2, <2>3, TickAfterPage DEF TickRecord
  <2> QED
    BY <2>1, <2>4
<1>12. ScanTyped'
  BY <1>1, <1>6, <1>8, <1>10, <1>11 DEF ScanTyped
<1>13. ASSUME NEW t \in Triggers, t <= last \/ ~more
       PROVE  tick[h].minute \in considered'[t] \/ \E p \in entries : p[1] = t
  <2>1. t \in Nat
    BY CronAssumption
  <2>2. tick[h].last \in Nat
    <3>1. tick[h].last \in Triggers \cup {0}
      BY <1>1 DEF TickRecord
    <3> QED
      BY <3>1, PositionIsNumber
  <2>3. last \in Nat
    BY <1>3, PositionIsNumber
  <2>4. CASE t <= tick[h].last
    BY <1>6, <1>8, <2>4 DEF CronInv, ScanKept, Decided
  <2>5. CASE t \in page
    BY <1>5, <2>5
  <2>6. CASE t > tick[h].last /\ t \notin page
    <3>1. page = {} => last = tick[h].last
      BY DEF last
    <3>2. t \in passed
      BY <1>3, <1>9, <1>13, <2>1, <2>2, <2>3, <2>6, <3>1
    <3> QED
      BY <1>8, <3>2
  <2> QED
    BY <2>1, <2>2, <2>4, <2>5, <2>6
<1>14. ASSUME NEW g \in Hosts, tick'[g].stage # "idle"
       PROVE  /\ tick'[g].minute \in Minutes
              /\ tick'[g].stage = "scan" => tick'[g].page = {}
              /\ \A t \in Triggers :
                   t <= tick'[g].last \/ (tick'[g].stage = "record" /\ ~tick'[g].more) => Decided(g, t)'
  <2>1. CASE g = h
    <3>1. tick'[g] = new
      BY <1>1, <1>11, <2>1
    <3> QED
      BY <1>6, <1>13, <3>1 DEF Decided
  <2>2. CASE g # h
    <3>1. tick'[g] = tick[g]
      BY <1>1, <1>11, <2>2
    <3>2. \A t \in Triggers : considered[t] \subseteq considered'[t]
      BY <1>1, <1>8
    <3> QED
      BY <1>14, <3>1, <3>2 DEF CronInv, ScanKept, Decided
  <2> QED
    BY <2>1, <2>2
<1> QED
  BY <1>12, <1>14 DEF ScanKept

\* A tick that starts to scan.
LEMMA TickAtStart ==
  ASSUME NEW k, NEW saved, NEW last, NEW new,
         new = [NoTick EXCEPT !.stage = "scan", !.minute = k, !.saved = saved, !.last = last]
  PROVE  new = [stage |-> "scan", minute |-> k, saved |-> saved, page |-> {}, last |-> last, more |-> FALSE]
BY DEF NoTick

\* A scan that starts has decided about what the saved cursor passed, if it is of its minute.
LEMMA ScanStarted ==
  ASSUME CronInv, NEW h \in Hosts, NEW k \in Minutes, StartScan(h, k)
  PROVE  ScanTyped' /\ ScanKept'
<1> DEFINE new == [NoTick EXCEPT !.stage = "scan", !.minute = k, !.saved = cursor, !.last = After(cursor, k)]
<1>1. cursor \in CursorRecord /\ tick \in [Hosts -> TickRecord] /\ considered \in [Triggers -> SUBSET Minutes]
  BY DEF CronInv, Types
<1>2. tick' = [tick EXCEPT ![h] = new] /\ cursor' = cursor /\ considered' = considered
  BY DEF StartScan
<1> HIDE DEF new
<1>3. new = [stage |-> "scan", minute |-> k, saved |-> cursor, page |-> {}, last |-> After(cursor, k), more |-> FALSE]
  BY TickAtStart DEF new
<1>4. After(cursor, k) \in Triggers \cup {0}
  BY <1>1 DEF After, CursorRecord
<1>5. new \in TickRecord
  BY <1>1, <1>3, <1>4 DEF TickRecord
<1>6. ASSUME NEW t \in Triggers, t <= After(cursor, k)
      PROVE  k \in considered[t]
  <2>1. t \in Nat \ {0} /\ k # 0
    BY CronAssumption
  <2>2. cursor.minute = k
    BY <1>6, <2>1 DEF After
  <2> QED
    BY <1>6, <2>1, <2>2 DEF After, CronInv, ScanMissesNone
<1>7. ASSUME NEW g \in Hosts, tick'[g].stage # "idle"
      PROVE  /\ tick'[g].minute \in Minutes
             /\ tick'[g].stage = "scan" => tick'[g].page = {}
             /\ \A t \in Triggers :
                  t <= tick'[g].last \/ (tick'[g].stage = "record" /\ ~tick'[g].more) => Decided(g, t)'
  <2>1. CASE g = h
    <3>1. tick'[g] = new
      BY <1>1, <1>2, <2>1
    <3> QED
      BY <1>2, <1>3, <1>6, <3>1 DEF Decided
  <2>2. CASE g # h
    <3>1. tick'[g] = tick[g]
      BY <1>1, <1>2, <2>2
    <3> QED
      BY <1>2, <1>7, <3>1 DEF CronInv, ScanKept, Decided
  <2> QED
    BY <2>1, <2>2
<1>8. ScanTyped'
  BY <1>1, <1>2, <1>5 DEF ScanTyped
<1> QED
  BY <1>7, <1>8 DEF ScanKept

\* A candidate leaves the page when it is decided about.
LEMMA MatchRecorded ==
  ASSUME CronInv, NEW h \in Hosts, RecordMatch(h)
  PROVE  ScanTyped' /\ ScanKept'
<1>1. cursor \in CursorRecord /\ tick \in [Hosts -> TickRecord] /\ considered \in [Triggers -> SUBSET Minutes]
  BY DEF CronInv, Types
<1>2. tick[h].stage = "record" /\ tick[h].minute \in Minutes
  BY DEF RecordMatch, CronInv, ScanKept
<1>3. PICK c : /\ tick' = [tick EXCEPT ![h].page = @ \ {c}]
               /\ considered' = [considered EXCEPT ![c[1]] = @ \cup {tick[h].minute}]
               /\ cursor' = cursor
  BY DEF RecordMatch
<1>4. \A t \in Triggers : considered[t] \subseteq considered'[t] /\ (t = c[1] => tick[h].minute \in considered'[t])
  BY <1>1, <1>3
<1>5. considered' \in [Triggers -> SUBSET Minutes]
  BY <1>1, <1>2, <1>3
<1>6. tick' \in [Hosts -> TickRecord]
  BY <1>1, <1>3 DEF TickRecord
<1>7. /\ tick'[h].minute = tick[h].minute /\ tick'[h].last = tick[h].last /\ tick'[h].more = tick[h].more
      /\ tick'[h].stage = "record" /\ tick'[h].page = tick[h].page \ {c}
      /\ \A g \in Hosts : g # h => tick'[g] = tick[g]
  BY <1>1, <1>2, <1>3 DEF TickRecord
<1>8. ASSUME NEW g \in Hosts, tick'[g].stage # "idle"
      PROVE  /\ tick'[g].minute \in Minutes
             /\ tick'[g].stage = "scan" => tick'[g].page = {}
             /\ \A t \in Triggers :
                  t <= tick'[g].last \/ (tick'[g].stage = "record" /\ ~tick'[g].more) => Decided(g, t)'
  <2>1. CASE g = h
    <3>1. ASSUME NEW t \in Triggers, t <= tick[h].last \/ ~tick[h].more
          PROVE  Decided(h, t)'
      <4>1. Decided(h, t)
        BY <1>2, <3>1 DEF CronInv, ScanKept
      <4>2. CASE tick[h].minute \in considered[t]
        BY <1>4, <1>7, <4>2 DEF Decided
      <4>3. ASSUME NEW p \in tick[h].page, p[1] = t PROVE Decided(h, t)'
        BY <1>4, <1>7, <4>3 DEF Decided
      <4> QED
        BY <4>1, <4>2, <4>3 DEF Decided
    <3> QED
      BY <1>2, <1>7, <2>1, <3>1
  <2>2. CASE g # h
    <3>1. tick'[g] = tick[g]
      BY <1>7, <2>2
    <3> QED
      BY <1>4, <1>8, <3>1 DEF CronInv, ScanKept, Decided
  <2> QED
    BY <2>1, <2>2
<1>9. ScanTyped'
  BY <1>1, <1>3, <1>5, <1>6 DEF ScanTyped
<1> QED
  BY <1>8, <1>9 DEF ScanKept

\* A tick that ends takes nothing back.
LEMMA TickEnds ==
  ASSUME CronInv, NEW h \in Hosts, tick' = [tick EXCEPT ![h] = NoTick], considered' = considered
  PROVE  tick' \in [Hosts -> TickRecord] /\ ScanKept'
<1>1. tick \in [Hosts -> TickRecord]
  BY DEF CronInv, Types
<1>2. NoTick \in TickRecord /\ NoTick.stage = "idle"
  BY DEF NoTick, TickRecord, CursorRecord
<1>3. \A g \in Hosts : tick'[g] = IF g = h THEN NoTick ELSE tick[g]
  BY <1>1
<1>4. tick' \in [Hosts -> TickRecord]
  BY <1>1, <1>2
<1> QED
  BY <1>2, <1>3, <1>4 DEF CronInv, ScanKept, Decided

\* The scan's state keeps its types, and every scan has decided about what it passed.
LEMMA ScanStepKeeps ==
  ASSUME CronInv, [Next]_vars
  PROVE  ScanTyped' /\ ScanKept'
<1>1. ASSUME UNCHANGED scanVars PROVE ScanTyped' /\ ScanKept'
  BY <1>1 DEF scanVars, CronInv, Types, ScanTyped, ScanKept, Decided
<1>2. ASSUME NEW h \in Hosts, ScanStep(h) PROVE ScanTyped' /\ ScanKept'
  <2>1. CASE AdvanceCursor(h)
    <3>1. tick' = [tick EXCEPT ![h] = NoTick] /\ considered' = considered
      BY <2>1 DEF AdvanceCursor
    <3>2. cursor' \in CursorRecord
      BY <2>1 DEF AdvanceCursor, CronInv, Types, TickRecord, CursorRecord
    <3> QED
      BY <3>1, <3>2, TickEnds DEF ScanTyped, CronInv, Types
  <2> QED
    BY <1>2, <2>1, ScanStarted, PageRead, MatchRecorded DEF ScanStep
<1>3. ASSUME NEW h \in Hosts, LeaseStep(h) PROVE ScanTyped' /\ ScanKept'
  <2>1. CASE Stop(h)
    <3>1. tick' = [tick EXCEPT ![h] = NoTick] /\ considered' = considered /\ cursor' = cursor
      BY <2>1 DEF Stop
    <3> QED
      BY <3>1, TickEnds DEF ScanTyped, CronInv, Types
  <2>2. CASE ~Stop(h)
    BY <1>1, <1>3, <2>2 DEF LeaseStep, Claim, Redeliver, Settle
  <2> QED
    BY <2>1, <2>2
<1> QED
  BY StepCases, <1>1, <1>2, <1>3, SendLeaves, RowLeaves, TriggerLeaves, DeploymentLeaves, VersionLeaves DEF vars

\* The cursor passes no trigger that its minute's scans have not decided about.
LEMMA CursorStep ==
  ASSUME CronInv, [Next]_vars
  PROVE  ScanMissesNone'
<1>1. \A t \in Triggers : considered[t] \subseteq considered'[t]
  <2>1. considered \in [Triggers -> SUBSET Minutes]
    BY DEF CronInv, Types
  <2>2. ASSUME NEW h \in Hosts, ScanStep(h) PROVE \A t \in Triggers : considered[t] \subseteq considered'[t]
    <3>1. CASE ReadPage(h)
      <4>1. PICK passed : considered' = [t \in Triggers |-> considered[t] \cup
                                           (IF t \in passed THEN {tick[h].minute} ELSE {})]
        BY <3>1 DEF ReadPage
      <4> QED
        BY <4>1
    <3>2. CASE RecordMatch(h)
      <4>1. PICK c : considered' = [considered EXCEPT ![c[1]] = @ \cup {tick[h].minute}]
        BY <3>2 DEF RecordMatch
      <4> QED
        BY <2>1, <4>1
    <3> QED
      BY <2>2, <3>1, <3>2 DEF ScanStep, StartScan, AdvanceCursor
  <2> QED
    BY StepCases, <2>2, LeaseLeaves, SendLeaves, RowLeaves, TriggerLeaves, DeploymentLeaves, VersionLeaves DEF vars, scanVars
<1>2. ASSUME cursor' = cursor PROVE ScanMissesNone'
  BY <1>1, <1>2 DEF CronInv, ScanMissesNone
<1>3. ASSUME NEW h \in Hosts, ScanStep(h) PROVE ScanMissesNone'
  <2>1. CASE AdvanceCursor(h) /\ cursor = tick[h].saved
    <3>1. cursor' = [minute |-> tick[h].minute, after |-> tick[h].last, complete |-> ~tick[h].more]
      BY <2>1 DEF AdvanceCursor
    <3>2. tick[h].stage = "record" /\ tick[h].page = {}
      BY <2>1 DEF AdvanceCursor
    <3> QED
      BY <1>1, <3>1, <3>2 DEF CronInv, ScanKept, Decided, ScanMissesNone
  <2> QED
    BY <1>2, <1>3, <2>1 DEF ScanStep, StartScan, ReadPage, RecordMatch, AdvanceCursor
<1> QED
  BY StepCases, <1>2, <1>3, LeaseLeaves, SendLeaves, RowLeaves, TriggerLeaves, DeploymentLeaves, VersionLeaves DEF vars, scanVars

-----------------------------------------------------------------------------
(* Matches and jobs.                                                        *)

JobsTyped ==
  match \in [Matches -> MatchRecord] /\ job \in [Hosts -> JobRecord] /\ JobsClaimed

\* A match whose state alone is written, other than to an answer of no attempt.
LEMMA StateWritten ==
  ASSUME CronInv, NEW m \in Matches, NEW s \in {"none"} \cup Outstanding \cup Answers,
         match' = [match EXCEPT ![m].state = s],
         s \in {"none", "pending"} \/ match[m].attempts \in Attempts
  PROVE  /\ match' \in [Matches -> MatchRecord]
         /\ \A n \in Matches : match'[n].state \in {"dispatching"} \cup Answers => match'[n].attempts \in Attempts
<1>1. match \in [Matches -> MatchRecord]
  BY DEF CronInv, Types
<1>2. match' \in [Matches -> MatchRecord]
  BY <1>1 DEF MatchRecord
<1>3. \A n \in Matches : match'[n].attempts = match[n].attempts /\ (n # m => match'[n] = match[n])
  BY <1>1 DEF MatchRecord
<1>4. match'[m].state = s
  BY <1>1 DEF MatchRecord
<1>5. s \in {"dispatching"} \cup Answers => match[m].attempts \in Attempts
  BY CronAssumption DEF CronInv, JobsClaimed
<1> QED
  BY <1>2, <1>3, <1>4, <1>5 DEF CronInv, JobsClaimed

\* A scan writes only matches, and only to pending.
LEMMA ScanJobs ==
  ASSUME CronInv, NEW h \in Hosts, ScanStep(h)
  PROVE  JobsTyped'
<1>1. match \in [Matches -> MatchRecord] /\ job \in [Hosts -> JobRecord] /\ tick \in [Hosts -> TickRecord] /\ job' = job
  BY ScanLeaves DEF CronInv, Types
<1>2. /\ match' \in [Matches -> MatchRecord]
      /\ \A n \in Matches : match'[n].state \in {"dispatching"} \cup Answers => match'[n].attempts \in Attempts
  <2>1. CASE match' = match
    BY <1>1, <2>1 DEF CronInv, JobsClaimed
  <2>2. CASE match' # match
    <3>1. RecordMatch(h)
      BY <2>2 DEF ScanStep, StartScan, ReadPage, AdvanceCursor
    <3>2. PICK m : match' = [match EXCEPT ![m].state = "pending"]
      BY <2>2, <3>1 DEF RecordMatch
    <3>3. m \in Matches
      BY <1>1, <2>2, <3>2
    <3> QED
      BY <3>2, <3>3, StateWritten DEF Outstanding
  <2> QED
    BY <2>1, <2>2
<1>3. job[h].stage = "idle"
  <2>1. tick[h].stage # "idle" \/ job[h] = NoJob
    BY DEF ScanStep, StartScan, ReadPage, RecordMatch, AdvanceCursor
  <2>2. NoTick.stage = "idle"
    BY DEF NoTick
  <2> QED
    BY <2>1, <2>2 DEF CronInv, JobsClaimed, NoJob
<1>4. \A g \in Hosts : g # h => tick'[g] = tick[g]
  BY <1>1 DEF ScanStep, StartScan, ReadPage, RecordMatch, AdvanceCursor
<1> QED
  BY <1>1, <1>2, <1>3, <1>4 DEF JobsTyped, JobsClaimed, CronInv

\* Claims, settlements and stops.
LEMMA LeaseJobs ==
  ASSUME CronInv, NEW h \in Hosts, LeaseStep(h)
  PROVE  JobsTyped'
<1>1. match \in [Matches -> MatchRecord] /\ job \in [Hosts -> JobRecord] /\ tick \in [Hosts -> TickRecord]
  BY DEF CronInv, Types
<1>2. NoJob \in JobRecord /\ NoJob.stage = "idle"
  BY CronAssumption DEF NoJob, JobRecord
<1>3. ASSUME NEW new \in JobRecord, job' = [job EXCEPT ![h] = new],
             new = NoJob \/ (new.match \in Matches /\ new.attempt \in Attempts /\ tick'[h] = NoTick /\ new.stage # "idle"),
             \A g \in Hosts : g # h => tick'[g] = tick[g],
             match' \in [Matches -> MatchRecord],
             \A n \in Matches : match'[n].state \in {"dispatching"} \cup Answers => match'[n].attempts \in Attempts
      PROVE  JobsTyped'
  <2>1. job' \in [Hosts -> JobRecord] /\ \A g \in Hosts : job'[g] = IF g = h THEN new ELSE job[g]
    BY <1>1, <1>3
  <2> QED
    BY <1>2, <1>3, <2>1 DEF JobsTyped, JobsClaimed, CronInv
<1>4. \A n \in Matches : match[n].state \in {"dispatching"} \cup Answers => match[n].attempts \in Attempts
  BY DEF CronInv, JobsClaimed
<1>5. ASSUME NEW m \in Matches, Claim(h, m) PROVE JobsTyped'
  <2> DEFINE new == [match |-> m, attempt |-> match[m].attempts + 1, stage |-> "claimed", owner |-> TRUE]
             old == match[m]
  <2>1. match[m].attempts + 1 \in Attempts /\ match[m].attempts + 1 \in 0..MaxAttempts
    BY <1>1, <1>5, CronAssumption DEF Claim, MatchRecord, Attempts
  <2>2. match' = [match EXCEPT ![m].state = "dispatching", ![m].attempts = @ + 1]
        /\ job' = [job EXCEPT ![h] = new] /\ tick' = tick /\ tick[h] = NoTick
    BY <1>5 DEF Claim, scanVars
  <2>3. match'[m] = [state |-> "dispatching", attempts |-> match[m].attempts + 1]
    BY <1>1, <2>2 DEF MatchRecord
  <2>4. match'[m] \in MatchRecord /\ match'[m].attempts \in Attempts
    BY <2>1, <2>3 DEF MatchRecord, Outstanding
  <2>5. match' = [match EXCEPT ![m] = match'[m]]
    BY <1>1, <2>2
  <2>6. /\ match' \in [Matches -> MatchRecord]
        /\ \A n \in Matches : match'[n].state \in {"dispatching"} \cup Answers => match'[n].attempts \in Attempts
    BY <1>1, <1>4, <2>4, <2>5
  <2>7. new \in JobRecord
    BY <2>1 DEF JobRecord
  <2> QED
    BY <1>3, <2>1, <2>2, <2>6, <2>7
<1>6. ASSUME NEW m \in Matches, Redeliver(h, m) PROVE JobsTyped'
  <2> DEFINE new == [match |-> m, attempt |-> match[m].attempts, stage |-> "claimed", owner |-> FALSE]
  <2>1. match[m].attempts \in Attempts
    BY <1>4, <1>6 DEF Redeliver
  <2>2. match' = match /\ job' = [job EXCEPT ![h] = new] /\ tick' = tick /\ tick[h] = NoTick
    BY <1>6 DEF Redeliver, scanVars
  <2>3. new \in JobRecord
    BY <2>1, <1>1 DEF JobRecord, MatchRecord
  <2> QED
    BY <1>1, <1>3, <1>4, <2>1, <2>2, <2>3
<1>7. ASSUME NEW r \in Answers \cup {"pending"}, Settle(h, r) PROVE JobsTyped'
  <2>1. job' = [job EXCEPT ![h] = NoJob] /\ tick' = tick
    BY <1>7 DEF Settle, scanVars
  <2>2. /\ match' \in [Matches -> MatchRecord]
        /\ \A n \in Matches : match'[n].state \in {"dispatching"} \cup Answers => match'[n].attempts \in Attempts
    <3>1. CASE match' = match
      BY <1>1, <1>4, <3>1
    <3>2. CASE match' # match
      <4>1. HoldsLease(h) /\ match' = [match EXCEPT ![job[h].match].state = r]
        BY <1>7, <3>2 DEF Settle
      <4>2. job[h].match \in Matches
        BY <1>7 DEF Settle, CronInv, JobsClaimed
      <4>3. match[job[h].match].attempts \in Attempts
        BY <1>4, <4>1, <4>2 DEF HoldsLease
      <4>4. r \in {"none"} \cup Outstanding \cup Answers
        BY DEF Outstanding
      <4> QED
        BY <4>1, <4>2, <4>3, <4>4, StateWritten
    <3> QED
      BY <3>1, <3>2
  <2> QED
    BY <1>2, <1>3, <2>1, <2>2
<1>8. CASE Stop(h)
  <2>1. job' = [job EXCEPT ![h] = NoJob] /\ tick' = [tick EXCEPT ![h] = NoTick] /\ match' = match
    BY <1>8 DEF Stop
  <2> QED
    BY <1>1, <1>2, <1>3, <1>4, <2>1
<1> QED
  BY <1>5, <1>6, <1>7, <1>8 DEF LeaseStep

\* A step of the custody moves the stage of a job.
LEMMA SendMovesJob ==
  ASSUME CronInv, NEW h \in Hosts, SendStep(h)
  PROVE  /\ job[h].stage # "idle"
         /\ \E s \in {"admitted", "authorized", "sent", "barred"} : job' = [job EXCEPT ![h].stage = s]
BY DEF SendStep, AdmitCron, BeginSend, Send, ConfirmNoNativeDispatch

\* The custody moves stages of jobs only.
LEMMA SendJobs ==
  ASSUME CronInv, NEW h \in Hosts, SendStep(h)
  PROVE  JobsTyped'
<1>1. match \in [Matches -> MatchRecord] /\ job \in [Hosts -> JobRecord]
  BY DEF CronInv, Types
<1>2. match' = match /\ tick' = tick
  BY SendLeaves DEF scanVars
<1>3. PICK s \in {"admitted", "authorized", "sent", "barred"} : job' = [job EXCEPT ![h].stage = s]
  BY SendMovesJob
<1>4. job' \in [Hosts -> JobRecord]
  BY <1>1, <1>3 DEF JobRecord
<1>5. /\ job'[h].stage = s /\ job'[h].match = job[h].match /\ job'[h].attempt = job[h].attempt
      /\ \A g \in Hosts : g # h => job'[g] = job[g]
  BY <1>1, <1>3 DEF JobRecord
<1>6. job[h].stage # "idle" /\ s # "idle"
  BY SendMovesJob
<1> QED
  BY <1>1, <1>2, <1>4, <1>5, <1>6 DEF JobsTyped, JobsClaimed, CronInv

\* Matches and jobs keep their types, and jobs are of claimed attempts.
LEMMA JobsStep ==
  ASSUME CronInv, [Next]_vars
  PROVE  JobsTyped'
<1>1. ASSUME UNCHANGED <<match, job, scanVars>> PROVE JobsTyped'
  BY <1>1 DEF scanVars, CronInv, Types, JobsTyped, JobsClaimed
<1> QED
  BY StepCases, <1>1, ScanJobs, LeaseJobs, SendJobs, RowLeaves, TriggerLeaves, DeploymentLeaves, VersionLeaves DEF vars

-----------------------------------------------------------------------------
(* Custody.                                                                 *)

CustodyTyped ==
  /\ row \in [Invocations -> CustodyRecord]
  /\ native \in [Invocations -> {"none", "running"} \cup Answers]
  /\ sends \in [Invocations -> Nat]

CustodyKept == CustodyTyped /\ SenderAlone /\ RowTruthful

\* A row is written by a job of its own or by what happens to its attempt.
LEMMA LeaseCustody ==
  ASSUME CronInv, NEW h \in Hosts, LeaseStep(h)
  PROVE  CustodyKept'
<1>1. UNCHANGED <<row, native, sends>>
  BY LeaseLeaves DEF custodyVars
<1>2. \A g \in Hosts : job'[g].stage = "authorized" => job'[g] = job[g]
  <2>1. job \in [Hosts -> JobRecord]
    BY DEF CronInv, Types
  <2>2. \E new : job' = [job EXCEPT ![h] = new] /\ new.stage # "authorized"
    <3>1. NoJob.stage # "authorized"
      BY DEF NoJob
    <3>2. CASE Stop(h) \/ \E r \in Answers \cup {"pending"} : Settle(h, r)
      BY <3>1, <3>2 DEF Stop, Settle
    <3>3. ASSUME NEW m \in Matches, Claim(h, m) \/ Redeliver(h, m)
          PROVE  \E new : job' = [job EXCEPT ![h] = new] /\ new.stage # "authorized"
      <4>1. PICK n, o : job' = [job EXCEPT ![h] = [match |-> m, attempt |-> n, stage |-> "claimed", owner |-> o]]
        BY <3>3 DEF Claim, Redeliver
      <4> DEFINE claimed == [match |-> m, attempt |-> n, stage |-> "claimed", owner |-> o]
      <4>2. claimed.stage # "authorized"
        OBVIOUS
      <4> HIDE DEF claimed
      <4> QED
        BY <4>1, <4>2 DEF claimed
    <3> QED
      BY <3>2, <3>3 DEF LeaseStep
  <2> QED
    BY <2>1, <2>2
<1>3. \A g \in Hosts : job'[g].stage = "authorized" =>
        job[g].stage = "authorized" /\ Invocation(g)' = Invocation(g)
  BY <1>2 DEF Invocation
<1>4. SenderAlone'
  BY <1>1, <1>3 DEF SenderAlone, Unsent, CronInv
<1> QED
  BY <1>1, <1>4 DEF CustodyKept, CustodyTyped, RowTruthful, CronInv, Types

\* Every job keeps its attempt while the custody moves its stage.
LEMMA SendKeepsAttempts ==
  ASSUME CronInv, NEW h \in Hosts, SendStep(h)
  PROVE  /\ Invocation(h) \in Invocations
         /\ \A g \in Hosts : Invocation(g)' = Invocation(g)
         /\ \A g \in Hosts : g # h => job'[g] = job[g]
<1>1. job \in [Hosts -> JobRecord]
  BY DEF CronInv, Types
<1>2. PICK s \in {"admitted", "authorized", "sent", "barred"} : job' = [job EXCEPT ![h].stage = s]
  BY SendMovesJob
<1>3. /\ job'[h].match = job[h].match /\ job'[h].attempt = job[h].attempt
      /\ \A g \in Hosts : g # h => job'[g] = job[g]
  BY <1>1, <1>2 DEF JobRecord
<1>4. \A g \in Hosts : Invocation(g)' = Invocation(g)
  BY <1>3 DEF Invocation
<1>5. Invocation(h) \in Invocations
  BY SendMovesJob, InvocationOfJob DEF CronInv
<1> QED
  BY <1>3, <1>4, <1>5

\* An attempt whose row is not authorized has not been sent, and nobody may send it.
LEMMA NotAuthorized ==
  ASSUME CronInv, NEW i \in Invocations, row[i].phase # "send_authorized"
  PROVE  /\ sends[i] = 0 /\ native[i] = "none" /\ row[i].drain = "none"
         /\ ~row[i].retired /\ ~row[i].noDispatch
         /\ \A g \in Hosts : job[g].stage = "authorized" => Invocation(g) # i
<1>1. sends[i] = 0 /\ native[i] = "none"
  BY DEF CronInv, RowTruthful
<1>2. "none" \notin Answers
  BY CronAssumption
<1>3. row[i].drain = "none" /\ ~row[i].retired /\ ~row[i].noDispatch
  BY <1>1, <1>2 DEF CronInv, RowTruthful
<1>4. \A g \in Hosts : job[g].stage = "authorized" => Invocation(g) # i
  BY DEF CronInv, SenderAlone, Unsent
<1> QED
  BY <1>1, <1>3, <1>4

\* A row that was admitted.
LEMMA RowAtAdmission ==
  ASSUME NEW v, NEW n, NEW new, new = [NoRow EXCEPT !.phase = "admitted", !.version = v, !.generation = n]
  PROVE  new = [phase |-> "admitted", version |-> v, generation |-> n,
                noDispatch |-> FALSE, retired |-> FALSE, drain |-> "none"]
BY DEF NoRow

\* Admission inserts a row nobody had.
LEMMA AdmitCustody ==
  ASSUME CronInv, NEW h \in Hosts, NEW v \in Versions, NEW gen \in 1..deployment.generation,
         AdmitCron(h, v, gen)
  PROVE  CustodyKept'
<1> DEFINE i == Invocation(h)
           new == [NoRow EXCEPT !.phase = "admitted", !.version = v, !.generation = deployment.generation]
<1>1. SendStep(h)
  BY DEF SendStep
<1>2. i \in Invocations /\ \A g \in Hosts : Invocation(g)' = Invocation(g) /\ (g # h => job'[g] = job[g])
  BY <1>1, SendKeepsAttempts
<1>3. job \in [Hosts -> JobRecord] /\ CustodyTyped
  BY DEF CronInv, Types, CustodyTyped
<1>4. job'[h].stage = "admitted"
  BY <1>3 DEF AdmitCron, JobRecord
<1>5. native' = native /\ sends' = sends
  BY DEF AdmitCron
<1>6. \/ row' = row
      \/ row[i].phase = "none" /\ row' = [row EXCEPT ![i] = new]
  BY DEF AdmitCron
<1> HIDE DEF i
<1>7. CASE row' = row
  <2>1. SenderAlone'
    BY <1>2, <1>4, <1>5, <1>7 DEF CronInv, SenderAlone, Unsent
  <2> QED
    BY <1>3, <1>5, <1>7, <2>1 DEF CustodyKept, CustodyTyped, CronInv, RowTruthful
<1>8. CASE row[i].phase = "none" /\ row' = [row EXCEPT ![i] = new]
  <2> HIDE DEF new
  <2>1. new = [phase |-> "admitted", version |-> v, generation |-> deployment.generation,
               noDispatch |-> FALSE, retired |-> FALSE, drain |-> "none"]
    BY RowAtAdmission DEF new
  <2>2. deployment.generation \in 0..(MaxWork + 1)
    <3>1. deployment.generation \in 1..(MaxWork + 1)
      BY DEF CronInv, Types, DeploymentRecord
    <3> QED
      BY <3>1, CronAssumption
  <2>3. new \in CustodyRecord
    BY <2>1, <2>2 DEF CustodyRecord
  <2>4. row' \in [Invocations -> CustodyRecord] /\ \A j \in Invocations : row'[j] = IF j = i THEN new ELSE row[j]
    BY <1>2, <1>3, <1>8, <2>3 DEF CustodyTyped
  <2>5. sends[i] = 0 /\ native[i] = "none" /\ \A g \in Hosts : job[g].stage = "authorized" => Invocation(g) # i
    BY <1>2, <1>8, NotAuthorized
  <2>6. \A g \in Hosts : job'[g].stage = "authorized" =>
          job[g].stage = "authorized" /\ Invocation(g) \in Invocations /\ Invocation(g) # i
    BY <1>2, <1>4, <2>5, InvocationOfJob DEF CronInv
  <2>7. SenderAlone'
    BY <1>2, <1>5, <2>4, <2>6 DEF CronInv, SenderAlone, Unsent
  <2>8. RowTruthful'
    BY <1>5, <2>1, <2>4, <2>5 DEF CronInv, RowTruthful
  <2> QED
    BY <1>3, <1>5, <2>4, <2>7, <2>8 DEF CustodyKept, CustodyTyped
<1> QED
  BY <1>6, <1>7, <1>8

\* Of the Hosts that may ask, one is told that it may send.
LEMMA BeginSendCustody ==
  ASSUME CronInv, NEW h \in Hosts, NEW a \in BOOLEAN, BeginSend(h, a)
  PROVE  CustodyKept'
<1> DEFINE i == Invocation(h)
<1>1. SendStep(h)
  BY DEF SendStep
<1>2. i \in Invocations /\ \A g \in Hosts : Invocation(g)' = Invocation(g) /\ (g # h => job'[g] = job[g])
  BY <1>1, SendKeepsAttempts
<1>3. job \in [Hosts -> JobRecord] /\ CustodyTyped
  BY DEF CronInv, Types, CustodyTyped
<1>4. native' = native /\ sends' = sends /\ row' = [row EXCEPT ![i].phase = "send_authorized"] /\ row[i].phase = "admitted"
  BY DEF BeginSend, Authorizable
<1> HIDE DEF i
<1>5. /\ sends[i] = 0 /\ native[i] = "none" /\ row[i].drain = "none"
      /\ ~row[i].retired /\ ~row[i].noDispatch
      /\ \A g \in Hosts : job[g].stage = "authorized" => Invocation(g) # i
  BY <1>2, <1>4, NotAuthorized
<1>6. row' \in [Invocations -> CustodyRecord]
  BY <1>2, <1>3, <1>4 DEF CustodyTyped, CustodyRecord
<1>7. /\ row'[i].phase = "send_authorized" /\ row'[i].noDispatch = row[i].noDispatch
      /\ row'[i].retired = row[i].retired /\ row'[i].drain = row[i].drain
      /\ \A j \in Invocations : j # i => row'[j] = row[j]
  BY <1>2, <1>3, <1>4 DEF CustodyTyped, CustodyRecord
<1>8. \A g \in Hosts : g # h /\ job'[g].stage = "authorized" =>
        job[g].stage = "authorized" /\ Invocation(g) \in Invocations /\ Invocation(g) # i
  BY <1>2, <1>5, InvocationOfJob DEF CronInv
<1>9. \A g \in Hosts : job'[g].stage = "authorized" => Unsent(Invocation(g))'
  <2> SUFFICES ASSUME NEW g \in Hosts, job'[g].stage = "authorized" PROVE Unsent(Invocation(g))'
    OBVIOUS
  <2>1. CASE g = h
    BY <1>2, <1>4, <1>5, <1>7, <2>1 DEF i, Unsent
  <2>2. CASE g # h
    BY <1>2, <1>4, <1>7, <1>8, <2>2 DEF CronInv, SenderAlone, Unsent
  <2> QED
    BY <2>1, <2>2
<1>10. SenderAlone'
  <2>1. ASSUME NEW f \in Hosts, NEW g \in Hosts, job'[f].stage = "authorized", job'[g].stage = "authorized",
               Invocation(f) = Invocation(g)
        PROVE  f = g
    <3>1. CASE f = h \/ g = h
      BY <1>8, <2>1, <3>1 DEF i
    <3>2. CASE f # h /\ g # h
      BY <1>8, <2>1, <3>2 DEF CronInv, SenderAlone
    <3> QED
      BY <3>1, <3>2
  <2> QED
    BY <1>2, <1>9, <2>1 DEF SenderAlone
<1>11. RowTruthful'
  <2> SUFFICES ASSUME NEW j \in Invocations
               PROVE  /\ sends[j] \in {0, 1}
                      /\ sends[j] = 0 <=> native[j] = "none"
                      /\ sends[j] = 1 => row'[j].phase = "send_authorized" /\ ~row'[j].noDispatch
                      /\ row'[j].drain # "none" => sends[j] = 1
                      /\ row'[j].retired => native[j] \in Answers
                      /\ row'[j].noDispatch => row'[j].phase = "send_authorized"
                      /\ row'[j].phase = "none" => row'[j].version = None
    BY <1>4 DEF RowTruthful
  <2>1. CASE j = i
    BY <1>5, <1>7, <2>1
  <2>2. CASE j # i
    BY <1>7, <2>2 DEF CronInv, RowTruthful
  <2> QED
    BY <2>1, <2>2
<1> QED
  BY <1>3, <1>4, <1>6, <1>10, <1>11 DEF CustodyKept, CustodyTyped

\* Who was told that it may send does so once, or bars itself.
LEMMA SendCustody ==
  ASSUME CronInv, NEW h \in Hosts, Send(h) \/ ConfirmNoNativeDispatch(h)
  PROVE  CustodyKept'
<1> DEFINE i == Invocation(h)
<1>1. SendStep(h)
  BY DEF SendStep
<1>2. i \in Invocations /\ \A g \in Hosts : Invocation(g)' = Invocation(g) /\ (g # h => job'[g] = job[g])
  BY <1>1, SendKeepsAttempts
<1>3. job \in [Hosts -> JobRecord] /\ CustodyTyped
  BY DEF CronInv, Types, CustodyTyped
<1>4. job[h].stage = "authorized" /\ job'[h].stage # "authorized"
  BY <1>3 DEF Send, ConfirmNoNativeDispatch, JobRecord
<1>5. Unsent(i) /\ native[i] = "none"
  BY <1>2, <1>4 DEF CronInv, SenderAlone, RowTruthful, Unsent
<1>6. \A g \in Hosts : job'[g].stage = "authorized" =>
        job[g].stage = "authorized" /\ Invocation(g) \in Invocations /\ Invocation(g) # i
  BY <1>2, <1>4, InvocationOfJob DEF CronInv, SenderAlone
<1>7. CASE Send(h)
  <2>1. /\ row' = row /\ native' = [native EXCEPT ![i] = "running"] /\ sends' = [sends EXCEPT ![i] = @ + 1]
    BY <1>7 DEF Send
  <2> HIDE DEF i
  <2>2. sends'[i] = 1 /\ native'[i] = "running" /\ \A j \in Invocations : j # i => sends'[j] = sends[j] /\ native'[j] = native[j]
    BY <1>2, <1>3, <1>5, <2>1 DEF CustodyTyped, Unsent
  <2>3. CustodyTyped'
    BY <1>2, <1>3, <2>1 DEF CustodyTyped
  <2>4. SenderAlone'
    BY <1>2, <1>6, <2>1, <2>2 DEF CronInv, SenderAlone, Unsent
  <2>5. RowTruthful'
    BY <1>5, <2>1, <2>2 DEF CronInv, RowTruthful, Unsent
  <2> QED
    BY <2>3, <2>4, <2>5 DEF CustodyKept
<1>8. CASE ConfirmNoNativeDispatch(h)
  <2>1. row' = [row EXCEPT ![i].noDispatch = TRUE] /\ native' = native /\ sends' = sends
    BY <1>8 DEF ConfirmNoNativeDispatch
  <2> HIDE DEF i
  <2>2. /\ row'[i].phase = row[i].phase /\ row'[i].retired = row[i].retired /\ row'[i].drain = row[i].drain
        /\ row'[i].version = row[i].version
        /\ \A j \in Invocations : j # i => row'[j] = row[j]
    BY <1>2, <1>3, <2>1 DEF CustodyTyped, CustodyRecord
  <2>3. CustodyTyped'
    BY <1>2, <1>3, <2>1 DEF CustodyTyped, CustodyRecord
  <2>4. SenderAlone'
    BY <1>2, <1>6, <2>1, <2>2 DEF CronInv, SenderAlone, Unsent
  <2>5. RowTruthful'
    BY <1>5, <2>1, <2>2 DEF CronInv, RowTruthful, Unsent
  <2> QED
    BY <2>3, <2>4, <2>5 DEF CustodyKept
<1> QED
  BY <1>7, <1>8

\* One row or one handler changes, and what the row says stays true.
LEMMA RowCustody ==
  ASSUME CronInv, NEW i \in Invocations, RowStep(i)
  PROVE  CustodyKept'
<1>1. job' = job /\ sends' = sends
  BY RowLeaves
<1>2. CustodyTyped /\ "none" \notin Answers /\ "running" \notin Answers
  BY CronAssumption DEF CronInv, Types, CustodyTyped
<1>3. \A g \in Hosts : Invocation(g)' = Invocation(g) /\ (job[g].stage = "authorized" => Invocation(g) \in Invocations)
  BY <1>1, InvocationOfJob DEF Invocation, CronInv
<1>4. ASSUME NEW new, row' = [row EXCEPT ![i] = new], native' = native, new \in CustodyRecord,
             new.version = row[i].version,
             \/ sends[i] = 1 /\ new.phase = "send_authorized" /\ ~new.noDispatch /\ native[i] # "none"
                /\ (new.retired => native[i] \in Answers)
             \/ sends[i] = 0 /\ row[i].phase = "admitted" /\ new.phase = "pre_effect_refused"
                /\ new.drain = row[i].drain /\ new.retired = row[i].retired /\ new.noDispatch = row[i].noDispatch
      PROVE  CustodyKept'
  <2>1. row' \in [Invocations -> CustodyRecord] /\ \A j \in Invocations : row'[j] = IF j = i THEN new ELSE row[j]
    BY <1>2, <1>4 DEF CustodyTyped
  <2>2. \A g \in Hosts : job[g].stage = "authorized" => Invocation(g) # i
    BY <1>4, NotAuthorized DEF CronInv, SenderAlone, Unsent
  <2>3. SenderAlone'
    BY <1>1, <1>3, <2>1, <2>2 DEF CronInv, SenderAlone, Unsent
  <2>4. RowTruthful'
    BY <1>1, <1>2, <1>4, <2>1, NotAuthorized DEF CronInv, RowTruthful
  <2> QED
    BY <1>1, <1>2, <1>4, <2>1, <2>3, <2>4 DEF CustodyKept, CustodyTyped
<1>5. ASSUME NEW r \in Answers, HandlerEnds(i, r) PROVE CustodyKept'
  <2>1. native[i] = "running" /\ native' = [native EXCEPT ![i] = r] /\ row' = row
    BY <1>5 DEF HandlerEnds
  <2>2. \A j \in Invocations : native'[j] = IF j = i THEN r ELSE native[j]
    BY <1>2, <2>1 DEF CustodyTyped
  <2>3. CustodyTyped'
    BY <1>1, <1>2, <2>1 DEF CustodyTyped
  <2>4. SenderAlone'
    BY <1>1, <1>3, <2>1 DEF CronInv, SenderAlone, Unsent
  <2>5. RowTruthful'
    BY <1>1, <1>2, <2>1, <2>2 DEF CronInv, RowTruthful
  <2> QED
    BY <2>3, <2>4, <2>5 DEF CustodyKept
<1>6. CASE RefuseBeforeSend(i)
  <2> DEFINE new == [row[i] EXCEPT !.phase = "pre_effect_refused"]
  <2>1. row' = [row EXCEPT ![i] = new] /\ native' = native /\ row[i].phase = "admitted"
    BY <1>2, <1>6 DEF RefuseBeforeSend, CustodyTyped
  <2>2. new \in CustodyRecord /\ new.version = row[i].version /\ new.phase = "pre_effect_refused"
        /\ new.drain = row[i].drain /\ new.retired = row[i].retired /\ new.noDispatch = row[i].noDispatch
    BY <1>2 DEF CustodyTyped, CustodyRecord
  <2>3. sends[i] = 0
    BY <2>1, NotAuthorized
  <2> HIDE DEF new
  <2> QED
    BY <1>4, <2>1, <2>2, <2>3
<1>7. CASE ArmSQLiteExternalUse(i)
  <2> DEFINE new == [row[i] EXCEPT !.drain = "pending"]
  <2>1. row' = [row EXCEPT ![i] = new] /\ native' = native /\ native[i] = "running" /\ Sendable(i)
    BY <1>2, <1>7 DEF ArmSQLiteExternalUse, CustodyTyped
  <2>2. new \in CustodyRecord /\ new.version = row[i].version /\ new.phase = row[i].phase
        /\ new.retired = row[i].retired /\ new.noDispatch = row[i].noDispatch
    BY <1>2 DEF CustodyTyped, CustodyRecord
  <2>3. sends[i] = 1
    BY <2>1 DEF CronInv, RowTruthful
  <2> HIDE DEF new
  <2> QED
    BY <1>4, <2>1, <2>2, <2>3 DEF Sendable
<1>8. CASE ConfirmNativeRetirement(i)
  <2> DEFINE new == [row[i] EXCEPT !.retired = TRUE]
  <2>1. row' = [row EXCEPT ![i] = new] /\ native' = native /\ native[i] \in Answers /\ Sendable(i)
    BY <1>2, <1>8 DEF ConfirmNativeRetirement, CustodyTyped
  <2>2. new \in CustodyRecord /\ new.version = row[i].version /\ new.phase = row[i].phase
        /\ new.drain = row[i].drain /\ new.noDispatch = row[i].noDispatch
    BY <1>2 DEF CustodyTyped, CustodyRecord
  <2>3. sends[i] = 1
    BY <1>2, <2>1 DEF CronInv, RowTruthful
  <2> HIDE DEF new
  <2> QED
    BY <1>2, <1>4, <2>1, <2>2, <2>3 DEF Sendable
<1>9. CASE ConfirmSQLiteDrained(i)
  <2> DEFINE new == [row[i] EXCEPT !.drain = "drained"]
  <2>1. row' = [row EXCEPT ![i] = new] /\ native' = native /\ row[i].retired /\ row[i].drain = "pending"
    BY <1>2, <1>9 DEF ConfirmSQLiteDrained, CustodyTyped
  <2>2. new \in CustodyRecord /\ new.version = row[i].version /\ new.phase = row[i].phase
        /\ new.retired = row[i].retired /\ new.noDispatch = row[i].noDispatch
    BY <1>2 DEF CustodyTyped, CustodyRecord
  <2>3. sends[i] = 1 /\ native[i] # "none" /\ row[i].phase = "send_authorized" /\ ~row[i].noDispatch /\ native[i] \in Answers
    BY <1>2, <2>1 DEF CronInv, RowTruthful
  <2> HIDE DEF new
  <2> QED
    BY <1>4, <2>1, <2>2, <2>3
<1> QED
  BY <1>5, <1>6, <1>7, <1>8, <1>9 DEF RowStep

\* Custody keeps its types, one sender per attempt, and truthful rows.
LEMMA CustodyStep ==
  ASSUME CronInv, [Next]_vars
  PROVE  CustodyKept'
<1>1. ASSUME UNCHANGED <<job, custodyVars>> PROVE CustodyKept'
  BY <1>1 DEF custodyVars, CronInv, Types, CustodyKept, CustodyTyped, SenderAlone, Unsent, RowTruthful, Invocation
<1>2. ASSUME NEW h \in Hosts, SendStep(h) PROVE CustodyKept'
  BY <1>2, AdmitCustody, BeginSendCustody, SendCustody DEF SendStep
<1> QED
  BY StepCases, <1>1, <1>2, ScanLeaves, LeaseCustody, RowCustody, TriggerLeaves, DeploymentLeaves, VersionLeaves DEF vars

-----------------------------------------------------------------------------
(* Versions and matches.                                                    *)

\* No row of a Version that is being removed becomes unresolved, and none is added.
LEMMA RowsResolved ==
  ASSUME CronInv, [Next]_vars, NEW v \in Versions, version[v] = "granted",
         NEW j \in Invocations, row'[j].version = v
  PROVE  Resolved(j)'
<1>1. row \in [Invocations -> CustodyRecord] /\ row[j] \in CustodyRecord
  BY DEF CronInv, Types
<1>2. row[j].version = v => Resolved(j) /\ row[j].phase # "none"
  BY CronAssumption DEF CronInv, GrantedUnused, Unused, RowTruthful
<1>3. CASE row'[j] = row[j]
  BY <1>2, <1>3 DEF Resolved, DrainPending
<1>4. ASSUME NEW h \in Hosts, SendStep(h), row'[j] # row[j] PROVE Resolved(j)'
  <2>1. Invocation(h) \in Invocations
    BY <1>4, SendKeepsAttempts
  <2>2. ASSUME NEW w \in Versions, NEW gen \in 1..deployment.generation, AdmitCron(h, w, gen)
        PROVE  FALSE
    <3> DEFINE new == [NoRow EXCEPT !.phase = "admitted", !.version = w, !.generation = deployment.generation]
    <3>1. row' = [row EXCEPT ![Invocation(h)] = new] /\ Serving /\ w \in deployment.versions
      BY <1>4, <2>2 DEF AdmitCron
    <3>2. new.version = w
      BY DEF NoRow
    <3> HIDE DEF new
    <3>3. row'[j] = new
      BY <1>1, <1>4, <3>1
    <3> QED
      BY <3>1, <3>2, <3>3 DEF Serving
  <2>3. ASSUME NEW a \in BOOLEAN, BeginSend(h, a) PROVE FALSE
    <3>1. row' = [row EXCEPT ![Invocation(h)].phase = "send_authorized"] /\ version[row[Invocation(h)].version] = "ready"
      BY <2>3 DEF BeginSend, Authorizable
    <3>2. j = Invocation(h)
      BY <1>1, <1>4, <3>1
    <3>3. row'[j].version = row[j].version
      BY <1>1, <3>1, <3>2 DEF CustodyRecord
    <3> QED
      BY <3>1, <3>2, <3>3
  <2>4. CASE Send(h)
    BY <1>4, <2>4 DEF Send
  <2>5. CASE ConfirmNoNativeDispatch(h)
    <3>1. row' = [row EXCEPT ![Invocation(h)].noDispatch = TRUE]
      BY <2>5 DEF ConfirmNoNativeDispatch
    <3>2. row'[j].noDispatch
      BY <1>1, <1>4, <3>1 DEF CustodyRecord
    <3> QED
      BY <3>2 DEF Resolved, DrainPending
  <2> QED
    BY <1>4, <2>2, <2>3, <2>4, <2>5 DEF SendStep
<1>5. ASSUME NEW i \in Invocations, RowStep(i), row'[j] # row[j] PROVE Resolved(j)'
  <2>1. CASE RefuseBeforeSend(i)
    <3>1. row' = [row EXCEPT ![i].phase = "pre_effect_refused"]
      BY <2>1 DEF RefuseBeforeSend
    <3>2. row'[j].phase = "pre_effect_refused"
      BY <1>1, <1>5, <3>1 DEF CustodyRecord
    <3> QED
      BY <3>2 DEF Resolved, DrainPending
  <2>2. CASE ArmSQLiteExternalUse(i)
    <3>1. row' = [row EXCEPT ![i].drain = "pending"] /\ Sendable(i)
      BY <2>2 DEF ArmSQLiteExternalUse
    <3>2. j = i /\ row'[j].version = row[j].version
      BY <1>1, <1>5, <3>1 DEF CustodyRecord
    <3> QED
      BY <1>2, <3>1, <3>2 DEF Resolved, DrainPending, Sendable
  <2>3. CASE ConfirmNativeRetirement(i)
    <3>1. row' = [row EXCEPT ![i].retired = TRUE] /\ Sendable(i)
      BY <2>3 DEF ConfirmNativeRetirement
    <3>2. j = i /\ row'[j].version = row[j].version
      BY <1>1, <1>5, <3>1 DEF CustodyRecord
    <3> QED
      BY <1>2, <3>1, <3>2 DEF Resolved, DrainPending, Sendable
  <2>4. CASE ConfirmSQLiteDrained(i)
    <3>1. row' = [row EXCEPT ![i].drain = "drained"] /\ row[i].retired
      BY <2>4 DEF ConfirmSQLiteDrained
    <3>2. row'[j].drain = "drained" /\ row'[j].retired
      BY <1>1, <1>5, <3>1 DEF CustodyRecord
    <3> QED
      BY <3>2 DEF Resolved, DrainPending
  <2> QED
    BY <1>5, <2>1, <2>2, <2>3, <2>4 DEF RowStep, HandlerEnds
<1> QED
  BY StepCases, <1>3, <1>4, <1>5, ScanLeaves, LeaseLeaves, TriggerLeaves, DeploymentLeaves, VersionLeaves DEF vars, custodyVars

\* What a removal was granted for stays unused.
LEMMA GrantedStep ==
  ASSUME CronInv, [Next]_vars
  PROVE  GrantedUnused'
<1>1. deployment \in DeploymentRecord /\ version \in [Versions -> {"ready", "deleting", "granted"}]
  BY DEF CronInv, Types
<1>2. /\ deployment'.versions \subseteq deployment'.edges
      /\ \A v \in Versions : version[v] = "granted" => v \notin deployment'.edges
  <2>1. CASE deployment' = deployment
    BY <2>1 DEF CronInv, GrantedUnused, Unused
  <2>2. ASSUME NEW S \in SUBSET Versions, AcceptDeploymentUpdate(S)
        PROVE  /\ deployment'.versions \subseteq deployment'.edges
               /\ \A v \in Versions : version[v] = "granted" => v \notin deployment'.edges
    <3>1. deployment'.versions = S /\ deployment'.edges = deployment.edges \cup S /\ \A v \in S : version[v] = "ready"
      BY <2>2 DEF AcceptDeploymentUpdate
    <3> QED
      BY <3>1 DEF CronInv, GrantedUnused, Unused
  <2>3. CASE DeploymentUpdateEnds
    <3>1. deployment'.versions = deployment.versions /\ deployment'.edges \in {deployment.edges, deployment.versions}
      BY <1>1, <2>3 DEF DeploymentUpdateEnds, DeploymentRecord
    <3> QED
      BY <3>1 DEF CronInv, GrantedUnused, Unused
  <2> QED
    BY StepCases, <2>1, <2>2, <2>3, ScanLeaves, LeaseLeaves, SendLeaves, RowLeaves, TriggerLeaves, VersionLeaves
       DEF vars, graphVars, DeploymentStep
<1>3. ASSUME NEW v \in Versions, version[v] = "granted" PROVE Unused(v)'
  BY <1>2, <1>3, RowsResolved DEF Unused
<1>4. CASE version' = version
  BY <1>2, <1>3, <1>4 DEF GrantedUnused
<1>5. ASSUME NEW w \in Versions, VersionStep(w) PROVE GrantedUnused'
  <2>1. UNCHANGED <<deployment, row>>
    BY <1>5, VersionLeaves DEF custodyVars
  <2>2. \A v \in Versions : version'[v] = "granted" => version[v] = "granted" \/ Unused(v)
    BY <1>1, <1>5 DEF VersionStep, AcceptVersionDelete, GrantNativeDeletion
  <2> QED
    BY <1>2, <2>1, <2>2 DEF CronInv, GrantedUnused, Unused, Resolved, DrainPending
<1> QED
  BY StepCases, <1>4, <1>5, ScanLeaves, LeaseLeaves, SendLeaves, RowLeaves, TriggerLeaves, DeploymentLeaves DEF vars, graphVars

\* How a match changes: an idle trigger's is recorded, an outstanding one is claimed, released
\* or settled with the answer of its last attempt.
LEMMA MatchChange ==
  ASSUME CronInv, [Next]_vars, NEW m \in Matches, match'[m] # match[m]
  PROVE  /\ trigger' = trigger /\ native' = native
         /\ \/ match'[m].state = "pending" /\ trigger[m[1]].phase = "idle"
            \/ match[m].state \in Outstanding /\ match'[m].state \in Outstanding
            \/ /\ match[m].state \in Outstanding /\ match'[m].attempts = match[m].attempts
               /\ native[<<m, match[m].attempts>>] = match'[m].state
<1>1. match \in [Matches -> MatchRecord]
  BY DEF CronInv, Types
<1>2. ASSUME NEW h \in Hosts, ScanStep(h)
      PROVE  match'[m].state = "pending" /\ trigger[m[1]].phase = "idle"
  <2>1. RecordMatch(h)
    BY <1>2 DEF ScanStep, StartScan, ReadPage, AdvanceCursor
  <2>2. PICK t, k : match' = [match EXCEPT ![<<t, k>>].state = "pending"] /\ trigger[t].phase = "idle"
    BY <2>1 DEF RecordMatch, Recordable
  <2>3. m = <<t, k>>
    BY <1>1, <2>2
  <2>4. m[1] = t
    BY <2>3
  <2> QED
    BY <1>1, <2>2, <2>3, <2>4 DEF MatchRecord
<1>3. ASSUME NEW h \in Hosts, LeaseStep(h)
      PROVE  \/ match[m].state \in Outstanding /\ match'[m].state \in Outstanding
             \/ /\ match[m].state \in Outstanding /\ match'[m].attempts = match[m].attempts
                /\ native[<<m, match[m].attempts>>] = match'[m].state
  <2>1. ASSUME NEW n \in Matches, Claim(h, n)
        PROVE  match[m].state \in Outstanding /\ match'[m].state \in Outstanding
    <3>1. match' = [match EXCEPT ![n].state = "dispatching", ![n].attempts = @ + 1] /\ match[n].state \in Outstanding
      BY <2>1 DEF Claim
    <3>2. m = n
      BY <1>1, <3>1
    <3>3. match'[m].state = "dispatching"
      BY <1>1, <3>1, <3>2 DEF MatchRecord
    <3> QED
      BY <3>1, <3>2, <3>3 DEF Outstanding
  <2>2. ASSUME NEW r \in Answers \cup {"pending"}, Settle(h, r)
        PROVE  \/ match[m].state \in Outstanding /\ match'[m].state \in Outstanding
               \/ /\ match[m].state \in Outstanding /\ match'[m].attempts = match[m].attempts
                  /\ native[<<m, match[m].attempts>>] = match'[m].state
    <3>1. HoldsLease(h) /\ match' = [match EXCEPT ![job[h].match].state = r]
      BY <2>2 DEF Settle
    <3>2. m = job[h].match
      BY <1>1, <3>1
    <3>3. match'[m].state = r /\ match'[m].attempts = match[m].attempts
      BY <1>1, <3>1, <3>2 DEF MatchRecord
    <3>4. r = "pending" \/ r = native[<<m, match[m].attempts>>]
      BY <2>2, <3>1, <3>2 DEF Settle, Invocation, HoldsLease
    <3>5. match[m].state \in Outstanding
      BY <3>1, <3>2 DEF HoldsLease, Outstanding
    <3> QED
      BY <3>3, <3>4, <3>5 DEF Outstanding
  <2> QED
    BY <1>3, <2>1, <2>2 DEF LeaseStep, Redeliver, Stop
<1>4. \E h \in Hosts : ScanStep(h) \/ LeaseStep(h)
  BY StepCases, SendLeaves, RowLeaves, TriggerLeaves, DeploymentLeaves, VersionLeaves DEF vars
<1>5. trigger' = trigger /\ native' = native
  BY <1>4, ScanLeaves, LeaseLeaves DEF graphVars, custodyVars
<1> QED
  BY <1>2, <1>3, <1>4, <1>5

\* The answer of a handler is not taken back.
LEMMA AnswerStays ==
  ASSUME CronInv, [Next]_vars, NEW i \in Invocations, native[i] \in Answers
  PROVE  native'[i] = native[i]
<1>1. native \in [Invocations -> {"none", "running"} \cup Answers] /\ "none" \notin Answers /\ "running" \notin Answers
  BY CronAssumption DEF CronInv, Types
<1>2. ASSUME NEW h \in Hosts, SendStep(h) PROVE native'[i] = native[i]
  <2>1. CASE Send(h)
    <3>1. native' = [native EXCEPT ![Invocation(h)] = "running"] /\ job[h].stage = "authorized"
      BY <2>1 DEF Send
    <3>2. Invocation(h) \in Invocations
      BY <1>2, SendKeepsAttempts
    <3>3. native[Invocation(h)] = "none"
      BY <3>1, <3>2 DEF CronInv, SenderAlone, Unsent, RowTruthful
    <3> QED
      BY <1>1, <3>1, <3>3
  <2> QED
    BY <1>2, <2>1 DEF SendStep, AdmitCron, BeginSend, ConfirmNoNativeDispatch
<1>3. ASSUME NEW j \in Invocations, RowStep(j) PROVE native'[i] = native[i]
  BY <1>1, <1>3 DEF RowStep, HandlerEnds, RefuseBeforeSend, ArmSQLiteExternalUse, ConfirmNativeRetirement, ConfirmSQLiteDrained
<1> QED
  BY StepCases, <1>2, <1>3, ScanLeaves, LeaseLeaves, TriggerLeaves, DeploymentLeaves, VersionLeaves DEF vars, custodyVars

\* Answers are those of the last attempt, and a trigger that is clear stays so.
LEMMA MatchesStep ==
  ASSUME CronInv, [Next]_vars
  PROVE  MatchesSettled'
<1>1. ASSUME NEW m \in Matches, match'[m].state \in Answers
      PROVE  native'[<<m, match'[m].attempts>>] = match'[m].state
  <2>1. "pending" \notin Answers /\ Answers \cap Outstanding = {}
    BY CronAssumption DEF Outstanding
  <2>2. CASE match'[m] = match[m]
    <3>1. match[m].attempts \in Attempts /\ native[<<m, match[m].attempts>>] = match[m].state
      BY <1>1, <2>2 DEF CronInv, JobsClaimed, MatchesSettled
    <3>2. <<m, match[m].attempts>> \in Invocations
      BY <3>1 DEF Invocations
    <3> QED
      BY <1>1, <2>2, <3>1, <3>2, AnswerStays
  <2>3. CASE match'[m] # match[m]
    BY <1>1, <2>1, <2>3, MatchChange
  <2> QED
    BY <2>2, <2>3
<1>2. ASSUME NEW t \in Triggers, trigger'[t].phase \in {"clear", "deleted"}, NEW k \in Minutes
      PROVE  match'[<<t, k>>].state \notin Outstanding
  <2>1. <<t, k>> \in Matches
    BY DEF Matches
  <2>2. CASE trigger[t].phase \in {"clear", "deleted"}
    <3>1. match[<<t, k>>].state \notin Outstanding
      BY <2>2 DEF CronInv, MatchesSettled
    <3>2. <<t, k>>[1] = t
      OBVIOUS
    <3> QED
      BY <2>1, <2>2, <3>1, <3>2, MatchChange
  <2>3. CASE trigger[t].phase \notin {"clear", "deleted"}
    <3>1. trigger \in [Triggers -> TriggerRecord]
      BY DEF CronInv, Types
    <3>2. ASSUME NEW u \in Triggers, TriggerStep(u) PROVE match'[<<t, k>>].state \notin Outstanding
      <4>1. match' = match
        BY <3>2, TriggerLeaves
      <4>2. CASE TriggerDeleteRuns(u)
        <5>1. trigger' = [trigger EXCEPT ![u].phase = "clear"] /\ \A j \in Minutes : match[<<u, j>>].state \notin Outstanding
          BY <4>2 DEF TriggerDeleteRuns
        <5>2. t = u
          BY <1>2, <2>3, <3>1, <5>1
        <5> QED
          BY <4>1, <5>1, <5>2
      <4>3. CASE TriggerDeleteEnds(u)
        <5>1. trigger' = [trigger EXCEPT ![u].phase = "deleted"] /\ trigger[u].phase = "clear"
          BY <4>3 DEF TriggerDeleteEnds
        <5> QED
          BY <1>2, <2>3, <3>1, <5>1
      <4>4. CASE AcceptTriggerUpdate(u) \/ AcceptTriggerDelete(u)
        <5>1. \E p \in {"updating", "deleting"} : trigger' = [trigger EXCEPT ![u].phase = p, ![u].generation = @ + 1]
          BY <4>4 DEF AcceptTriggerUpdate, AcceptTriggerDelete
        <5>2. trigger'[u].phase \in {"updating", "deleting"} /\ \A w \in Triggers : w # u => trigger'[w] = trigger[w]
          BY <3>1, <5>1 DEF TriggerRecord
        <5> QED
          BY <1>2, <2>3, <5>2
      <4>5. ASSUME NEW j \in Minutes, TriggerUpdateEnds(u, j) PROVE match'[<<t, k>>].state \notin Outstanding
        <5>1. \/ trigger' = [trigger EXCEPT ![u].phase = "idle", ![u].settled = j]
              \/ trigger' = [trigger EXCEPT ![u].phase = "failed"]
          BY <4>5 DEF TriggerUpdateEnds
        <5>2. trigger'[u].phase \in {"idle", "failed"} /\ \A w \in Triggers : w # u => trigger'[w] = trigger[w]
          BY <3>1, <5>1 DEF TriggerRecord
        <5> QED
          BY <1>2, <2>3, <5>2
      <4> QED
        BY <3>2, <4>2, <4>3, <4>4, <4>5 DEF TriggerStep
    <3> QED
      BY <1>2, <2>3, StepCases, <3>2, ScanLeaves, LeaseLeaves, SendLeaves, RowLeaves, DeploymentLeaves, VersionLeaves DEF vars, graphVars
  <2> QED
    BY <2>2, <2>3
<1> QED
  BY <1>1, <1>2 DEF MatchesSettled

-----------------------------------------------------------------------------

\* CronInv is inductive.
LEMMA CronStep ==
  ASSUME CronInv, [Next]_vars
  PROVE  CronInv'
BY GraphTypes, ScanStepKeeps, CursorStep, JobsStep, CustodyStep, GrantedStep, MatchesStep
   DEF CronInv, Types, GraphTyped, ScanTyped, JobsTyped, CustodyKept, CustodyTyped

\* CronInv holds in every reachable state.
LEMMA CronInvHolds == Spec => []CronInv
<1>1. Init => CronInv
  BY InitInv
<1>2. CronInv /\ [Next]_vars => CronInv'
  BY CronStep
<1> QED
  BY <1>1, <1>2, PTL DEF Spec

\* The Resources, the scan, the matches, the jobs and the rows keep their types, and no Host
\* delivers while it scans.
THEOREM TypeCorrect == Spec => []TypeOK
<1>1. ASSUME CronInv PROVE TypeOK
  <2>1. ASSUME NEW h \in Hosts
        PROVE  /\ tick[h].stage \in {"idle", "scan", "record"}
               /\ tick[h].page \subseteq Triggers \X (1..(MaxWork + 1))
               /\ job[h].match \in Matches \cup {None} /\ job[h].attempt \in 0..MaxAttempts
               /\ job[h].stage \in {"idle", "claimed", "admitted", "authorized", "sent", "barred"}
               /\ job[h].stage # "idle" => tick[h] = NoTick
    <3>1. tick[h] \in TickRecord /\ job[h] \in JobRecord
      BY <1>1 DEF CronInv, Types
    <3>2. tick[h].stage \in {"idle", "scan", "record"} /\ tick[h].page \subseteq Triggers \X (1..(MaxWork + 1))
      BY <3>1 DEF TickRecord
    <3>3. /\ job[h].match \in Matches \cup {None} /\ job[h].attempt \in 0..MaxAttempts
          /\ job[h].stage \in {"idle", "claimed", "admitted", "authorized", "sent", "barred"}
      BY <3>1 DEF JobRecord
    <3> QED
      BY <1>1, <3>2, <3>3 DEF CronInv, JobsClaimed
  <2> QED
    BY <1>1, <2>1 DEF CronInv, Types, TypeOK, TriggerRecord, DeploymentRecord, CursorRecord, MatchRecord, CustodyRecord
<1>2. CronInv => TypeOK
  BY <1>1
<1> QED
  BY <1>2, CronInvHolds, PTL

\* An attempt reaches its handler at most once, and what its row says of it is true.
THEOREM SentOnceHolds == Spec => []SentOnce
<1>1. CronInv => SentOnce
  BY DEF CronInv, RowTruthful, SentOnce
<1> QED
  BY <1>1, CronInvHolds, PTL

\* The native code of a Version is deleted only when no handler of it runs or may yet start and
\* none of its external SQL is in flight.
THEOREM VersionKeptHolds == Spec => []VersionKept
<1>1. ASSUME CronInv PROVE VersionKept
  <2> SUFFICES ASSUME NEW v \in Versions, version[v] = "granted"
               PROVE  /\ v \notin deployment.edges
                      /\ \A i \in Invocations : row[i].version = v =>
                           native[i] # "running" /\ row[i].drain # "pending"
                      /\ \A h \in Hosts : job[h].stage = "authorized" => row[Invocation(h)].version # v
    BY DEF VersionKept
  <2>1. v \notin deployment.edges /\ \A i \in Invocations : row[i].version = v => Resolved(i)
    BY <1>1 DEF CronInv, GrantedUnused, Unused
  <2>2. "running" \notin Answers
    BY CronAssumption
  <2>3. ASSUME NEW i \in Invocations, row[i].version = v
        PROVE  native[i] # "running" /\ row[i].drain # "pending"
    <3>1. Resolved(i)
      BY <2>1, <2>3
    <3>2. sends[i] = 0 => native[i] = "none" /\ row[i].drain = "none"
      BY <1>1 DEF CronInv, RowTruthful
    <3>3. sends[i] = 1 => row[i].retired /\ row[i].drain # "pending" /\ native[i] \in Answers
      BY <1>1, <3>1 DEF CronInv, RowTruthful, Resolved, DrainPending
    <3> QED
      BY <1>1, <2>2, <3>2, <3>3 DEF CronInv, RowTruthful
  <2>4. ASSUME NEW h \in Hosts, job[h].stage = "authorized" PROVE row[Invocation(h)].version # v
    BY <1>1, <2>1, <2>4, InvocationOfJob DEF CronInv, SenderAlone, Unsent, Resolved, DrainPending
  <2> QED
    BY <2>1, <2>3, <2>4
<1>2. CronInv => VersionKept
  BY <1>1
<1> QED
  BY <1>2, CronInvHolds, PTL

\* A settled match carries the answer of its last attempt, and a deleted trigger leaves no match
\* to dispatch.
THEOREM ResultOfLastAttemptHolds == Spec => []ResultOfLastAttempt
<1>1. CronInv => ResultOfLastAttempt
  BY DEF CronInv, MatchesSettled, ResultOfLastAttempt
<1> QED
  BY <1>1, CronInvHolds, PTL

\* The cursor passes no trigger undecided, for any number of triggers, pages and Hosts.
THEOREM ScanMissesNoneHolds == Spec => []ScanMissesNone
<1>1. CronInv => ScanMissesNone
  BY DEF CronInv
<1> QED
  BY <1>1, CronInvHolds, PTL

\* A send is authorized only while the match is the attempt's own and the Deployment that
\* admitted it serves its Version: beginSend compares both again.
THEOREM AuthorizedForServingHolds == Spec => AuthorizedForServing
<1> DEFINE Serves == \A i \in Invocations :
             row[i].phase # "send_authorized" /\ row'[i].phase = "send_authorized" =>
               /\ match[i[1]].state = "dispatching" /\ match[i[1]].attempts = i[2]
               /\ deployment.phase = "idle" /\ deployment.generation = row[i].generation
               /\ version[row[i].version] = "ready"
<1>1. ASSUME CronInv, [Next]_vars PROVE Serves
  <2> SUFFICES ASSUME NEW i \in Invocations, row[i].phase # "send_authorized", row'[i].phase = "send_authorized"
               PROVE  Authorizable(i)
    BY DEF Authorizable, CurrentAttempt
  <2>1. row \in [Invocations -> CustodyRecord] /\ row'[i] # row[i]
    BY <1>1 DEF CronInv, Types
  <2>2. ASSUME NEW h \in Hosts, SendStep(h) PROVE Authorizable(i)
    <3>1. ASSUME NEW v \in Versions, NEW gen \in 1..deployment.generation, AdmitCron(h, v, gen)
          PROVE  FALSE
      <4> DEFINE new == [NoRow EXCEPT !.phase = "admitted", !.version = v, !.generation = deployment.generation]
      <4>1. row' = [row EXCEPT ![Invocation(h)] = new]
        BY <2>1, <3>1 DEF AdmitCron
      <4>2. new.phase = "admitted"
        BY DEF NoRow
      <4> HIDE DEF new
      <4> QED
        BY <2>1, <4>1, <4>2
    <3>2. ASSUME NEW a \in BOOLEAN, BeginSend(h, a) PROVE Authorizable(i)
      <4>1. row' = [row EXCEPT ![Invocation(h)].phase = "send_authorized"] /\ Authorizable(Invocation(h))
        BY <3>2 DEF BeginSend
      <4>2. i = Invocation(h)
        BY <2>1, <4>1
      <4> QED
        BY <4>1, <4>2
    <3>3. CASE Send(h)
      BY <2>1, <3>3 DEF Send
    <3>4. CASE ConfirmNoNativeDispatch(h)
      <4>1. row' = [row EXCEPT ![Invocation(h)].noDispatch = TRUE]
        BY <3>4 DEF ConfirmNoNativeDispatch
      <4>2. row'[i].phase = row[i].phase
        BY <2>1, <4>1 DEF CustodyRecord
      <4> QED
        BY <4>2
    <3> QED
      BY <2>2, <3>1, <3>2, <3>3, <3>4 DEF SendStep
  <2>3. ASSUME NEW j \in Invocations, RowStep(j) PROVE FALSE
    <3>1. \/ row' = row
          \/ row' = [row EXCEPT ![j].phase = "pre_effect_refused"]
          \/ row' = [row EXCEPT ![j].drain = "pending"]
          \/ row' = [row EXCEPT ![j].retired = TRUE]
          \/ row' = [row EXCEPT ![j].drain = "drained"]
      BY <2>3 DEF RowStep, HandlerEnds, RefuseBeforeSend, ArmSQLiteExternalUse, ConfirmNativeRetirement, ConfirmSQLiteDrained
    <3>2. row'[i].phase \in {row[i].phase, "pre_effect_refused"}
      BY <2>1, <3>1 DEF CustodyRecord
    <3> QED
      BY <3>2
  <2> QED
    BY StepCases, <1>1, <2>1, <2>2, <2>3, ScanLeaves, LeaseLeaves, TriggerLeaves, DeploymentLeaves, VersionLeaves DEF vars, custodyVars
<1>2. CronInv /\ [Next]_vars => [Serves]_vars
  BY <1>1
<1> QED
  BY <1>2, CronInvHolds, PTL DEF Spec, AuthorizedForServing

=============================================================================

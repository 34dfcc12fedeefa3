----------------------------- MODULE HostProofs -----------------------------
(***************************************************************************)
(* The engine's guarantees for every number of requests, passes, Resources *)
(* and Operations: it only issues statements of the ledger, so LedgerInv   *)
(* holds, and HostInv is inductive over its steps.                         *)
(***************************************************************************)
EXTENDS HostOperations, LedgerProofs

\* The kind of a request tells which of the three it is.
LEMMA RequestKinds ==
  /\ \A k, n, refs, priv : CreateRequest(k, n, refs, priv).kind = "create"
  /\ \A k, u, b, refs, priv : UpdateRequest(k, u, b, refs, priv).kind = "update"
  /\ \A k, u, b : DeleteRequest(k, u, b).kind = "delete"
BY DEF CreateRequest, UpdateRequest, DeleteRequest

\* A step of a client that submits what its call may submit accepts by a ledger statement.
LEMMA AcceptIsStatement ==
  ASSUME HostInv, NEW c \in Clients, AcceptCreate(c) \/ AcceptChange(c)
  PROVE  \E o \in Ops, k \in Keys : AcceptStatement(o, k)
<1>1. Submits(cl[c])
  BY DEF HostInv, ClientsSubmit, AcceptCreate, AcceptChange
<1>2. CASE AcceptCreate(c)
  <2>1. PICK o \in Ops, u \in Uids : InsertCreate(o, u, cl[c])
    BY <1>2 DEF AcceptCreate
  <2>2. PICK k \in Keys, n \in Names, refs \in RefChoices, priv \in PrivChoices :
          cl[c] = CreateRequest(k, n, refs, priv)
    <3>1. cl[c].kind = "create"
      BY <1>2 DEF AcceptCreate
    <3> QED
      BY <1>1, <3>1, RequestKinds DEF Submits
  <2> QED
    BY <2>1, <2>2 DEF AcceptStatement
<1>3. CASE AcceptChange(c)
  <2>1. PICK o \in Ops : InsertChange(o, cl[c])
    BY <1>3 DEF AcceptChange
  <2>2. res[cl[c].uid].gen = cl[c].base
    BY <2>1 DEF InsertChange, ChangeCommits, ChangeAdmitted
  <2>3. CASE \E k \in Keys, u \in Uids, b \in {cl[c].base}, refs \in RefChoices,
                priv \in PrivChoices : cl[c] = UpdateRequest(k, u, b, refs, priv)
    <3>1. PICK k \in Keys, u \in Uids, b \in {cl[c].base}, refs \in RefChoices,
               priv \in PrivChoices : cl[c] = UpdateRequest(k, u, b, refs, priv)
      BY <2>3
    <3>2. b = res[u].gen
      BY <2>2, <3>1 DEF UpdateRequest
    <3>3. InsertChange(o, UpdateRequest(k, u, res[u].gen, refs, priv))
      BY <2>1, <3>1, <3>2
    <3> QED
      BY <3>3 DEF AcceptStatement
  <2>4. CASE \E k \in Keys, u \in Uids, b \in {cl[c].base} : cl[c] = DeleteRequest(k, u, b)
    <3>1. PICK k \in Keys, u \in Uids, b \in {cl[c].base} : cl[c] = DeleteRequest(k, u, b)
      BY <2>4
    <3>2. b = res[u].gen
      BY <2>2, <3>1 DEF DeleteRequest
    <3>3. InsertChange(o, DeleteRequest(k, u, res[u].gen))
      BY <2>1, <3>1, <3>2
    <3> QED
      BY <3>3 DEF AcceptStatement
  <2>5. cl[c].kind # "create"
    BY <1>3 DEF AcceptChange
  <2> QED
    BY <1>1, <2>3, <2>4, <2>5, RequestKinds DEF Submits
<1> QED
  BY <1>2, <1>3

\* A pass's step leaves the ledger alone or issues one statement for its Operation.
LEMMA PassIsStatement ==
  ASSUME HostInv, NEW w \in Workers, PassStep(w)
  PROVE  [LedgerNext]_ledgerVars
<1>1. wk[w].pc # "idle" => wk[w].op \in Ops
  BY DEF HostInv, PassesHaveOperations
<1>2. CASE \/ \E o \in Ops : Pick(w, o)
           \/ ClaimLost(w) \/ LoadForReconcile(w) \/ LoadForDispatch(w)
           \/ LoadWithoutInputs(w) \/ LoadUnverifiable(w) \/ LostRunning(w)
  BY <1>2 DEF Pick, ClaimLost, LoadForReconcile, LoadForDispatch, LoadWithoutInputs,
     LoadUnverifiable, LostRunning
<1>3. CASE \/ OwnsClaim(w) \/ Execute(w) \/ Reconcile(w) \/ LostReconciling(w)
           \/ \E r \in Results : Answer(w, r)
  BY <1>3 DEF OwnsClaim, Execute, Reconcile, LostReconciling, Answer
<1>4. CASE DeferUnbound(w)
  BY <1>1, <1>4 DEF DeferUnbound, LedgerNext
<1>5. CASE ClaimPicked(w)
  <2>1. wk[w].op \in Ops /\ PassStatement(wk[w].op, w)
    BY <1>1, <1>5 DEF ClaimPicked, PassStatement
  <2> QED
    BY <2>1 DEF LedgerNext
<1>6. CASE Wait(w)
  <2>1. wk[w].op \in Ops /\ PassStatement(wk[w].op, w)
    BY <1>1, <1>6 DEF Wait, PassStatement
  <2> QED
    BY <2>1 DEF LedgerNext
<1>7. CASE Unverifiable(w)
  <2>1. wk[w].op \in Ops /\ PassStatement(wk[w].op, w)
    BY <1>1, <1>7 DEF Unverifiable, PassStatement
  <2> QED
    BY <2>1 DEF LedgerNext
<1>8. CASE Mark(w)
  <2>1. wk[w].op \in Ops /\ PassStatement(wk[w].op, w)
    BY <1>1, <1>8 DEF Mark, PassStatement
  <2> QED
    BY <2>1 DEF LedgerNext
<1>9. CASE Settle(w)
  <2>1. wk[w].op \in Ops /\ PassStatement(wk[w].op, w)
    BY <1>1, <1>9 DEF Settle, PassStatement
  <2> QED
    BY <2>1 DEF LedgerNext
<1>10. CASE SettleLater(w)
  <2>1. wk[w].op \in Ops /\ PassStatement(wk[w].op, w)
    BY <1>1, <1>10 DEF SettleLater, PassStatement
  <2> QED
    BY <2>1 DEF LedgerNext
<1> QED
  BY <1>2, <1>3, <1>4, <1>5, <1>6, <1>7, <1>8, <1>9, <1>10 DEF PassStep

\* Every step of the engine, its clients and its backend is a step of the ledger or leaves
\* the ledger alone.
LEMMA HostStepIsLedgerStep ==
  ASSUME HostInv, [Next]_vars
  PROVE  [LedgerNext]_ledgerVars
<1>1. CASE UNCHANGED vars
  BY <1>1 DEF vars, ledgerVars
<1>2. ASSUME NEW c \in Clients, ClientStep(c)
      PROVE  [LedgerNext]_ledgerVars
  <2>1. CASE BeginCreate(c) \/ BeginUpdate(c) \/ BeginDelete(c) \/ AcceptRefused(c)
    BY <2>1 DEF BeginCreate, BeginUpdate, BeginDelete, AcceptRefused, Holding
  <2>2. CASE AcceptCreate(c) \/ AcceptChange(c)
    BY <2>2, AcceptIsStatement DEF LedgerNext
  <2> QED
    BY <1>2, <2>1, <2>2 DEF ClientStep
<1>3. ASSUME NEW w \in Workers, PassStep(w) \/ Crash(w)
      PROVE  [LedgerNext]_ledgerVars
  BY <1>3, PassIsStatement DEF Crash
<1>4. ASSUME NEW o \in Ops,
             ReplenishInputs(o) \/ BackendWorks(o) \/ LeaseTimer(o) \/ AttemptTimer(o)
      PROVE  [LedgerNext]_ledgerVars
  BY <1>4 DEF ReplenishInputs, BackendWorks, LeaseTimer, AttemptTimer, LedgerNext
<1> QED
  BY <1>1, <1>2, <1>3, <1>4 DEF Next

-----------------------------------------------------------------------------
(* What a step may do to the passes and to the rows without endangering     *)
(* HostInv.                                                                 *)

Early == {"idle", "picked", "claimed", "wait", "unverifiable", "mark"}

\* Passes stand still, end, or stay ahead of the mark.
Retreat ==
  \A v \in Workers :
    \/ wk'[v] = wk[v]
    \/ wk'[v].pc \in Early /\ (wk'[v].pc # "idle" => wk'[v].op \in Ops)

\* Such passes know nothing that could be false.
LEMMA RetreatKeeps ==
  ASSUME HostInv, Retreat, UNCHANGED <<native, calls>>,
         \A o \in Ops : op[o].sent => op'[o].sent
  PROVE  PassesHaveOperations' /\ PassesFollowMark' /\ ExecutesFirst' /\ AnswersStand'
<1> USE DEF HostInv, Retreat, Early
<1>1. PassesHaveOperations'
  BY DEF PassesHaveOperations
<1>2. PassesFollowMark'
  BY DEF PassesFollowMark, PassesHaveOperations
<1>3. ExecutesFirst'
  BY DEF ExecutesFirst, WillExecute
<1>4. AnswersStand'
  BY DEF AnswersStand
<1> QED
  BY <1>1, <1>2, <1>3, <1>4

\* Ending a pass, or moving it to a place ahead of the mark, is such a step.
LEMMA EndsRetreats ==
  ASSUME TypeOK, NEW w \in Workers, Ends(w)
  PROVE  Retreat /\ wk' \in [Workers -> PassStates]
BY DEF TypeOK, Ends, Retreat, Early, NoPass, PassStates, Results

\* Moving a pass to a place ahead of the mark is such a step too.
LEMMA GoesRetreats ==
  ASSUME TypeOK, NEW w \in Workers, NEW pc \in Early \ {"idle"}, wk[w].op \in Ops, Goes(w, pc)
  PROVE  Retreat /\ wk' \in [Workers -> PassStates]
<1>1. wk[w] \in PassStates
  BY DEF TypeOK
<1>2. wk' = [wk EXCEPT ![w] = [wk[w] EXCEPT !.pc = pc]]
  BY DEF Goes
<1>3. [wk[w] EXCEPT !.pc = pc] \in PassStates
  BY <1>1 DEF PassStates, Early
<1>4. [wk[w] EXCEPT !.pc = pc].pc = pc /\ [wk[w] EXCEPT !.pc = pc].op = wk[w].op
  BY <1>1 DEF PassStates
<1> QED
  BY <1>2, <1>3, <1>4 DEF TypeOK, Retreat

\* A row that is neither marked nor settled by the step.
RowKept(new, old) ==
  /\ new.sent = old.sent
  /\ new.transfer => ~old.sent
  /\ new.status \in {"absent", "queued", "running", "waiting_input"} => ~old.sent
  /\ new.status \in Terminal => old.status \in Terminal
  /\ old.status \in Terminal => new = old

Mild == \A o \in Ops : RowKept(op'[o], op[o])

\* Rows kept so say of the sends and of the settlements what they said before.
LEMMA MildKeeps ==
  ASSUME HostInv, Mild, UNCHANGED <<native, calls>>
  PROVE  SendsRecorded' /\ SettledTruly'
<1> USE DEF HostInv, Mild, RowKept
<1>1. SendsRecorded'
  BY DEF SendsRecorded
<1>2. SettledTruly'
  BY DEF SettledTruly, IsTerminal
<1> QED
  BY <1>1, <1>2

\* One row is rewritten and kept so.
LEMMA OneRowMild ==
  ASSUME HostInv, NEW o \in Ops, NEW row, op' = [op EXCEPT ![o] = row], RowKept(row, op[o])
  PROVE  Mild
<1>1. op \in [Ops -> OperationRows]
  BY DEF HostInv, TypeOK, LedgerTypeOK
<1>2. \A p \in Ops : RowKept(op[p], op[p])
  BY DEF HostInv, SendsRecorded, RowKept
<1> QED
  BY <1>1, <1>2 DEF Mild

\* claim neither marks nor settles.
LEMMA ClaimMild ==
  ASSUME HostInv, NEW o \in Ops, NEW w \in Workers, Claim(o, w)
  PROVE  Mild
<1> DEFINE row == [op[o] EXCEPT !.status = IF op[o].sent THEN "reconciling" ELSE "running",
                                !.effect = IF op[o].sent THEN "unknown" ELSE "none",
                                !.lease = w, !.expired = FALSE]
<1>1. op[o] \in OperationRows /\ op' = [op EXCEPT ![o] = row]
  BY DEF HostInv, TypeOK, LedgerTypeOK, Claim
<1>2. SendsRecorded /\ SettledTruly
  BY DEF HostInv
<1>3. RowKept(row, op[o])
  BY <1>1, <1>2 DEF RowKept, OperationRows, SendsRecorded, SettledTruly, IsTerminal, Terminal,
     Claim, Claimable
<1> QED
  BY <1>1, <1>3, OneRowMild

\* waitForInputs neither marks nor settles.
LEMMA WaitForInputsMild ==
  ASSUME HostInv, NEW o \in Ops, NEW w \in Workers, WaitForInputs(o, w)
  PROVE  Mild
<1> DEFINE row == [op[o] EXCEPT !.status = "waiting_input", !.lease = None,
                                !.expired = FALSE, !.transfer = FALSE]
<1>1. op[o] \in OperationRows /\ op' = [op EXCEPT ![o] = row]
  BY DEF HostInv, TypeOK, LedgerTypeOK, WaitForInputs
<1>2. SendsRecorded /\ SettledTruly
  BY DEF HostInv
<1>3. RowKept(row, op[o])
  BY <1>1, <1>2 DEF RowKept, OperationRows, SendsRecorded, SettledTruly, IsTerminal, Terminal,
     WaitForInputs, Holds
<1> QED
  BY <1>1, <1>3, OneRowMild

\* settle with status reconciling neither marks nor settles.
LEMMA SettleReconcilingMild ==
  ASSUME HostInv, NEW o \in Ops, NEW w \in Workers, SettleReconciling(o, w)
  PROVE  Mild
<1> DEFINE row == [op[o] EXCEPT !.due = FALSE, !.lease = None, !.expired = FALSE]
<1>1. op[o] \in OperationRows /\ op' = [op EXCEPT ![o] = row]
  BY DEF HostInv, TypeOK, LedgerTypeOK, SettleReconciling
<1>2. SendsRecorded /\ SettledTruly
  BY DEF HostInv
<1>3. RowKept(row, op[o])
  BY <1>1, <1>2 DEF RowKept, OperationRows, SendsRecorded, SettledTruly, IsTerminal, Terminal,
     SettleReconciling, Holds
<1> QED
  BY <1>1, <1>3, OneRowMild

\* replenish neither marks nor settles.
LEMMA ReplenishMild ==
  ASSUME HostInv, NEW o \in Ops, Replenish(o)
  PROVE  Mild
<1> DEFINE row == [op[o] EXCEPT !.status = "queued", !.due = TRUE, !.transfer = TRUE]
<1>1. op[o] \in OperationRows /\ op' = [op EXCEPT ![o] = row]
  BY DEF HostInv, TypeOK, LedgerTypeOK, Replenish
<1>2. SendsRecorded /\ SettledTruly
  BY DEF HostInv
<1>3. RowKept(row, op[o])
  BY <1>1, <1>2 DEF RowKept, OperationRows, SendsRecorded, SettledTruly, IsTerminal, Terminal,
     Replenish
<1> QED
  BY <1>1, <1>3, OneRowMild

\* defer neither marks nor settles.
LEMMA DeferMild ==
  ASSUME HostInv, NEW o \in Ops, Defer(o)
  PROVE  Mild
<1> DEFINE row == [op[o] EXCEPT !.due = FALSE]
<1>1. op[o] \in OperationRows /\ op' = [op EXCEPT ![o] = row]
  BY DEF HostInv, TypeOK, LedgerTypeOK, Defer
<1>2. SendsRecorded /\ SettledTruly
  BY DEF HostInv
<1>3. RowKept(row, op[o])
  BY <1>1, <1>2 DEF RowKept, OperationRows, SendsRecorded, SettledTruly, IsTerminal, Terminal,
     Defer
<1> QED
  BY <1>1, <1>3, OneRowMild

\* The end of a lease neither marks nor settles.
LEMMA LeaseExpiresMild ==
  ASSUME HostInv, NEW o \in Ops, LeaseExpires(o)
  PROVE  Mild
<1> DEFINE row == [op[o] EXCEPT !.expired = TRUE]
<1>1. op[o] \in OperationRows /\ op' = [op EXCEPT ![o] = row]
  BY DEF HostInv, TypeOK, LedgerTypeOK, LeaseExpires
<1>2. SendsRecorded /\ SettledTruly
  BY DEF HostInv
<1>3. RowKept(row, op[o])
  BY <1>1, <1>2 DEF RowKept, OperationRows, SendsRecorded, SettledTruly, IsTerminal, Terminal,
     LeaseExpires
<1> QED
  BY <1>1, <1>3, OneRowMild

\* The end of a delay neither marks nor settles.
LEMMA BecomesDueMild ==
  ASSUME HostInv, NEW o \in Ops, BecomesDue(o)
  PROVE  Mild
<1> DEFINE row == [op[o] EXCEPT !.due = TRUE]
<1>1. op[o] \in OperationRows /\ op' = [op EXCEPT ![o] = row]
  BY DEF HostInv, TypeOK, LedgerTypeOK, BecomesDue
<1>2. SendsRecorded /\ SettledTruly
  BY DEF HostInv
<1>3. RowKept(row, op[o])
  BY <1>1, <1>2 DEF RowKept, OperationRows, SendsRecorded, SettledTruly, IsTerminal, Terminal,
     BecomesDue, IsOpen, Open
<1> QED
  BY <1>1, <1>3, OneRowMild

\* Neither does the acceptance of an Operation.
LEMMA InsertMild ==
  ASSUME HostInv, NEW o \in Ops, NEW u, NEW rq, NEW g, NextOperation(o),
         InsertOperation(o, u, rq, g)
  PROVE  Mild
<1> DEFINE row == Accepted(rq, u, g)
<1>1. op[o] \in OperationRows /\ op' = [op EXCEPT ![o] = row]
  BY DEF HostInv, TypeOK, LedgerTypeOK, InsertOperation
<1>2. ~op[o].sent /\ op[o].status = "absent"
  BY DEF HostInv, SendsRecorded, NextOperation
<1>3. row.status = "queued" /\ row.sent = FALSE
  BY DEF Accepted
<1>4. op[o].sent \in BOOLEAN
  BY <1>1 DEF OperationRows
<1> HIDE DEF row
<1>5. RowKept(row, op[o])
  BY <1>2, <1>3, <1>4 DEF RowKept, Terminal
<1> QED
  BY <1>1, <1>5, OneRowMild

-----------------------------------------------------------------------------
(* HostInv is inductive.                                                    *)

\* The initial state.
LEMMA HostInitInv == Init => HostInv
<1> SUFFICES ASSUME Init PROVE HostInv
  OBVIOUS
<1>1. LedgerInv
  BY LedgerInitInv DEF Init
<1>2. TypeOK
  BY <1>1 DEF Init, TypeOK, LedgerInv, NoPass, PassStates, Results, NativeStates
<1>3. ClientsSubmit /\ PassesHaveOperations /\ PassesFollowMark /\ AnswersStand
  BY DEF Init, ClientsSubmit, PassesHaveOperations, PassesFollowMark, AnswersStand, NoPass
<1>4. ExecutesFirst
  BY DEF Init, ExecutesFirst, WillExecute, NoPass
<1>5. SendsRecorded /\ SettledTruly
  BY DEF Init, LedgerInit, NoOperation, SendsRecorded, SettledTruly, IsTerminal, Terminal
<1> QED
  BY <1>1, <1>2, <1>3, <1>4, <1>5 DEF HostInv

\* A step that keeps the rows, the backend and every pass ahead of the mark as they should be.
LEMMA HarmlessInv ==
  ASSUME HostInv, LedgerInv', Mild, Retreat, ClientsSubmit', UNCHANGED <<native, calls>>,
         cl' \in [Clients -> Requests \cup {None}], wk' \in [Workers -> PassStates]
  PROVE  HostInv'
<1>1. TypeOK'
  BY DEF HostInv, TypeOK, LedgerInv
<1>2. \A o \in Ops : op[o].sent => op'[o].sent
  BY DEF Mild, RowKept
<1>3. PassesHaveOperations' /\ PassesFollowMark' /\ ExecutesFirst' /\ AnswersStand'
  BY <1>2, RetreatKeeps
<1>4. SendsRecorded' /\ SettledTruly'
  BY MildKeeps
<1> QED
  BY <1>1, <1>3, <1>4 DEF HostInv

\* A ledger that does not change is kept.
LEMMA UnchangedMild ==
  ASSUME HostInv, UNCHANGED op
  PROVE  Mild
BY DEF HostInv, SendsRecorded, Mild, RowKept

\* Passes that stand still.
LEMMA UnchangedRetreats ==
  ASSUME HostInv, UNCHANGED wk
  PROVE  Retreat /\ wk' \in [Workers -> PassStates]
BY DEF HostInv, TypeOK, Retreat

\* Requests that stand still.
LEMMA UnchangedClients ==
  ASSUME HostInv, UNCHANGED cl
  PROVE  ClientsSubmit' /\ cl' \in [Clients -> Requests \cup {None}]
BY DEF HostInv, TypeOK, ClientsSubmit

\* A request that begins has the form its call gives it.
LEMMA BeginSubmits ==
  ASSUME HostInv, NEW c \in Clients, BeginCreate(c) \/ BeginUpdate(c) \/ BeginDelete(c)
  PROVE  /\ ClientsSubmit' /\ cl' \in [Clients -> Requests \cup {None}]
         /\ UNCHANGED <<ledgerVars, wk, native, calls>>
<1>1. \E rq \in Requests : Submits(rq) /\ Holding(c, rq)
  <2>1. \A u \in Uids : res[u].gen \in Nat
    BY DEF HostInv, TypeOK, LedgerTypeOK, ResourceRows
  <2>2. CASE BeginCreate(c)
    <3>1. PICK k \in Keys, n \in Names, refs \in RefChoices, priv \in PrivChoices :
            Holding(c, CreateRequest(k, n, refs, priv))
      BY <2>2 DEF BeginCreate
    <3>2. CreateRequest(k, n, refs, priv) \in Requests
      BY LedgerAssumption DEF CreateRequest, Requests, Kinds
    <3>3. Submits(CreateRequest(k, n, refs, priv))
      BY DEF Submits
    <3> QED
      BY <3>1, <3>2, <3>3
  <2>3. CASE BeginUpdate(c)
    <3>1. PICK k \in Keys, u \in Uids, refs \in RefChoices, priv \in PrivChoices :
            Holding(c, UpdateRequest(k, u, res[u].gen, refs, priv))
      BY <2>3 DEF BeginUpdate
    <3> DEFINE rq == UpdateRequest(k, u, res[u].gen, refs, priv)
    <3>2. rq \in Requests /\ rq.base = res[u].gen
      BY <2>1, LedgerAssumption DEF UpdateRequest, Requests, Kinds
    <3>3. Submits(rq)
      BY <3>2 DEF Submits
    <3> QED
      BY <3>1, <3>2, <3>3
  <2>4. CASE BeginDelete(c)
    <3>1. PICK k \in Keys, u \in Uids : Holding(c, DeleteRequest(k, u, res[u].gen))
      BY <2>4 DEF BeginDelete
    <3> DEFINE rq == DeleteRequest(k, u, res[u].gen)
    <3>2. rq \in Requests /\ rq.base = res[u].gen
      BY <2>1 DEF DeleteRequest, Requests, Kinds
    <3>3. Submits(rq)
      BY <3>2 DEF Submits
    <3> QED
      BY <3>1, <3>2, <3>3
  <2> QED
    BY <2>2, <2>3, <2>4
<1>2. PICK rq \in Requests : Submits(rq) /\ Holding(c, rq)
  BY <1>1
<1>3. cl' = [cl EXCEPT ![c] = rq] /\ UNCHANGED <<ledgerVars, wk, native, calls>>
  BY <1>2 DEF Holding
<1>4. cl \in [Clients -> Requests \cup {None}] /\ ClientsSubmit
  BY DEF HostInv, TypeOK
<1>5. \A d \in Clients : cl'[d] = IF d = c THEN rq ELSE cl[d]
  BY <1>3, <1>4
<1>6. ClientsSubmit'
  BY <1>2, <1>4, <1>5 DEF ClientsSubmit
<1> QED
  BY <1>2, <1>3, <1>4, <1>6

\* A request that ends submits nothing any more.
LEMMA EndSubmits ==
  ASSUME HostInv, NEW c \in Clients, cl' = [cl EXCEPT ![c] = None]
  PROVE  ClientsSubmit' /\ cl' \in [Clients -> Requests \cup {None}]
<1>1. cl \in [Clients -> Requests \cup {None}] /\ ClientsSubmit
  BY DEF HostInv, TypeOK
<1>2. \A d \in Clients : cl'[d] = IF d = c THEN None ELSE cl[d]
  BY <1>1
<1> QED
  BY <1>1, <1>2 DEF ClientsSubmit

\* A client's step preserves HostInv.
LEMMA ClientInv ==
  ASSUME HostInv, LedgerInv', NEW c \in Clients, ClientStep(c)
  PROVE  HostInv'
<1>1. CASE BeginCreate(c) \/ BeginUpdate(c) \/ BeginDelete(c)
  <2>1. /\ ClientsSubmit' /\ cl' \in [Clients -> Requests \cup {None}]
        /\ UNCHANGED <<ledgerVars, wk, native, calls>>
    BY <1>1, BeginSubmits
  <2>2. Mild
    BY <2>1, UnchangedMild DEF ledgerVars
  <2> QED
    BY <2>1, <2>2, UnchangedRetreats, HarmlessInv
<1>2. CASE AcceptRefused(c)
  <2>1. Mild
    BY <1>2, UnchangedMild DEF AcceptRefused, ledgerVars
  <2>2. UNCHANGED <<wk, native, calls>> /\ cl' = [cl EXCEPT ![c] = None]
    BY <1>2 DEF AcceptRefused
  <2> QED
    BY <2>1, <2>2, EndSubmits, UnchangedRetreats, HarmlessInv
<1>3. CASE AcceptCreate(c)
  <2>1. PICK o \in Ops, u \in Uids : InsertCreate(o, u, cl[c])
    BY <1>3 DEF AcceptCreate
  <2>2. Mild
    BY <2>1, InsertMild DEF InsertCreate
  <2>3. UNCHANGED <<wk, native, calls>> /\ cl' = [cl EXCEPT ![c] = None]
    BY <1>3 DEF AcceptCreate
  <2> QED
    BY <2>2, <2>3, EndSubmits, UnchangedRetreats, HarmlessInv
<1>4. CASE AcceptChange(c)
  <2>1. PICK o \in Ops : InsertChange(o, cl[c])
    BY <1>4 DEF AcceptChange
  <2>2. Mild
    BY <2>1, InsertMild DEF InsertChange
  <2>3. UNCHANGED <<wk, native, calls>> /\ cl' = [cl EXCEPT ![c] = None]
    BY <1>4 DEF AcceptChange
  <2> QED
    BY <2>2, <2>3, EndSubmits, UnchangedRetreats, HarmlessInv
<1> QED
  BY <1>1, <1>2, <1>3, <1>4 DEF ClientStep

\* A pass's step ahead of the mark, and every step that ends a pass without settling.
LEMMA PassAheadInv ==
  ASSUME HostInv, LedgerInv', Retreat, wk' \in [Workers -> PassStates],
         Mild, UNCHANGED <<cl, native, calls>>
  PROVE  HostInv'
BY UnchangedClients, HarmlessInv

\* The steps of a pass that end it, or keep it ahead of the mark.
LEMMA HarmlessPassInv ==
  ASSUME HostInv, LedgerInv', NEW w \in Workers,
         \/ \E o \in Ops : Pick(w, o)
         \/ DeferUnbound(w) \/ ClaimPicked(w) \/ ClaimLost(w)
         \/ LoadForDispatch(w) \/ LoadWithoutInputs(w) \/ LoadUnverifiable(w)
         \/ Wait(w) \/ LostRunning(w) \/ SettleLater(w) \/ LostReconciling(w) \/ Crash(w)
  PROVE  HostInv'
<1> USE PassAheadInv
<1>0. TypeOK /\ (wk[w].pc # "idle" => wk[w].op \in Ops)
  BY DEF HostInv, PassesHaveOperations
<1>1. ASSUME NEW o \in Ops, Pick(w, o) PROVE HostInv'
  <2>1. wk[w] \in PassStates
    BY <1>0 DEF TypeOK
  <2> DEFINE new == [wk[w] EXCEPT !.pc = "picked", !.op = o]
  <2>2. wk' = [wk EXCEPT ![w] = new] /\ UNCHANGED <<ledgerVars, cl, native, calls>>
    BY <1>0, <1>1 DEF Pick, TypeOK
  <2>3. new \in PassStates /\ new.pc = "picked" /\ new.op = o
    BY <2>1 DEF PassStates
  <2> HIDE DEF new
  <2>4. Retreat /\ wk' \in [Workers -> PassStates]
    BY <1>0, <2>2, <2>3 DEF TypeOK, Retreat, Early
  <2> QED
    BY <2>2, <2>4, UnchangedMild DEF ledgerVars
<1>2. CASE DeferUnbound(w)
  BY <1>0, <1>2, DeferMild, EndsRetreats DEF DeferUnbound
<1>3. CASE ClaimPicked(w)
  <2>1. Retreat /\ wk' \in [Workers -> PassStates]
    BY <1>0, <1>3, GoesRetreats DEF ClaimPicked, Early
  <2> QED
    BY <1>0, <1>3, <2>1, ClaimMild DEF ClaimPicked
<1>4. CASE ClaimLost(w) \/ LostRunning(w) \/ LostReconciling(w) \/ Crash(w)
  <2>1. Ends(w) /\ UNCHANGED <<ledgerVars, cl, native, calls>>
    BY <1>4 DEF ClaimLost, LostRunning, LostReconciling, Crash
  <2> QED
    BY <1>0, <2>1, UnchangedMild, EndsRetreats DEF ledgerVars
<1>5. CASE LoadForDispatch(w) \/ LoadWithoutInputs(w) \/ LoadUnverifiable(w)
  <2>1. /\ wk[w].op \in Ops /\ UNCHANGED <<ledgerVars, cl, native, calls>>
        /\ \E pc \in Early \ {"idle"} : Goes(w, pc)
    BY <1>0, <1>5 DEF LoadForDispatch, LoadWithoutInputs, LoadUnverifiable, Early
  <2>2. Retreat /\ wk' \in [Workers -> PassStates]
    BY <1>0, <2>1, GoesRetreats
  <2> QED
    BY <2>1, <2>2, UnchangedMild DEF ledgerVars
<1>6. CASE Wait(w)
  BY <1>0, <1>6, WaitForInputsMild, EndsRetreats DEF Wait
<1>7. CASE SettleLater(w)
  BY <1>0, <1>7, SettleReconcilingMild, EndsRetreats DEF SettleLater
<1> QED
  BY <1>1, <1>2, <1>3, <1>4, <1>5, <1>6, <1>7

\* New private inputs and the passing of time.
LEMMA TimeInv ==
  ASSUME HostInv, LedgerInv', NEW o \in Ops,
         ReplenishInputs(o) \/ LeaseTimer(o) \/ AttemptTimer(o)
  PROVE  HostInv'
<1>1. Mild /\ UNCHANGED <<cl, wk, native, calls>>
  BY ReplenishMild, LeaseExpiresMild, BecomesDueMild DEF ReplenishInputs, LeaseTimer, AttemptTimer
<1> QED
  BY <1>1, UnchangedRetreats, UnchangedClients, HarmlessInv

-----------------------------------------------------------------------------
(* The steps that change what a pass, the ledger and the backend know of    *)
(* each other.                                                              *)

\* What Goes does to the passes.
LEMMA GoesPasses ==
  ASSUME TypeOK, NEW w \in Workers, Goes(w, "own") \/ Goes(w, "call") \/ Goes(w, "reply")
  PROVE  /\ wk' \in [Workers -> PassStates]
         /\ wk'[w].op = wk[w].op /\ wk'[w].must = wk[w].must
         /\ wk'[w].pc \in {"own", "call", "reply"}
         /\ Goes(w, "own") => wk'[w].pc = "own"
         /\ Goes(w, "call") => wk'[w].pc = "call"
         /\ Goes(w, "reply") => wk'[w].pc = "reply"
         /\ \A v \in Workers \ {w} : wk'[v] = wk[v]
<1>1. wk \in [Workers -> PassStates] /\ wk[w] \in PassStates
  BY DEF TypeOK
<1>2. ASSUME NEW pc \in {"own", "call", "reply"}, Goes(w, pc)
      PROVE  /\ wk' \in [Workers -> PassStates]
             /\ wk'[w].op = wk[w].op /\ wk'[w].must = wk[w].must /\ wk'[w].pc = pc
             /\ \A v \in Workers \ {w} : wk'[v] = wk[v]
  <2> DEFINE new == [wk[w] EXCEPT !.pc = pc]
  <2>1. wk' = [wk EXCEPT ![w] = new]
    BY <1>2 DEF Goes
  <2>2. new \in PassStates /\ new.op = wk[w].op /\ new.must = wk[w].must /\ new.pc = pc
    BY <1>1 DEF PassStates
  <2> HIDE DEF new
  <2> QED
    BY <1>1, <2>1, <2>2
<1> QED
  BY <1>2

\* The mark: the row was running, so nobody else has marked it, called the backend with it,
\* or is about to.
LEMMA MarkInv ==
  ASSUME HostInv, LedgerInv', NEW w \in Workers, Mark(w)
  PROVE  HostInv'
<1> DEFINE o == wk[w].op
           row == [op[o] EXCEPT !.status = "reconciling", !.effect = "unknown", !.sent = TRUE,
                                !.transfer = FALSE]
<1>1. o \in Ops /\ op \in [Ops -> OperationRows] /\ op[o] \in OperationRows
  BY DEF Mark, HostInv, PassesHaveOperations, TypeOK, LedgerTypeOK
<1>2. op' = [op EXCEPT ![o] = row] /\ op[o].status = "running" /\ wk[w].pc = "mark"
      /\ Goes(w, "own") /\ UNCHANGED <<cl, native, calls>>
  BY DEF Mark, MarkDispatch, Holds
<1>3. row.status = "reconciling" /\ row.sent = TRUE /\ row.transfer = FALSE
  BY <1>1 DEF OperationRows
<1> HIDE DEF row
<1>4. \A p \in Ops : op'[p] = IF p = o THEN row ELSE op[p]
  BY <1>1, <1>2
<1>5. ~op[o].sent /\ ~native[o].reached /\ calls[o] = 0
  BY <1>1, <1>2 DEF HostInv, SendsRecorded
<1>6. /\ wk' \in [Workers -> PassStates] /\ wk'[w].op = o /\ wk'[w].pc = "own"
      /\ \A v \in Workers \ {w} : wk'[v] = wk[v]
  BY <1>2, GoesPasses DEF HostInv
<1> HIDE DEF o
<1>7. TypeOK' /\ ClientsSubmit' /\ PassesHaveOperations'
  BY <1>1, <1>2, <1>6, UnchangedClients
  DEF HostInv, TypeOK, LedgerInv, PassesHaveOperations
<1>8. SendsRecorded'
  BY <1>2, <1>3, <1>4 DEF HostInv, SendsRecorded
<1>9. PassesFollowMark'
  BY <1>1, <1>2, <1>3, <1>4, <1>6 DEF HostInv, PassesFollowMark, PassesHaveOperations
<1>10. ExecutesFirst'
  BY <1>2, <1>5, <1>6 DEF HostInv, ExecutesFirst, WillExecute, PassesFollowMark
<1>11. AnswersStand'
  BY <1>2, <1>6 DEF HostInv, AnswersStand
<1>12. SettledTruly'
  BY <1>2, <1>3, <1>4 DEF HostInv, SettledTruly, IsTerminal, Terminal
<1> QED
  BY <1>7, <1>8, <1>9, <1>10, <1>11, <1>12 DEF HostInv

\* A pass that finds the mark only reconciles.
LEMMA LoadForReconcileInv ==
  ASSUME HostInv, LedgerInv', NEW w \in Workers, LoadForReconcile(w)
  PROVE  HostInv'
<1> DEFINE o == wk[w].op
           new == [wk[w] EXCEPT !.pc = "own", !.must = TRUE]
<1>1. o \in Ops /\ wk \in [Workers -> PassStates] /\ wk[w] \in PassStates /\ op[o].sent
  BY DEF LoadForReconcile, MustReconcile, HostInv, PassesHaveOperations, TypeOK
<1>2. wk' = [wk EXCEPT ![w] = new] /\ UNCHANGED <<op, cl, native, calls>>
  BY <1>1 DEF LoadForReconcile, ledgerVars
<1>3. new \in PassStates /\ new.op = o /\ new.pc = "own" /\ new.must
  BY <1>1 DEF PassStates
<1> HIDE DEF new, o
<1>4. \A v \in Workers : wk'[v] = IF v = w THEN new ELSE wk[v]
  BY <1>1, <1>2
<1>5. TypeOK' /\ ClientsSubmit' /\ PassesHaveOperations'
  BY <1>1, <1>2, <1>3, <1>4, UnchangedClients
  DEF HostInv, TypeOK, LedgerInv, PassesHaveOperations
<1>6. Mild
  BY <1>2, UnchangedMild
<1>7. PassesFollowMark' /\ ExecutesFirst' /\ AnswersStand'
  BY <1>1, <1>2, <1>3, <1>4
  DEF HostInv, PassesFollowMark, ExecutesFirst, WillExecute, AnswersStand
<1> QED
  BY <1>2, <1>5, <1>6, <1>7, MildKeeps DEF HostInv

\* A pass that still owns its claim goes on to its call.
LEMMA OwnsClaimInv ==
  ASSUME HostInv, LedgerInv', NEW w \in Workers, OwnsClaim(w)
  PROVE  HostInv'
<1>1. /\ wk[w].pc = "own" /\ UNCHANGED <<op, cl, native, calls>>
      /\ Goes(w, "call") \/ Ends(w)
  BY DEF OwnsClaim, ledgerVars
<1>2. Mild
  BY <1>1, UnchangedMild
<1>3. CASE Ends(w)
  BY <1>1, <1>2, <1>3, EndsRetreats, PassAheadInv DEF HostInv
<1>4. CASE Goes(w, "call")
  <2>1. /\ wk' \in [Workers -> PassStates] /\ wk'[w].op = wk[w].op /\ wk'[w].pc = "call"
        /\ wk'[w].must = wk[w].must
        /\ \A v \in Workers \ {w} : wk'[v] = wk[v]
    BY <1>4, GoesPasses DEF HostInv
  <2>2. TypeOK' /\ ClientsSubmit' /\ PassesHaveOperations'
    BY <1>1, <2>1, UnchangedClients DEF HostInv, TypeOK, LedgerInv, PassesHaveOperations
  <2>3. PassesFollowMark' /\ ExecutesFirst' /\ AnswersStand'
    BY <1>1, <2>1 DEF HostInv, PassesFollowMark, ExecutesFirst, WillExecute, AnswersStand
  <2> QED
    BY <1>1, <1>2, <2>2, <2>3, MildKeeps DEF HostInv
<1> QED
  BY <1>1, <1>3, <1>4

\* What the backend learns from a call.
LEMMA CallReaches ==
  ASSUME HostInv, NEW o \in Ops, native' = [native EXCEPT ![o].reached = TRUE]
  PROVE  /\ native' \in [Ops -> NativeStates]
         /\ native'[o].reached /\ native'[o].effect = native[o].effect
         /\ native'[o].closed = native[o].closed
         /\ \A p \in Ops \ {o} : native'[p] = native[p]
<1> DEFINE new == [native[o] EXCEPT !.reached = TRUE]
<1>1. native \in [Ops -> NativeStates] /\ native[o] \in NativeStates
  BY DEF HostInv, TypeOK
<1>2. /\ new \in NativeStates /\ new.reached /\ new.effect = native[o].effect
      /\ new.closed = native[o].closed
  BY <1>1 DEF NativeStates
<1>3. native' = [native EXCEPT ![o] = new]
  OBVIOUS
<1> HIDE DEF new
<1> QED
  BY <1>1, <1>2, <1>3

\* A call, of either kind, by a pass that follows the mark.
LEMMA CallInv ==
  ASSUME HostInv, LedgerInv', NEW w \in Workers, Execute(w) \/ Reconcile(w)
  PROVE  HostInv'
<1> DEFINE o == wk[w].op
<1>1. /\ wk[w].pc = "call" /\ Goes(w, "reply") /\ UNCHANGED <<op, cl>>
      /\ native' = [native EXCEPT ![o].reached = TRUE]
  BY DEF Execute, Reconcile, ledgerVars
<1>2. o \in Ops /\ op[o].sent
  BY <1>1 DEF HostInv, PassesHaveOperations, PassesFollowMark
<1>3. /\ native' \in [Ops -> NativeStates]
      /\ native'[o].reached /\ native'[o].effect = native[o].effect
      /\ native'[o].closed = native[o].closed
      /\ \A p \in Ops \ {o} : native'[p] = native[p]
  BY <1>1, <1>2, CallReaches
<1>4. /\ wk' \in [Workers -> PassStates] /\ wk'[w].op = o /\ wk'[w].pc = "reply"
      /\ \A v \in Workers \ {w} : wk'[v] = wk[v]
  BY <1>1, GoesPasses DEF HostInv
<1>5. /\ calls \in [Ops -> Nat] /\ calls' \in [Ops -> Nat]
      /\ \A p \in Ops \ {o} : calls'[p] = calls[p]
      /\ calls'[o] <= 1
      /\ calls'[o] # calls[o] => WillExecute(w)
  <2>1. calls \in [Ops -> Nat] /\ calls[o] <= 1
    BY <1>2 DEF HostInv, TypeOK, ExecutesFirst
  <2>2. CASE Execute(w)
    <3>1. WillExecute(w) /\ calls[o] = 0
      BY <2>2 DEF Execute, WillExecute, HostInv, ExecutesFirst
    <3>2. calls' = [calls EXCEPT ![o] = calls[o] + 1]
      BY <2>2 DEF Execute
    <3> QED
      BY <1>2, <2>1, <3>1, <3>2
  <2>3. CASE Reconcile(w)
    BY <1>2, <2>1, <2>3 DEF Reconcile
  <2> QED
    BY <2>2, <2>3
<1> HIDE DEF o
<1>6. TypeOK' /\ ClientsSubmit' /\ PassesHaveOperations'
  BY <1>1, <1>2, <1>3, <1>4, <1>5, UnchangedClients
  DEF HostInv, TypeOK, LedgerInv, PassesHaveOperations
<1>7. SendsRecorded'
  BY <1>1, <1>2, <1>3, <1>5 DEF HostInv, SendsRecorded
<1>8. PassesFollowMark'
  <2> SUFFICES ASSUME NEW v \in Workers
               PROVE  /\ wk'[v].pc \in {"own", "call", "reply", "settle"} => op'[wk'[v].op].sent
                      /\ wk'[v].pc \in {"reply", "settle"} => native'[wk'[v].op].reached
    BY DEF PassesFollowMark
  <2>1. CASE v = w
    BY <2>1, <1>1, <1>2, <1>3, <1>4
  <2>2. CASE v # w
    BY <2>2, <1>1, <1>2, <1>3, <1>4 DEF HostInv, PassesFollowMark, PassesHaveOperations
  <2> QED
    BY <2>1, <2>2
<1>9. ExecutesFirst'
  <2>1. \A p \in Ops : calls'[p] <= 1
    BY <1>2, <1>5 DEF HostInv, ExecutesFirst
  <2>2. ASSUME NEW v \in Workers, WillExecute(v)'
        PROVE  /\ calls'[wk'[v].op] = 0
               /\ \A x \in Workers \ {v} : WillExecute(x)' => wk'[x].op # wk'[v].op
    <3>1. v # w /\ wk'[v] = wk[v] /\ WillExecute(v) /\ wk[v].op \in Ops
      BY <2>2, <1>4 DEF WillExecute, HostInv, PassesHaveOperations
    <3>2. WillExecute(w) => wk[v].op # o
      BY <3>1 DEF HostInv, ExecutesFirst, o
    <3>3. calls'[wk'[v].op] = 0
      BY <3>1, <3>2, <1>5 DEF HostInv, ExecutesFirst
    <3>4. \A x \in Workers \ {v} : WillExecute(x)' => x # w /\ wk'[x] = wk[x] /\ WillExecute(x)
      BY <1>4 DEF WillExecute
    <3>5. \A x \in Workers \ {v} : WillExecute(x)' => wk'[x].op # wk'[v].op
      BY <3>1, <3>4 DEF HostInv, ExecutesFirst
    <3> QED
      BY <3>3, <3>5
  <2> QED
    BY <2>1, <2>2 DEF ExecutesFirst
<1>10. AnswersStand'
  BY <1>2, <1>3, <1>4 DEF HostInv, AnswersStand, PassesHaveOperations
<1>11. SettledTruly'
  BY <1>1, <1>2, <1>3 DEF HostInv, SettledTruly, IsTerminal
<1> QED
  BY <1>6, <1>7, <1>8, <1>9, <1>10, <1>11 DEF HostInv

\* The backend works only while nothing it said or the Host settled depends on its state.
LEMMA BackendInv ==
  ASSUME HostInv, LedgerInv', NEW o \in Ops, BackendWorks(o)
  PROVE  HostInv'
<1>1. PICK e \in {"partial", "complete"} :
        native' = [native EXCEPT ![o].effect = e, ![o].closed = (e = "complete")]
  BY DEF BackendWorks
<1>2. native \in [Ops -> NativeStates] /\ native[o] \in NativeStates
      /\ native[o].reached /\ ~native[o].closed /\ UNCHANGED <<op, cl, wk, calls>>
  BY DEF HostInv, TypeOK, BackendWorks, ledgerVars
<1> DEFINE new == [native[o] EXCEPT !.effect = e, !.closed = (e = "complete")]
<1>3. new \in NativeStates /\ new.reached /\ (new.effect = "complete" => new.closed)
  BY <1>2 DEF NativeStates
<1>4. native' = [native EXCEPT ![o] = new]
  BY <1>1, <1>2
<1> HIDE DEF new
<1>5. \A p \in Ops : native'[p] = IF p = o THEN new ELSE native[p]
  BY <1>2, <1>4
<1>6. TypeOK' /\ ClientsSubmit' /\ PassesHaveOperations'
  BY <1>2, <1>3, <1>4, UnchangedClients DEF HostInv, TypeOK, LedgerInv, PassesHaveOperations
<1>7. SendsRecorded' /\ PassesFollowMark'
  BY <1>2, <1>3, <1>5 DEF HostInv, SendsRecorded, PassesFollowMark, PassesHaveOperations
<1>8. ExecutesFirst'
  BY <1>2 DEF HostInv, ExecutesFirst, WillExecute
<1>9. AnswersStand'
  BY <1>2, <1>5 DEF HostInv, AnswersStand, PassesHaveOperations
<1>10. SettledTruly'
  <2>1. op[o].sent
    BY <1>2 DEF HostInv, SendsRecorded
  <2> QED
    BY <1>2, <1>5, <2>1 DEF HostInv, SettledTruly, IsTerminal
<1> QED
  BY <1>6, <1>7, <1>8, <1>9, <1>10 DEF HostInv

\* An answer tells what the backend did, and a conclusive one closes the Operation to it.
LEMMA AnswerInv ==
  ASSUME HostInv, LedgerInv', NEW w \in Workers, NEW r \in Results, Answer(w, r)
  PROVE  HostInv'
<1> DEFINE o == wk[w].op
           new == [wk[w] EXCEPT !.pc = "settle", !.result = r]
           told == [native[o] EXCEPT !.closed = native[o].closed \/ r \in Conclusive]
<1>1. /\ o \in Ops /\ wk[w].pc = "reply" /\ native[o].reached /\ op[o].sent
      /\ wk \in [Workers -> PassStates] /\ wk[w] \in PassStates
      /\ native \in [Ops -> NativeStates] /\ native[o] \in NativeStates
  BY DEF Answer, HostInv, PassesHaveOperations, PassesFollowMark, TypeOK
<1>2. /\ wk' = [wk EXCEPT ![w] = new] /\ native' = [native EXCEPT ![o] = told]
      /\ UNCHANGED <<op, cl, calls>>
  BY <1>1 DEF Answer, ledgerVars
<1>3. new \in PassStates /\ new.op = o /\ new.pc = "settle" /\ new.result = r
  BY <1>1 DEF PassStates
<1>4. /\ told \in NativeStates /\ told.effect = native[o].effect
      /\ told.reached = native[o].reached
      /\ native[o].closed => told.closed
      /\ r \in Conclusive => told.closed
  BY <1>1 DEF NativeStates
<1>5. r \in Conclusive => native[o].effect = Outcome(r).effect
  <2>1. /\ r = "complete" => native[o].effect = "complete"
        /\ r = "partial" => native[o].effect = "partial"
        /\ r = "no_effect" => native[o].effect = "none"
    BY DEF Answer
  <2> QED
    BY <2>1 DEF Conclusive, Outcome
<1> HIDE DEF new, told, o
<1>6. \A v \in Workers : wk'[v] = IF v = w THEN new ELSE wk[v]
  BY <1>1, <1>2
<1>7. \A p \in Ops : native'[p] = IF p = o THEN told ELSE native[p]
  BY <1>1, <1>2
<1>8. TypeOK' /\ ClientsSubmit' /\ PassesHaveOperations'
  BY <1>1, <1>2, <1>3, <1>4, <1>6, UnchangedClients
  DEF HostInv, TypeOK, LedgerInv, PassesHaveOperations
<1>9. SendsRecorded'
  BY <1>1, <1>2, <1>4, <1>7 DEF HostInv, SendsRecorded
<1>10. PassesFollowMark'
  BY <1>1, <1>2, <1>3, <1>4, <1>6, <1>7 DEF HostInv, PassesFollowMark, PassesHaveOperations
<1>11. ExecutesFirst'
  BY <1>2, <1>3, <1>6 DEF HostInv, ExecutesFirst, WillExecute
<1>12. AnswersStand'
  BY <1>1, <1>3, <1>4, <1>5, <1>6, <1>7 DEF HostInv, AnswersStand, PassesHaveOperations
<1>13. SettledTruly'
  BY <1>2, <1>4, <1>7 DEF HostInv, SettledTruly, IsTerminal
<1> QED
  BY <1>8, <1>9, <1>10, <1>11, <1>12, <1>13 DEF HostInv

\* A settlement with what the backend did, once the backend can add nothing to it.
LEMMA TruthfulInv ==
  ASSUME HostInv, LedgerInv', NEW w \in Workers, NEW o \in Ops, NEW status \in Terminal,
         NEW effect, Finish(o, status, effect), effect = native[o].effect,
         status = "succeeded" <=> effect = "complete",
         op[o].sent => native[o].closed, Ends(w), UNCHANGED <<cl, native, calls>>
  PROVE  HostInv'
<1> DEFINE row == [op[o] EXCEPT !.status = status, !.effect = effect, !.lease = None,
                                !.expired = FALSE]
<1>1. op \in [Ops -> OperationRows] /\ op[o] \in OperationRows
  BY DEF HostInv, TypeOK, LedgerTypeOK
<1>2. op' = [op EXCEPT ![o] = row]
  BY DEF Finish
<1>3. /\ row.status = status /\ row.effect = effect /\ row.lease = None
      /\ row.sent = op[o].sent /\ row.transfer = op[o].transfer
  BY <1>1 DEF OperationRows
<1> HIDE DEF row
<1>4. \A p \in Ops : op'[p] = IF p = o THEN row ELSE op[p]
  BY <1>1, <1>2
<1>5. Retreat /\ wk' \in [Workers -> PassStates]
  BY EndsRetreats DEF HostInv
<1>6. TypeOK' /\ ClientsSubmit'
  BY <1>5, UnchangedClients DEF HostInv, TypeOK, LedgerInv
<1>7. PassesHaveOperations' /\ PassesFollowMark' /\ ExecutesFirst' /\ AnswersStand'
  BY <1>3, <1>4, <1>5, RetreatKeeps
<1>8. SendsRecorded'
  BY <1>3, <1>4 DEF HostInv, SendsRecorded, Terminal
<1>9. SettledTruly'
  BY <1>3, <1>4 DEF HostInv, SettledTruly, IsTerminal
<1> QED
  BY <1>6, <1>7, <1>8, <1>9 DEF HostInv

\* Both ways to settle an Operation are truthful: with the backend's last word, or before
\* anything was sent.
LEMMA SettlesTruthfully ==
  ASSUME HostInv, NEW w \in Workers, Settle(w) \/ Unverifiable(w)
  PROVE  /\ wk[w].op \in Ops /\ IsOpen(wk[w].op)
         /\ Ends(w) /\ UNCHANGED <<cl, native, calls>>
         /\ \E status \in Terminal, effect \in {"none", "partial", "complete"} :
              /\ Finish(wk[w].op, status, effect)
              /\ effect = native[wk[w].op].effect
              /\ status = "succeeded" <=> effect = "complete"
              /\ op[wk[w].op].sent => native[wk[w].op].closed
<1> DEFINE o == wk[w].op
<1>1. CASE Settle(w)
  <2> DEFINE status == Outcome(wk[w].result).status
             effect == Outcome(wk[w].result).effect
  <2>1. /\ o \in Ops /\ Ends(w) /\ UNCHANGED <<cl, native, calls>> /\ IsOpen(o)
        /\ Finish(o, status, effect) /\ wk[w].pc = "settle" /\ wk[w].result \in Conclusive
    BY <1>1 DEF Settle, SettleTerminal, Holds, IsOpen, Open, HostInv, PassesHaveOperations
  <2>2. effect = native[o].effect /\ native[o].closed
    BY <2>1 DEF HostInv, AnswersStand
  <2>3. /\ status \in Terminal /\ effect \in {"none", "partial", "complete"}
        /\ status = "succeeded" <=> effect = "complete"
    BY DEF Outcome, Terminal
  <2> HIDE DEF status, effect
  <2> QED
    BY <2>1, <2>2, <2>3
<1>2. CASE Unverifiable(w)
  <2>1. /\ o \in Ops /\ Ends(w) /\ UNCHANGED <<cl, native, calls>> /\ IsOpen(o)
        /\ Finish(o, "failed", "none") /\ ~op[o].sent
    BY <1>2 DEF Unverifiable, FailUnverifiable, Holds, IsOpen, Open, HostInv, PassesHaveOperations
  <2>2. native[o].effect = "none"
    BY <2>1 DEF HostInv, SendsRecorded
  <2>3. "failed" \in Terminal
    BY DEF Terminal
  <2> QED
    BY <2>1, <2>2, <2>3
<1> QED
  BY <1>1, <1>2

\* HostInv is inductive: every step of a request, a pass, the backend or the clock
\* preserves it.
LEMMA HostStepInv == HostInv /\ [Next]_vars => HostInv'
<1> SUFFICES ASSUME HostInv, [Next]_vars PROVE HostInv'
  OBVIOUS
<1>1. LedgerInv'
  BY HostStepIsLedgerStep, LedgerStepInv DEF HostInv
<1>2. CASE UNCHANGED vars
  <2>1. UNCHANGED <<op, cl, wk, native, calls>>
    BY <1>2 DEF vars
  <2> QED
    BY <1>1, <2>1, UnchangedMild, UnchangedRetreats, UnchangedClients, HarmlessInv
<1>3. ASSUME NEW c \in Clients, ClientStep(c) PROVE HostInv'
  BY <1>1, <1>3, ClientInv
<1>4. ASSUME NEW w \in Workers, PassStep(w) \/ Crash(w) PROVE HostInv'
  <2>1. CASE Settle(w) \/ Unverifiable(w)
    <3>1. PICK status \in Terminal, effect \in {"none", "partial", "complete"} :
              /\ Finish(wk[w].op, status, effect)
              /\ effect = native[wk[w].op].effect
              /\ status = "succeeded" <=> effect = "complete"
              /\ op[wk[w].op].sent => native[wk[w].op].closed
      BY <2>1, SettlesTruthfully
    <3> QED
      BY <1>1, <2>1, <3>1, SettlesTruthfully, TruthfulInv
  <2>2. CASE \E r \in Results : Answer(w, r)
    BY <1>1, <2>2, AnswerInv
  <2>3. CASE Execute(w) \/ Reconcile(w)
    BY <1>1, <2>3, CallInv
  <2>4. CASE Mark(w)
    BY <1>1, <2>4, MarkInv
  <2>5. CASE LoadForReconcile(w)
    BY <1>1, <2>5, LoadForReconcileInv
  <2>6. CASE OwnsClaim(w)
    BY <1>1, <2>6, OwnsClaimInv
  <2> QED
    BY <1>1, <1>4, <2>1, <2>2, <2>3, <2>4, <2>5, <2>6, HarmlessPassInv DEF PassStep
<1>5. ASSUME NEW o \in Ops,
             ReplenishInputs(o) \/ BackendWorks(o) \/ LeaseTimer(o) \/ AttemptTimer(o)
      PROVE  HostInv'
  BY <1>1, <1>5, TimeInv, BackendInv
<1> QED
  BY <1>2, <1>3, <1>4, <1>5 DEF Next

-----------------------------------------------------------------------------
(* What follows from HostInv.                                               *)

\* HostInv holds in every reachable state of the engine.
THEOREM HostInvariant == Spec => []HostInv
<1> QED
  BY HostInitInv, HostStepInv, PTL DEF Spec

\* The engine, its requests and its passes use the ledger only as its statements allow, so
\* that what LedgerProofs shows of the ledger holds of the whole engine.
THEOREM EngineUsesLedger == Spec => LedgerSpec
<1>1. Init => LedgerInit
  BY DEF Init
<1>2. HostInv /\ [Next]_vars => [LedgerNext]_ledgerVars
  BY HostStepIsLedgerStep
<1> QED
  BY <1>1, <1>2, HostInvariant, PTL DEF Spec, LedgerSpec

\* Requests, passes and the backend's record are always well formed.
THEOREM HostTypeCorrect == Spec => []TypeOK
<1>1. HostInv => TypeOK
  BY DEF HostInv
<1> QED
  BY <1>1, HostInvariant, PTL

\* However many passes crash, lose their leases or take one over, execute is called at most
\* once for an Operation and nothing reaches the backend before markDispatch has committed.
THEOREM NeverDispatchedTwice == Spec => []DispatchedOnce
<1>1. HostInv => DispatchedOnce
  BY DEF HostInv, TypeOK, ExecutesFirst, SendsRecorded, DispatchedOnce
<1> QED
  BY <1>1, HostInvariant, PTL

\* An Operation settles with what the backend did under its key, and only when the backend
\* can add nothing to it.
THEOREM OutcomeAlwaysTrue == Spec => []OutcomeIsTrue
<1>1. HostInv => OutcomeIsTrue
  BY DEF HostInv, SettledTruly, SendsRecorded, OutcomeIsTrue
<1> QED
  BY <1>1, HostInvariant, PTL

\* Transfer material and the wait for it end with the dispatch.
THEOREM InputsNeverAfterDispatch == Spec => []InputsBeforeDispatch
<1>1. HostInv => InputsBeforeDispatch
  BY DEF HostInv, SendsRecorded, InputsBeforeDispatch
<1> QED
  BY <1>1, HostInvariant, PTL

-----------------------------------------------------------------------------
(* Settled Operations, and the contract.                                    *)

\* No statement of the ledger matches a settled row.
LEMMA SettledRowsStay ==
  ASSUME HostInv, LedgerNext, NEW p \in Ops, IsTerminal(p)
  PROVE  op'[p] = op[p]
<1>1. op \in [Ops -> OperationRows] /\ op[p].lease = None
      /\ op[p].status \notin Open \cup {"absent"}
  BY DEF HostInv, TypeOK, LedgerTypeOK, SettledTruly, IsTerminal, Terminal, Open
<1>2. PICK o \in Ops : \/ \E k \in Keys : AcceptStatement(o, k)
                       \/ \E w \in Workers : PassStatement(o, w)
                       \/ Replenish(o) \/ Defer(o) \/ LeaseExpires(o) \/ BecomesDue(o)
  BY DEF LedgerNext
<1>3. ASSUME o # p, NEW row, op' = [op EXCEPT ![o] = row]
      PROVE  op'[p] = op[p]
  BY <1>1, <1>3
<1>4. CASE \E k \in Keys : AcceptStatement(o, k)
  <2>1. NextOperation(o) /\ \E row : op' = [op EXCEPT ![o] = row]
    <3>1. ASSUME NEW u, NEW rq, NEW g, InsertOperation(o, u, rq, g)
          PROVE  \E row : op' = [op EXCEPT ![o] = row]
      BY <3>1 DEF InsertOperation
    <3>2. ASSUME NEW u, NEW rq, InsertCreate(o, u, rq)
          PROVE  NextOperation(o) /\ \E row : op' = [op EXCEPT ![o] = row]
      BY <3>1, <3>2 DEF InsertCreate
    <3>3. ASSUME NEW rq, InsertChange(o, rq)
          PROVE  NextOperation(o) /\ \E row : op' = [op EXCEPT ![o] = row]
      BY <3>1, <3>3 DEF InsertChange
    <3> QED
      BY <1>4, <3>2, <3>3 DEF AcceptStatement
  <2>2. o # p
    BY <1>1, <2>1 DEF NextOperation
  <2> QED
    BY <1>3, <2>1, <2>2
<1>5. CASE Replenish(o) \/ Defer(o) \/ LeaseExpires(o) \/ BecomesDue(o)
  <2>1. \E row : op' = [op EXCEPT ![o] = row]
    BY <1>5 DEF Replenish, Defer, LeaseExpires, BecomesDue
  <2>2. o # p
    BY <1>1, <1>5 DEF Replenish, Defer, LeaseExpires, BecomesDue, IsOpen, Open
  <2> QED
    BY <1>3, <2>1, <2>2
<1>6. ASSUME NEW w \in Workers, PassStatement(o, w)
      PROVE  op'[p] = op[p]
  <2>1. \E row : op' = [op EXCEPT ![o] = row]
    BY <1>6 DEF PassStatement, Claim, MarkDispatch, WaitForInputs, SettleReconciling,
       FailUnverifiable, SettleTerminal, Finish
  <2>2. op[o].status \in Open
    BY <1>6 DEF PassStatement, Claim, Claimable, MarkDispatch, WaitForInputs, SettleReconciling,
       FailUnverifiable, SettleTerminal, Holds, Open
  <2> QED
    BY <1>1, <1>3, <2>1, <2>2
<1> QED
  BY <1>2, <1>4, <1>5, <1>6

\* Only the backend's own steps change an effect.
LEMMA EffectsStay ==
  ASSUME HostInv, [Next]_vars, NEW p \in Ops, ~BackendWorks(p)
  PROVE  native'[p].effect = native[p].effect
<1>1. native \in [Ops -> NativeStates]
  BY DEF HostInv, TypeOK
<1>2. CASE UNCHANGED native
  BY <1>2
<1>3. ASSUME NEW w \in Workers, Execute(w) \/ Reconcile(w)
      PROVE  native'[p].effect = native[p].effect
  <2>1. wk[w].op \in Ops /\ native' = [native EXCEPT ![wk[w].op].reached = TRUE]
    BY <1>3 DEF Execute, Reconcile, HostInv, PassesHaveOperations
  <2> QED
    BY <2>1, CallReaches
<1>4. ASSUME NEW w \in Workers, NEW r \in Results, Answer(w, r)
      PROVE  native'[p].effect = native[p].effect
  <2> DEFINE o == wk[w].op
             told == [native[o] EXCEPT !.closed = native[o].closed \/ r \in Conclusive]
  <2>1. o \in Ops /\ native' = [native EXCEPT ![o] = told] /\ native[o] \in NativeStates
    BY <1>1, <1>4 DEF Answer, HostInv, PassesHaveOperations
  <2>2. told.effect = native[o].effect
    BY <2>1 DEF NativeStates
  <2> HIDE DEF told, o
  <2> QED
    BY <1>1, <2>1, <2>2
<1>5. ASSUME NEW o \in Ops, BackendWorks(o)
      PROVE  native'[p].effect = native[p].effect
  <2>1. o # p /\ \E new : native' = [native EXCEPT ![o] = new]
    BY <1>5 DEF BackendWorks
  <2> QED
    BY <1>1, <2>1
<1>6. CASE \E c \in Clients : ClientStep(c)
  BY <1>2, <1>6 DEF ClientStep, BeginCreate, BeginUpdate, BeginDelete, Holding, AcceptCreate,
     AcceptChange, AcceptRefused
<1>7. ASSUME NEW w \in Workers, PassStep(w) \/ Crash(w)
      PROVE  native'[p].effect = native[p].effect
  BY <1>2, <1>3, <1>4, <1>7 DEF PassStep, Crash, Pick, DeferUnbound, ClaimPicked, ClaimLost,
     LoadForReconcile, LoadForDispatch, LoadWithoutInputs, LoadUnverifiable, Wait, Unverifiable,
     Mark, LostRunning, OwnsClaim, Settle, SettleLater, LostReconciling
<1>8. ASSUME NEW o \in Ops, ReplenishInputs(o) \/ LeaseTimer(o) \/ AttemptTimer(o)
      PROVE  native'[p].effect = native[p].effect
  BY <1>2, <1>8 DEF ReplenishInputs, LeaseTimer, AttemptTimer
<1> QED
  BY <1>2, <1>5, <1>6, <1>7, <1>8 DEF Next, vars

\* The backend works for open Operations only, and has not completed them.
LEMMA WorksWhileOpen ==
  ASSUME HostInv, NEW p \in Ops, BackendWorks(p)
  PROVE  IsOpen(p) /\ native[p].effect # "complete"
<1>1. native[p].reached /\ ~native[p].closed
  BY DEF BackendWorks
<1>2. op[p].sent /\ native[p].effect # "complete"
  BY <1>1 DEF HostInv, SendsRecorded
<1>3. ~IsTerminal(p) /\ op[p].status # "absent"
  BY <1>1, <1>2 DEF HostInv, SettledTruly, SendsRecorded
<1>4. op[p].status \in Open \cup Terminal \cup {"absent"}
  BY DEF HostInv, TypeOK, LedgerTypeOK, OperationRows
<1> QED
  BY <1>2, <1>3, <1>4 DEF IsOpen, IsTerminal

\* A settled Operation and its effect are final.
LEMMA FinalStep ==
  ASSUME HostInv, [Next]_vars, NEW p \in Ops, IsTerminal(p)
  PROVE  op'[p] = op[p] /\ native'[p].effect = native[p].effect
<1>1. ~BackendWorks(p)
  BY WorksWhileOpen DEF IsOpen, IsTerminal, Open, Terminal
<1>2. op'[p] = op[p]
  BY HostStepIsLedgerStep, SettledRowsStay DEF ledgerVars
<1> QED
  BY <1>1, <1>2, EffectsStay

\* Late passes, late answers and late calls leave a settled Operation as it is.
THEOREM SettledStays == Spec => SettledIsFinal
<1>1. HostInv /\ [Next]_vars =>
        [\A o \in Ops : IsTerminal(o) =>
           op'[o] = op[o] /\ native'[o].effect = native[o].effect]_vars
  BY FinalStep
<1> QED
  BY <1>1, HostInvariant, PTL DEF Spec, SettledIsFinal

\* A quiet step of the ledger without a new effect is none of the contract.
LEMMA QuietStutters ==
  ASSUME HostInv, [Next]_vars, Quiet,
         \A o \in Ops : native'[o].effect = native[o].effect
  PROVE  UNCHANGED Contract!vars
<1>1. ASSUME NEW o \in Ops
      PROVE  (IF IsOpen(o) THEN "open" ELSE op[o].status)' =
             IF IsOpen(o) THEN "open" ELSE op[o].status
  <2>1. op[o].status \in Open \cup Terminal \cup {"absent"}
    BY DEF HostInv, TypeOK, LedgerTypeOK, OperationRows
  <2>2. IsTerminal(o) => op'[o] = op[o]
    BY FinalStep
  <2> QED
    BY <2>1, <2>2 DEF Quiet, IsOpen, IsTerminal
<1>2. UNCHANGED res
  BY DEF Quiet
<1> QED
  BY <1>1, <1>2 DEF Contract!vars

\* An acceptance gives the new Operation a Resource nobody else holds.
LEMMA AcceptKeepsContract ==
  ASSUME HostInv, NEW o \in Ops, NEW u \in Uids, NEW rq, NEW g, NextOperation(o),
         res[u].busy = None, InsertOperation(o, u, rq, g),
         NEW new, res' = [res EXCEPT ![u] = new], new.busy = o, UNCHANGED native
  PROVE  Contract!Accept(o, u)
<1>1. op \in [Ops -> OperationRows] /\ res \in [Uids -> ResourceRows]
  BY DEF HostInv, TypeOK, LedgerTypeOK
<1> DEFINE row == Accepted(rq, u, g)
<1>2. op' = [op EXCEPT ![o] = row] /\ row.status = "queued" /\ op[o].status = "absent"
  BY DEF InsertOperation, Accepted, NextOperation
<1> HIDE DEF row
<1>3. \A p \in Ops : op'[p] = IF p = o THEN row ELSE op[p]
  BY <1>1, <1>2
<1>4. \A v \in Uids : res'[v] = IF v = u THEN new ELSE res[v]
  BY <1>1
<1>5. [p \in Ops |-> IF IsOpen(p) THEN "open" ELSE op[p].status]' =
        [[p \in Ops |-> IF IsOpen(p) THEN "open" ELSE op[p].status] EXCEPT ![o] = "open"]
  <2>1. \A p \in Ops : (IF IsOpen(p) THEN "open" ELSE op[p].status)' =
          IF p = o THEN "open" ELSE IF IsOpen(p) THEN "open" ELSE op[p].status
    BY <1>2, <1>3 DEF IsOpen, Open
  <2> QED
    BY <2>1
<1>6. [v \in Uids |-> res[v].busy]' = [[v \in Uids |-> res[v].busy] EXCEPT ![u] = o]
  <2>1. \A v \in Uids : res'[v].busy = IF v = u THEN o ELSE res[v].busy
    BY <1>4
  <2> QED
    BY <2>1
<1>7. ~IsOpen(o)
  BY <1>2 DEF IsOpen, Open
<1> QED
  BY <1>2, <1>5, <1>6, <1>7 DEF Contract!Accept

\* A settlement decides an Operation and releases its Resource.
LEMMA SettlementKeepsContract ==
  ASSUME HostInv, NEW o \in Ops, NEW status \in Terminal, NEW effect, IsOpen(o),
         Finish(o, status, effect), effect = native[o].effect,
         status = "succeeded" <=> effect = "complete", UNCHANGED native
  PROVE  \E u \in Uids : Contract!Decide(o, u)
<1> DEFINE row == [op[o] EXCEPT !.status = status, !.effect = effect, !.lease = None,
                                !.expired = FALSE]
           new == TerminalProject(o, status)
<1>0. PICK u \in Uids : u = op[o].uid
  BY DEF HostInv, LedgerInv, RowsAgree, IsOpen, Open
<1>1. op \in [Ops -> OperationRows] /\ res \in [Uids -> ResourceRows] /\ op[o] \in OperationRows
  BY DEF HostInv, TypeOK, LedgerTypeOK
<1>2. res[u].busy = o /\ res[u] \in ResourceRows
  BY <1>0, <1>1 DEF HostInv, LedgerInv, OperationOwnsResource, TerminalGuard
<1>3. op' = [op EXCEPT ![o] = row] /\ res' = [res EXCEPT ![u] = new]
  BY <1>0 DEF Finish
<1>4. row.status = status /\ new.busy = None
  BY <1>0, <1>1, <1>2 DEF OperationRows, ResourceRows, TerminalProject
<1>5. status = IF effect = "complete" THEN "succeeded" ELSE "failed"
  BY DEF Terminal
<1> HIDE DEF row, new
<1>6. \A p \in Ops : op'[p] = IF p = o THEN row ELSE op[p]
  BY <1>1, <1>3
<1>7. \A v \in Uids : res'[v] = IF v = u THEN new ELSE res[v]
  BY <1>1, <1>3
<1>8. [p \in Ops |-> IF IsOpen(p) THEN "open" ELSE op[p].status]' =
        [[p \in Ops |-> IF IsOpen(p) THEN "open" ELSE op[p].status] EXCEPT ![o] = status]
  <2>1. \A p \in Ops : (IF IsOpen(p) THEN "open" ELSE op[p].status)' =
          IF p = o THEN status ELSE IF IsOpen(p) THEN "open" ELSE op[p].status
    BY <1>4, <1>6 DEF IsOpen, Open, Terminal
  <2> QED
    BY <2>1
<1>9. [v \in Uids |-> res[v].busy]' = [[v \in Uids |-> res[v].busy] EXCEPT ![u] = None]
  BY <1>4, <1>7
<1>10. Contract!Decide(o, u)
  BY <1>2, <1>5, <1>8, <1>9 DEF Contract!Decide
<1> QED
  BY <1>10

\* What the backend does is an effect of an open Operation.
LEMMA EffectKeepsContract ==
  ASSUME HostInv, NEW o \in Ops, BackendWorks(o)
  PROVE  Contract!Effect(o)
<1>1. PICK e \in {"partial", "complete"} :
        native' = [native EXCEPT ![o].effect = e, ![o].closed = (e = "complete")]
  BY DEF BackendWorks
<1>2. native \in [Ops -> NativeStates] /\ native[o] \in NativeStates /\ UNCHANGED <<op, res>>
  BY DEF HostInv, TypeOK, BackendWorks, ledgerVars
<1> DEFINE new == [native[o] EXCEPT !.effect = e, !.closed = (e = "complete")]
<1>3. native' = [native EXCEPT ![o] = new] /\ new.effect = e
  BY <1>1, <1>2 DEF NativeStates
<1> HIDE DEF new
<1>4. [p \in Ops |-> native[p].effect]' = [[p \in Ops |-> native[p].effect] EXCEPT ![o] = e]
  BY <1>2, <1>3
<1>5. UNCHANGED <<[p \in Ops |-> IF IsOpen(p) THEN "open" ELSE op[p].status],
                  [v \in Uids |-> res[v].busy]>>
  BY <1>2 DEF IsOpen
<1>6. IsOpen(o) /\ native[o].effect # "complete"
  BY WorksWhileOpen
<1> QED
  BY <1>4, <1>5, <1>6 DEF Contract!Effect

\* Every step of a pass that does not settle is quiet in the ledger.
LEMMA PassQuiet ==
  ASSUME HostInv, NEW w \in Workers, PassStep(w) \/ Crash(w), ~Settle(w), ~Unverifiable(w)
  PROVE  Quiet
<1>0. LedgerTypeOK /\ (wk[w].pc # "idle" => wk[w].op \in Ops)
  BY DEF HostInv, TypeOK, PassesHaveOperations
<1>1. CASE UNCHANGED ledgerVars
  BY <1>1 DEF Quiet, ledgerVars
<1>2. CASE DeferUnbound(w)
  BY <1>0, <1>2, DeferQuiet DEF DeferUnbound
<1>3. CASE ClaimPicked(w)
  BY <1>0, <1>3, ClaimQuiet DEF ClaimPicked
<1>4. CASE Wait(w)
  BY <1>0, <1>4, WaitForInputsQuiet DEF Wait
<1>5. CASE Mark(w)
  BY <1>0, <1>5, MarkDispatchQuiet DEF Mark
<1>6. CASE SettleLater(w)
  BY <1>0, <1>6, SettleReconcilingQuiet DEF SettleLater
<1> QED
  BY <1>1, <1>2, <1>3, <1>4, <1>5, <1>6 DEF PassStep, Crash, Pick, ClaimLost,
     LoadForReconcile, LoadForDispatch, LoadWithoutInputs, LoadUnverifiable,
     LostRunning, OwnsClaim, Execute, Reconcile, LostReconciling, Answer

\* The statement of an acceptance is an acceptance of the contract.
LEMMA AcceptStatementKeepsContract ==
  ASSUME HostInv, NEW o \in Ops, NEW k \in Keys, AcceptStatement(o, k), UNCHANGED native
  PROVE  \E u \in Uids : Contract!Accept(o, u)
<1>0. res \in [Uids -> ResourceRows]
  BY DEF HostInv, TypeOK, LedgerTypeOK
<1>1. ASSUME NEW u \in Uids, NEW rq, InsertCreate(o, u, rq)
      PROVE  Contract!Accept(o, u)
  <2> DEFINE new == [state |-> "live", name |-> rq.name, gen |-> 1, obs |-> 0,
                     phase |-> "pending", busy |-> o]
  <2>1. NextOperation(o) /\ InsertOperation(o, u, rq, 1) /\ res' = [res EXCEPT ![u] = new]
    BY <1>1 DEF InsertCreate
  <2>2. res[u].busy = None
    BY <1>1 DEF InsertCreate, NextResource, HostInv, LedgerInv, RowsAgree
  <2>3. new.busy = o
    OBVIOUS
  <2> HIDE DEF new
  <2> QED
    BY <2>1, <2>2, <2>3, AcceptKeepsContract
<1>2. ASSUME NEW rq, rq.uid \in Uids, InsertChange(o, rq)
      PROVE  \E u \in Uids : Contract!Accept(o, u)
  <2> DEFINE u == rq.uid
             new == [res[u] EXCEPT !.gen = rq.base + 1,
                                   !.phase = IF rq.kind = "delete" THEN "deleting" ELSE "pending",
                                   !.busy = o]
  <2>1. NextOperation(o) /\ InsertOperation(o, u, rq, rq.base + 1)
        /\ res' = [res EXCEPT ![u] = new] /\ res[u] \in ResourceRows
    BY <1>0, <1>2 DEF InsertChange
  <2>2. res[u].busy = None
    BY <1>2 DEF InsertChange, ChangeCommits, ChangeAdmitted
  <2>3. new.busy = o
    BY <2>1 DEF ResourceRows
  <2> HIDE DEF new
  <2> QED
    BY <1>2, <2>1, <2>2, <2>3, AcceptKeepsContract
<1>3. \A u \in Uids, refs \in RefChoices, priv \in PrivChoices :
        UpdateRequest(k, u, res[u].gen, refs, priv).uid = u
  BY DEF UpdateRequest
<1>4. \A u \in Uids : DeleteRequest(k, u, res[u].gen).uid = u
  BY DEF DeleteRequest
<1> QED
  BY <1>1, <1>2, <1>3, <1>4 DEF AcceptStatement

\* Every step of the engine is one step of the contract, or none.
LEMMA HostStepKeepsContract == HostInv /\ [Next]_vars => [Contract!Next]_(Contract!vars)
<1> SUFFICES ASSUME HostInv, [Next]_vars PROVE [Contract!Next]_(Contract!vars)
  OBVIOUS
<1>1. CASE \E o \in Ops : BackendWorks(o)
  BY <1>1, EffectKeepsContract DEF Contract!Next
<1>2. CASE ~\E o \in Ops : BackendWorks(o)
  <2>0. \A o \in Ops : native'[o].effect = native[o].effect
    BY <1>2, EffectsStay
  <2>1. CASE Quiet
    BY <2>0, <2>1, QuietStutters
  <2>2. ASSUME NEW c \in Clients, ClientStep(c)
        PROVE  [Contract!Next]_(Contract!vars)
    <3>1. CASE AcceptCreate(c) \/ AcceptChange(c)
      <4>1. PICK o \in Ops, k \in Keys : AcceptStatement(o, k)
        BY <3>1, AcceptIsStatement
      <4>2. \E u \in Uids : Contract!Accept(o, u)
        BY <3>1, <4>1, AcceptStatementKeepsContract DEF AcceptCreate, AcceptChange
      <4> QED
        BY <4>2 DEF Contract!Next
    <3>2. CASE UNCHANGED ledgerVars
      BY <2>1, <3>2 DEF Quiet, ledgerVars
    <3> QED
      BY <2>2, <3>1, <3>2 DEF ClientStep, BeginCreate, BeginUpdate, BeginDelete, Holding,
         AcceptRefused
  <2>3. ASSUME NEW w \in Workers, PassStep(w) \/ Crash(w)
        PROVE  [Contract!Next]_(Contract!vars)
    <3>1. CASE Settle(w) \/ Unverifiable(w)
      <4>1. PICK o \in Ops, status \in Terminal, effect \in {"none", "partial", "complete"} :
              /\ IsOpen(o) /\ UNCHANGED native
              /\ Finish(o, status, effect)
              /\ effect = native[o].effect
              /\ status = "succeeded" <=> effect = "complete"
        BY <3>1, SettlesTruthfully
      <4>2. \E u \in Uids : Contract!Decide(o, u)
        BY <4>1, SettlementKeepsContract
      <4> QED
        BY <4>1, <4>2 DEF Contract!Next
    <3> QED
      BY <2>1, <2>3, <3>1, PassQuiet
  <2>4. ASSUME NEW o \in Ops, ReplenishInputs(o) \/ LeaseTimer(o) \/ AttemptTimer(o)
        PROVE  [Contract!Next]_(Contract!vars)
    BY <2>1, <2>4, ReplenishQuiet, LeaseExpiresQuiet, BecomesDueQuiet
    DEF HostInv, TypeOK, ReplenishInputs, LeaseTimer, AttemptTimer
  <2>5. CASE UNCHANGED vars
    BY <2>1, <2>5 DEF Quiet, vars
  <2> QED
    BY <1>2, <2>2, <2>3, <2>4, <2>5 DEF Next
<1> QED
  BY <1>1, <1>2

\* The engine implements the contract: whatever crashes, takeovers, retries and late answers
\* do inside, an Operation has its Resource to itself, has its native effects while it is
\* open, and is decided once, by what really happened.
THEOREM EngineKeepsContract == Spec => KeepsContract
<1>1. Init => Contract!Init
  BY DEF Init, LedgerInit, NoResource, NoOperation, IsOpen, Open, Contract!Init
<1> QED
  BY <1>1, HostStepKeepsContract, HostInvariant, PTL DEF Spec, KeepsContract, Contract!Spec

=============================================================================

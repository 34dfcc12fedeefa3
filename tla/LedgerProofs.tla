---------------------------- MODULE LedgerProofs ----------------------------
(***************************************************************************)
(* The ledger's guarantees hold for every number of Resources, Operations, *)
(* keys and lease tokens, and for every caller: LedgerInv is inductive     *)
(* over the ledger's statements, and the properties follow from it.        *)
(***************************************************************************)
EXTENDS OperationLedger, TLAPS

\* What a statement that neither accepts nor settles leaves as it was: the Resources, the
\* references, the identity of every Operation and whether it is open.
Quiet ==
  /\ UNCHANGED <<res, edges>>
  /\ \A o \in Ops : /\ op'[o].uid = op[o].uid
                    /\ op'[o].req = op[o].req
                    /\ op'[o].gen = op[o].gen
                    /\ op'[o].status = "absent" <=> op[o].status = "absent"
                    /\ op'[o].status \in Open <=> op[o].status \in Open

\* Touching a row keeps the order a relation between Operations.
LEMMA TouchedType ==
  ASSUME NEW o \in Ops, older \subseteq Ops \X Ops
  PROVE  Touched(o) \subseteq Ops \X Ops
BY DEF Touched, Present

\* The initial ledger is empty.
LEMMA LedgerInitInv == LedgerInit => LedgerInv
<1> SUFFICES ASSUME LedgerInit PROVE LedgerInv
  OBVIOUS
<1> USE DEF LedgerInit, NoResource, NoOperation
<1>1. LedgerTypeOK
  BY DEF LedgerTypeOK, ResourceRows, OperationRows, Open, Terminal
<1>2. RowsAgree /\ OperationOwnsResource /\ GenerationsCovered /\ GenerationsUnique
  BY LedgerAssumption DEF RowsAgree, OperationOwnsResource, GenerationsCovered, GenerationsUnique,
     IsOpen, Open
<1>3. DeletePhase /\ EdgesLive /\ EdgesCover /\ PublicationExcludesUpdate
  BY DEF DeletePhase, EdgesLive, EdgesCover, PublicationExcludesUpdate, IsOpen, Open, Depends, Live
<1> QED
  BY <1>1, <1>2, <1>3 DEF LedgerInv

\* One Operation's row is rewritten, keeping its identity and whether it is open.
SameIdentity(row, old) ==
  /\ row.uid = old.uid /\ row.req = old.req /\ row.gen = old.gen
  /\ row.status = "absent" <=> old.status = "absent"
  /\ row.status \in Open <=> old.status \in Open

\* Rewriting one row so is quiet.
LEMMA RowQuiet ==
  ASSUME LedgerTypeOK, NEW o \in Ops, NEW row \in OperationRows,
         op' = [op EXCEPT ![o] = row], SameIdentity(row, op[o]),
         UNCHANGED <<res, edges>>, older' \subseteq Ops \X Ops
  PROVE  LedgerTypeOK' /\ Quiet
<1>1. LedgerTypeOK'
  BY DEF LedgerTypeOK
<1>2. Quiet
  BY DEF LedgerTypeOK, Quiet, SameIdentity
<1> QED
  BY <1>1, <1>2

\* claim keeps the rows well typed and is quiet.
LEMMA ClaimQuiet ==
  ASSUME LedgerTypeOK, NEW o \in Ops, NEW w \in Workers, Claim(o, w)
  PROVE  LedgerTypeOK' /\ Quiet
<1> DEFINE row == [op[o] EXCEPT !.status = IF op[o].sent THEN "reconciling" ELSE "running",
                             !.effect = IF op[o].sent THEN "unknown" ELSE "none",
                             !.lease = w, !.expired = FALSE]
<1>1. op[o] \in OperationRows
  BY DEF LedgerTypeOK
<1>2. row \in OperationRows
  BY <1>1 DEF OperationRows, Open, Terminal
<1>3. op' = [op EXCEPT ![o] = row]
  BY DEF Claim
<1>4. SameIdentity(row, op[o])
  BY <1>1 DEF SameIdentity, OperationRows, Open, Claim, Claimable
<1>5. UNCHANGED <<res, edges>> /\ older' \subseteq Ops \X Ops
  BY DEF Claim, LedgerTypeOK
<1> QED
  BY <1>2, <1>3, <1>4, <1>5, RowQuiet

\* markDispatch keeps the rows well typed and is quiet.
LEMMA MarkDispatchQuiet ==
  ASSUME LedgerTypeOK, NEW o \in Ops, NEW w \in Workers, MarkDispatch(o, w)
  PROVE  LedgerTypeOK' /\ Quiet
<1> DEFINE row == [op[o] EXCEPT !.status = "reconciling", !.effect = "unknown",
                             !.sent = TRUE, !.transfer = FALSE]
<1>1. op[o] \in OperationRows
  BY DEF LedgerTypeOK
<1>2. row \in OperationRows
  BY <1>1 DEF OperationRows, Open, Terminal
<1>3. op' = [op EXCEPT ![o] = row]
  BY DEF MarkDispatch
<1>4. SameIdentity(row, op[o])
  BY <1>1 DEF SameIdentity, OperationRows, Open, MarkDispatch, Holds
<1>5. UNCHANGED <<res, edges>> /\ older' \subseteq Ops \X Ops
  BY TouchedType DEF MarkDispatch, LedgerTypeOK
<1> QED
  BY <1>2, <1>3, <1>4, <1>5, RowQuiet

\* waitForInputs keeps the rows well typed and is quiet.
LEMMA WaitForInputsQuiet ==
  ASSUME LedgerTypeOK, NEW o \in Ops, NEW w \in Workers, WaitForInputs(o, w)
  PROVE  LedgerTypeOK' /\ Quiet
<1> DEFINE row == [op[o] EXCEPT !.status = "waiting_input", !.lease = None,
                             !.expired = FALSE, !.transfer = FALSE]
<1>1. op[o] \in OperationRows
  BY DEF LedgerTypeOK
<1>2. row \in OperationRows
  BY <1>1 DEF OperationRows, Open, Terminal
<1>3. op' = [op EXCEPT ![o] = row]
  BY DEF WaitForInputs
<1>4. SameIdentity(row, op[o])
  BY <1>1 DEF SameIdentity, OperationRows, Open, WaitForInputs, Holds
<1>5. UNCHANGED <<res, edges>> /\ older' \subseteq Ops \X Ops
  BY TouchedType DEF WaitForInputs, LedgerTypeOK
<1> QED
  BY <1>2, <1>3, <1>4, <1>5, RowQuiet

\* A settlement that leaves the Operation open is quiet.
LEMMA SettleReconcilingQuiet ==
  ASSUME LedgerTypeOK, NEW o \in Ops, NEW w \in Workers, SettleReconciling(o, w)
  PROVE  LedgerTypeOK' /\ Quiet
<1> DEFINE row == [op[o] EXCEPT !.due = FALSE, !.lease = None, !.expired = FALSE]
<1>1. op[o] \in OperationRows
  BY DEF LedgerTypeOK
<1>2. row \in OperationRows
  BY <1>1 DEF OperationRows, Open, Terminal
<1>3. op' = [op EXCEPT ![o] = row]
  BY DEF SettleReconciling
<1>4. SameIdentity(row, op[o])
  BY <1>1 DEF SameIdentity, OperationRows, Open, SettleReconciling, Holds
<1>5. UNCHANGED <<res, edges>> /\ older' \subseteq Ops \X Ops
  BY TouchedType DEF SettleReconciling, LedgerTypeOK
<1> QED
  BY <1>2, <1>3, <1>4, <1>5, RowQuiet

\* replenish keeps the rows well typed and is quiet.
LEMMA ReplenishQuiet ==
  ASSUME LedgerTypeOK, NEW o \in Ops, Replenish(o)
  PROVE  LedgerTypeOK' /\ Quiet
<1> DEFINE row == [op[o] EXCEPT !.status = "queued", !.due = TRUE, !.transfer = TRUE]
<1>1. op[o] \in OperationRows
  BY DEF LedgerTypeOK
<1>2. row \in OperationRows
  BY <1>1 DEF OperationRows, Open, Terminal
<1>3. op' = [op EXCEPT ![o] = row]
  BY DEF Replenish
<1>4. SameIdentity(row, op[o])
  BY <1>1 DEF SameIdentity, OperationRows, Open, Replenish
<1>5. UNCHANGED <<res, edges>> /\ older' \subseteq Ops \X Ops
  BY TouchedType DEF Replenish, LedgerTypeOK
<1> QED
  BY <1>2, <1>3, <1>4, <1>5, RowQuiet

\* defer keeps the rows well typed and is quiet.
LEMMA DeferQuiet ==
  ASSUME LedgerTypeOK, NEW o \in Ops, Defer(o)
  PROVE  LedgerTypeOK' /\ Quiet
<1> DEFINE row == [op[o] EXCEPT !.due = FALSE]
<1>1. op[o] \in OperationRows
  BY DEF LedgerTypeOK
<1>2. row \in OperationRows
  BY <1>1 DEF OperationRows, Open, Terminal
<1>3. op' = [op EXCEPT ![o] = row]
  BY DEF Defer
<1>4. SameIdentity(row, op[o])
  BY <1>1 DEF SameIdentity, OperationRows, Open, Defer
<1>5. UNCHANGED <<res, edges>> /\ older' \subseteq Ops \X Ops
  BY DEF Defer, LedgerTypeOK
<1> QED
  BY <1>2, <1>3, <1>4, <1>5, RowQuiet

\* The expiry of a lease is quiet.
LEMMA LeaseExpiresQuiet ==
  ASSUME LedgerTypeOK, NEW o \in Ops, LeaseExpires(o)
  PROVE  LedgerTypeOK' /\ Quiet
<1> DEFINE row == [op[o] EXCEPT !.expired = TRUE]
<1>1. op[o] \in OperationRows
  BY DEF LedgerTypeOK
<1>2. row \in OperationRows
  BY <1>1 DEF OperationRows, Open, Terminal
<1>3. op' = [op EXCEPT ![o] = row]
  BY DEF LeaseExpires
<1>4. SameIdentity(row, op[o])
  BY <1>1 DEF SameIdentity, OperationRows, Open, LeaseExpires
<1>5. UNCHANGED <<res, edges>> /\ older' \subseteq Ops \X Ops
  BY DEF LeaseExpires, LedgerTypeOK
<1> QED
  BY <1>2, <1>3, <1>4, <1>5, RowQuiet

\* An attempt that becomes due is quiet.
LEMMA BecomesDueQuiet ==
  ASSUME LedgerTypeOK, NEW o \in Ops, BecomesDue(o)
  PROVE  LedgerTypeOK' /\ Quiet
<1> DEFINE row == [op[o] EXCEPT !.due = TRUE]
<1>1. op[o] \in OperationRows
  BY DEF LedgerTypeOK
<1>2. row \in OperationRows
  BY <1>1 DEF OperationRows, Open, Terminal
<1>3. op' = [op EXCEPT ![o] = row]
  BY DEF BecomesDue
<1>4. SameIdentity(row, op[o])
  BY <1>1 DEF SameIdentity, OperationRows, Open, BecomesDue
<1>5. UNCHANGED <<res, edges>> /\ older' \subseteq Ops \X Ops
  BY DEF BecomesDue, LedgerTypeOK
<1> QED
  BY <1>2, <1>3, <1>4, <1>5, RowQuiet

\* A quiet step preserves the rest of the invariant.
LEMMA QuietInv ==
  ASSUME LedgerInv, LedgerTypeOK', Quiet
  PROVE  LedgerInv'
<1> USE DEF LedgerInv, Quiet
<1>1. RowsAgree'
  BY DEF RowsAgree
<1>2. OperationOwnsResource'
  BY DEF OperationOwnsResource, IsOpen, Live, TerminalGuard, LedgerTypeOK, ResourceRows
<1>3. GenerationsCovered' /\ GenerationsUnique'
  BY DEF GenerationsCovered, GenerationsUnique
<1>4. DeletePhase' /\ EdgesLive' /\ PublicationExcludesUpdate'
  BY DEF DeletePhase, EdgesLive, PublicationExcludesUpdate, IsOpen, Live
<1>5. EdgesCover'
  BY DEF EdgesCover, Depends, IsOpen, Live
<1> QED
  BY <1>1, <1>2, <1>3, <1>4, <1>5

\* Acceptance of a create: a new Resource, busy with its new Operation.
LEMMA InsertCreateInv ==
  ASSUME LedgerInv, NEW o \in Ops, NEW u \in Uids, NEW rq \in Requests,
         rq.kind # "delete", rq.name \in Names, InsertCreate(o, u, rq)
  PROVE  LedgerInv'
<1> DEFINE row == Accepted(rq, u, 1)
           new == [state |-> "live", name |-> rq.name, gen |-> 1, obs |-> 0,
                   phase |-> "pending", busy |-> o]
<1>1. op' = [op EXCEPT ![o] = row] /\ res' = [res EXCEPT ![u] = new]
      /\ edges' = edges \cup {<<t, u>> : t \in rq.refs} /\ older' = Touched(o)
  BY DEF InsertCreate, InsertOperation
<1>2. row \in OperationRows /\ new \in ResourceRows /\ rq.refs \in SUBSET Uids
  BY DEF Accepted, OperationRows, ResourceRows, Requests, Open
<1>3. /\ row.status = "queued" /\ row.uid = u /\ row.gen = 1 /\ row.req = rq
      /\ new.state = "live" /\ new.gen = 1 /\ new.obs = 0 /\ new.busy = o
      /\ new.phase = "pending"
  BY DEF Accepted
<1>4. op[o].status = "absent" /\ op[o].uid = None /\ res[u].state = "absent" /\ res[u].gen = 0
  BY DEF InsertCreate, NextOperation, NextResource, LedgerInv, RowsAgree
<1>5. op \in [Ops -> OperationRows] /\ res \in [Uids -> ResourceRows]
  BY DEF LedgerInv, LedgerTypeOK
<1>6. \A p \in Ops : op[p].uid # u
  BY <1>4, LedgerAssumption DEF LedgerInv, RowsAgree
<1>7. \A t \in rq.refs : t # u /\ t \in Uids /\ Live(t) /\ res[t].busy = None
                         /\ res[t].phase = "idle"
  BY <1>2 DEF InsertCreate, CreateCommits, ReferencesAccepted, Available
<1> HIDE DEF row, new
<1>8. \A p \in Ops : op'[p] = IF p = o THEN row ELSE op[p]
  BY <1>1, <1>5
<1>9. \A v \in Uids : res'[v] = IF v = u THEN new ELSE res[v]
  BY <1>1, <1>5
<1>10. LedgerTypeOK'
  BY <1>1, <1>2, <1>5, TouchedType DEF LedgerInv, LedgerTypeOK
<1>11. RowsAgree'
  BY <1>2, <1>3, <1>4, <1>5, <1>6, <1>8, <1>9 DEF LedgerInv, RowsAgree, ResourceRows
<1>12. OperationOwnsResource'
  BY <1>3, <1>4, <1>5, <1>6, <1>8, <1>9
  DEF LedgerInv, RowsAgree, OperationOwnsResource, IsOpen, Open, Live, TerminalGuard, ResourceRows
<1>13. GenerationsCovered'
  <2> SUFFICES ASSUME NEW v \in Uids, NEW g \in 1..res'[v].gen
               PROVE  \E p \in Ops : op'[p].uid = v /\ op'[p].gen = g
    BY DEF GenerationsCovered
  <2>1. CASE v = u
    BY <2>1, <1>3, <1>8, <1>9
  <2>2. CASE v # u
    <3>1. PICK p \in Ops : op[p].uid = v /\ op[p].gen = g
      BY <2>2, <1>9 DEF LedgerInv, GenerationsCovered
    <3> QED
      BY <3>1, <1>4, <1>8, LedgerAssumption
  <2> QED
    BY <2>1, <2>2
<1>14. GenerationsUnique'
  BY <1>3, <1>6, <1>8 DEF LedgerInv, GenerationsUnique
<1>15. DeletePhase'
  BY <1>3, <1>4, <1>6, <1>8, <1>9 DEF LedgerInv, RowsAgree, DeletePhase, IsOpen, Open
<1>16. EdgesLive'
  BY <1>1, <1>3, <1>4, <1>7, <1>9 DEF LedgerInv, EdgesLive, Live
<1>17. EdgesCover'
  BY <1>1, <1>3, <1>4, <1>6, <1>8, <1>9 DEF LedgerInv, EdgesCover, Depends, IsOpen, Open, Live
<1>18. PublicationExcludesUpdate'
  <2> SUFFICES ASSUME NEW p \in Ops, IsOpen(p)', NEW t \in op'[p].req.refs,
                      res'[t].name \in SerializedNames
               PROVE  res'[t].busy = None
    BY DEF PublicationExcludesUpdate
  <2>1. CASE p = o
    BY <2>1, <1>3, <1>7, <1>8, <1>9
  <2>2. CASE p # o
    <3>1. IsOpen(p) /\ t \in op[p].req.refs
      BY <2>2, <1>8 DEF IsOpen
    <3>2. op[p].uid \in Uids /\ Live(op[p].uid) /\ t \in Uids
      BY <3>1 DEF LedgerInv, OperationOwnsResource, RowsAgree, IsOpen, Open, Requests
    <3>3. Live(t)
      BY <3>1, <3>2 DEF LedgerInv, EdgesCover, EdgesLive, Depends
    <3>4. t # u
      BY <3>3, <1>4 DEF Live
    <3> QED
      BY <3>1, <3>2, <3>4, <1>9 DEF LedgerInv, PublicationExcludesUpdate
  <2> QED
    BY <2>1, <2>2
<1> QED
  BY <1>10, <1>11, <1>12, <1>13, <1>15, <1>16, <1>17, <1>18, <1>14 DEF LedgerInv

\* The row the CAS of an update or a delete leaves.
LEMMA ChangedRow ==
  ASSUME NEW r \in ResourceRows, NEW g \in Nat, NEW b \in Ops,
         NEW ph \in {"pending", "idle", "deleting", "error"}
  PROVE  [r EXCEPT !.gen = g, !.phase = ph, !.busy = b] \in ResourceRows
BY DEF ResourceRows

\* Acceptance of an update or a delete: the CAS takes an idle Resource to its next
\* generation, busy with the new Operation.
LEMMA InsertChangeInv ==
  ASSUME LedgerInv, NEW o \in Ops, NEW rq \in Requests, rq.uid \in Uids, rq.kind # "create",
         InsertChange(o, rq)
  PROVE  LedgerInv'
<1> DEFINE u == rq.uid
           row == Accepted(rq, u, rq.base + 1)
           ph == IF rq.kind = "delete" THEN "deleting" ELSE "pending"
           new == [res[u] EXCEPT !.gen = rq.base + 1, !.phase = ph, !.busy = o]
<1>1. op \in [Ops -> OperationRows] /\ res \in [Uids -> ResourceRows] /\ res[u] \in ResourceRows
  BY DEF LedgerInv, LedgerTypeOK
<1>2. op' = [op EXCEPT ![o] = row] /\ res' = [res EXCEPT ![u] = new]
      /\ edges' = edges \cup {<<t, u>> : t \in rq.refs} /\ older' = Touched(o)
  BY <1>1 DEF InsertChange, InsertOperation
<1>3. rq.base \in Nat /\ rq.refs \in SUBSET Uids /\ rq.kind \in {"update", "delete"}
  BY DEF Requests, Kinds
<1>4. row \in OperationRows /\ new \in ResourceRows
  <2>1. row \in OperationRows
    BY <1>3 DEF Accepted, OperationRows, Requests, Open
  <2>2. new \in ResourceRows
    <3>1. ph \in {"pending", "idle", "deleting", "error"} /\ rq.base + 1 \in Nat
      BY <1>3
    <3> HIDE DEF ph
    <3> QED
      BY <3>1, <1>1, ChangedRow
  <2> QED
    BY <2>1, <2>2
<1>5. row.status = "queued" /\ row.uid = u /\ row.gen = rq.base + 1 /\ row.req = rq
  BY DEF Accepted
<1>6. /\ new.state = res[u].state /\ new.gen = rq.base + 1 /\ new.obs = res[u].obs
      /\ new.busy = o /\ new.name = res[u].name
      /\ new.phase = "deleting" <=> rq.kind = "delete"
  BY <1>1 DEF ResourceRows
<1>7. op[o].status = "absent" /\ op[o].uid = None
  BY DEF InsertChange, NextOperation, LedgerInv, RowsAgree
<1>8. /\ res[u].state = "live" /\ res[u].gen = rq.base /\ res[u].busy = None
      /\ rq.kind = "delete" => Unreferenced(u)
      /\ rq.kind = "update" /\ res[u].name \in SerializedNames => ~PendingReferrer(u)
  BY DEF InsertChange, ChangeCommits, ChangeAdmitted
<1>9. \A t \in rq.refs : t # u /\ t \in Uids /\ Live(t) /\ res[t].busy = None
                         /\ res[t].phase = "idle"
  BY <1>3 DEF InsertChange, ChangeCommits, ReferencesAccepted, Available
<1>10. \A p \in Ops : op[p].uid = u => ~IsOpen(p) /\ op[p].gen <= rq.base
  BY <1>1, <1>3, <1>8, LedgerAssumption
  DEF LedgerInv, OperationOwnsResource, TerminalGuard, RowsAgree, OperationRows
<1> HIDE DEF row, new, u
<1>11. \A p \in Ops : op'[p] = IF p = o THEN row ELSE op[p]
  BY <1>1, <1>2
<1>12. u \in Uids /\ \A v \in Uids : res'[v] = IF v = u THEN new ELSE res[v]
  BY <1>1, <1>2 DEF u
<1>13. LedgerTypeOK'
  BY <1>1, <1>2, <1>3, <1>4, <1>12, TouchedType DEF LedgerInv, LedgerTypeOK
<1>14. RowsAgree'
  <2>1. \A p \in Ops : IF op'[p].status = "absent" THEN op'[p].uid = None
          ELSE /\ op'[p].req \in Requests /\ op'[p].uid \in Uids
               /\ op'[p].gen \in 1..res'[op'[p].uid].gen
               /\ res'[op'[p].uid].state # "absent"
    BY <1>1, <1>3, <1>5, <1>6, <1>8, <1>11, <1>12
    DEF LedgerInv, RowsAgree, ResourceRows, OperationRows
  <2>2. \A v \in Uids : /\ res'[v].obs <= res'[v].gen
                        /\ res'[v].state = "absent" => res'[v].gen = 0
                        /\ res'[v].state # "live" => res'[v].busy = None
    BY <1>1, <1>3, <1>6, <1>8, <1>12 DEF LedgerInv, RowsAgree, ResourceRows
  <2> QED
    BY <2>1, <2>2 DEF RowsAgree
<1>15. OperationOwnsResource'
  <2>1. \A p \in Ops : IsOpen(p)' => Live(op[p].uid)' /\ TerminalGuard(p)'
    BY <1>5, <1>6, <1>8, <1>10, <1>11, <1>12
    DEF LedgerInv, OperationOwnsResource, RowsAgree, IsOpen, Open, Live, TerminalGuard
  <2>2. \A v \in Uids : res'[v].busy # None =>
          op'[res'[v].busy].status \in Open /\ op'[res'[v].busy].uid = v
    <3> SUFFICES ASSUME NEW v \in Uids, res'[v].busy # None
                 PROVE  op'[res'[v].busy].status \in Open /\ op'[res'[v].busy].uid = v
      OBVIOUS
    <3>1. CASE v = u
      BY <3>1, <1>5, <1>6, <1>11, <1>12 DEF Open
    <3>2. CASE v # u
      <4>1. res'[v] = res[v] /\ res[v].busy \in Ops
        BY <3>2, <1>1, <1>12 DEF ResourceRows
      <4>2. op[res[v].busy].status \in Open /\ op[res[v].busy].uid = v /\ res[v].busy # None
        BY <4>1 DEF LedgerInv, OperationOwnsResource, IsOpen
      <4>3. res[v].busy # o
        BY <4>2, <1>7 DEF Open
      <4> QED
        BY <4>1, <4>2, <4>3, <1>11
    <3> QED
      BY <3>1, <3>2
  <2> QED
    BY <2>1, <2>2 DEF OperationOwnsResource, IsOpen
<1>16. GenerationsCovered'
  <2> SUFFICES ASSUME NEW v \in Uids, NEW g \in 1..res'[v].gen
               PROVE  \E p \in Ops : op'[p].uid = v /\ op'[p].gen = g
    BY DEF GenerationsCovered
  <2>1. CASE v = u /\ g = rq.base + 1
    BY <2>1, <1>5, <1>11
  <2>2. CASE v # u \/ g # rq.base + 1
    <3>1. g \in 1..res[v].gen
      BY <2>2, <1>1, <1>3, <1>6, <1>8, <1>12 DEF ResourceRows
    <3>2. PICK p \in Ops : op[p].uid = v /\ op[p].gen = g
      BY <3>1 DEF LedgerInv, GenerationsCovered
    <3> QED
      BY <3>2, <1>7, <1>11, LedgerAssumption
  <2> QED
    BY <2>1, <2>2
<1>17. GenerationsUnique'
  BY <1>3, <1>5, <1>10, <1>11 DEF LedgerInv, GenerationsUnique
<1>18. DeletePhase'
  BY <1>5, <1>6, <1>10, <1>11, <1>12 DEF LedgerInv, OperationOwnsResource, RowsAgree, DeletePhase,
     IsOpen, Open
<1>19. EdgesLive'
  BY <1>2, <1>6, <1>8, <1>9, <1>12 DEF LedgerInv, EdgesLive, Live, Unreferenced
<1>20. EdgesCover'
  BY <1>1, <1>2, <1>3, <1>5, <1>6, <1>8, <1>11, <1>12
  DEF LedgerInv, RowsAgree, EdgesCover, Depends, IsOpen, Open, Live, ResourceRows
<1>21. PublicationExcludesUpdate'
  <2> SUFFICES ASSUME NEW p \in Ops, IsOpen(p)', NEW t \in op'[p].req.refs,
                      res'[t].name \in SerializedNames
               PROVE  res'[t].busy = None
    BY DEF PublicationExcludesUpdate
  <2>1. CASE p = o
    BY <2>1, <1>5, <1>9, <1>11, <1>12
  <2>2. CASE p # o
    <3> DEFINE r == op[p].uid
    <3>1. IsOpen(p) /\ t \in op[p].req.refs
      BY <2>2, <1>11 DEF IsOpen
    <3>2. r \in Uids /\ Live(r) /\ t \in Uids /\ res[r].gen = op[p].gen /\ res[r].busy = p
      BY <3>1 DEF LedgerInv, OperationOwnsResource, TerminalGuard, RowsAgree, IsOpen, Open, Requests
    <3>3. <<t, r>> \in edges
      BY <3>1, <3>2 DEF LedgerInv, EdgesCover, Depends
    <3>4. t # u
      <4> SUFFICES ASSUME t = u PROVE FALSE
        OBVIOUS
      <4>1. res[u].name \in SerializedNames
        BY <1>6, <1>12
      <4>2. ~Unreferenced(u)
        BY <3>2, <3>3 DEF Unreferenced
      <4>3. PendingReferrer(u)
        <5>1. p # None /\ <<u, r>> \in edges
          BY <3>3, LedgerAssumption
        <5> QED
          BY <5>1, <3>1, <3>2 DEF PendingReferrer
      <4> QED
        BY <4>1, <4>2, <4>3, <1>3, <1>8
    <3> QED
      BY <3>1, <3>2, <3>4, <1>12 DEF LedgerInv, PublicationExcludesUpdate
  <2> QED
    BY <2>1, <2>2
<1> QED
  BY <1>13, <1>14, <1>15, <1>16, <1>17, <1>18, <1>19, <1>20, <1>21 DEF LedgerInv

\* Settlement: the Operation becomes terminal and its Resource is released; a successful
\* delete retires the Resource and its references.
LEMMA FinishInv ==
  ASSUME LedgerInv, NEW o \in Ops, NEW status \in Terminal,
         NEW effect \in {"none", "unknown", "partial", "complete"}, IsOpen(o),
         Finish(o, status, effect)
  PROVE  LedgerInv'
<1> DEFINE u == op[o].uid
           row == [op[o] EXCEPT !.status = status, !.effect = effect, !.lease = None,
                                !.expired = FALSE]
           new == TerminalProject(o, status)
           gone == status = "succeeded" /\ op[o].req.kind = "delete"
<1>1. op \in [Ops -> OperationRows] /\ res \in [Uids -> ResourceRows] /\ op[o] \in OperationRows
  BY DEF LedgerInv, LedgerTypeOK
<1>2. /\ u \in Uids /\ res[u] \in ResourceRows /\ res[u].state = "live"
      /\ res[u].gen = op[o].gen /\ res[u].busy = o /\ op[o].req \in Requests
      /\ op[o].status # "absent"
  BY <1>1 DEF LedgerInv, OperationOwnsResource, RowsAgree, TerminalGuard, Live, IsOpen, Open
<1>3. op' = [op EXCEPT ![o] = row] /\ res' = [res EXCEPT ![u] = new]
      /\ edges' = EdgesAfter(o, status) /\ older' = Touched(o)
  BY DEF Finish
<1>4. row \in OperationRows
  BY <1>1 DEF OperationRows
<1>5. /\ row.status = status /\ row.uid = u /\ row.gen = op[o].gen /\ row.req = op[o].req
  BY <1>1 DEF OperationRows
<1>6. /\ new.state = (IF gone THEN "deleted" ELSE "live") /\ new.gen = res[u].gen
      /\ new.obs = (IF status = "succeeded" THEN op[o].gen ELSE res[u].obs)
      /\ new.busy = None /\ new.name = res[u].name /\ new.phase \in {"idle", "error"}
  BY <1>1, <1>2 DEF TerminalProject, ResourceRows
<1>7. new \in ResourceRows
  <2>1. op[o].gen \in Nat
    BY <1>1 DEF OperationRows
  <2> QED
    BY <2>1, <1>2 DEF TerminalProject, ResourceRows
<1>8. \A p \in Ops : op[p].uid = u /\ p # o => ~IsOpen(p)
  BY <1>2 DEF LedgerInv, OperationOwnsResource, TerminalGuard
<1>9. status \notin Open /\ status # "absent"
  BY DEF Open, Terminal
<1> HIDE DEF row, new, u
<1>10. \A p \in Ops : op'[p] = IF p = o THEN row ELSE op[p]
  BY <1>1, <1>3
<1>11. \A v \in Uids : res'[v] = IF v = u THEN new ELSE res[v]
  BY <1>1, <1>3
<1>12. \A e \in edges' : e \in edges /\ (gone => e[2] # u)
  BY <1>3 DEF EdgesAfter, u
<1>13. LedgerTypeOK'
  BY <1>1, <1>2, <1>3, <1>4, <1>7, <1>12, TouchedType DEF LedgerInv, LedgerTypeOK
<1>14. RowsAgree'
  <2>1. \A p \in Ops : IF op'[p].status = "absent" THEN op'[p].uid = None
          ELSE /\ op'[p].req \in Requests /\ op'[p].uid \in Uids
               /\ op'[p].gen \in 1..res'[op'[p].uid].gen
               /\ res'[op'[p].uid].state # "absent"
    BY <1>2, <1>5, <1>6, <1>9, <1>10, <1>11 DEF LedgerInv, RowsAgree, u
  <2>2. \A v \in Uids : /\ res'[v].obs <= res'[v].gen
                        /\ res'[v].state = "absent" => res'[v].gen = 0
                        /\ res'[v].state # "live" => res'[v].busy = None
    BY <1>1, <1>2, <1>6, <1>11 DEF LedgerInv, RowsAgree, OperationRows
  <2> QED
    BY <2>1, <2>2 DEF RowsAgree
<1>15. OperationOwnsResource'
  <2>1. \A p \in Ops : IsOpen(p)' => Live(op[p].uid)' /\ TerminalGuard(p)'
    BY <1>5, <1>8, <1>9, <1>10, <1>11
    DEF LedgerInv, OperationOwnsResource, RowsAgree, IsOpen, Open, Live, TerminalGuard
  <2>2. \A v \in Uids : res'[v].busy # None =>
          op'[res'[v].busy].status \in Open /\ op'[res'[v].busy].uid = v
    <3> SUFFICES ASSUME NEW v \in Uids, res'[v].busy # None
                 PROVE  op'[res'[v].busy].status \in Open /\ op'[res'[v].busy].uid = v
      OBVIOUS
    <3>1. v # u /\ res'[v] = res[v]
      BY <1>6, <1>11
    <3>2. res[v].busy \in Ops /\ op[res[v].busy].status \in Open /\ op[res[v].busy].uid = v
      BY <3>1, <1>1 DEF LedgerInv, OperationOwnsResource, IsOpen, ResourceRows
    <3> QED
      BY <3>1, <3>2, <1>10 DEF u
  <2> QED
    BY <2>1, <2>2 DEF OperationOwnsResource, IsOpen
<1>16. GenerationsCovered'
  <2> SUFFICES ASSUME NEW v \in Uids, NEW g \in 1..res'[v].gen
               PROVE  \E p \in Ops : op'[p].uid = v /\ op'[p].gen = g
    BY DEF GenerationsCovered
  <2>1. PICK p \in Ops : op[p].uid = v /\ op[p].gen = g
    BY <1>6, <1>11 DEF LedgerInv, GenerationsCovered
  <2> QED
    BY <2>1, <1>5, <1>10 DEF u
<1>17. GenerationsUnique'
  BY <1>5, <1>10 DEF LedgerInv, GenerationsUnique, u
<1>18. DeletePhase'
  BY <1>5, <1>8, <1>9, <1>10, <1>11 DEF LedgerInv, RowsAgree, DeletePhase, IsOpen, Open
<1>19. EdgesLive'
  <2> SUFFICES ASSUME NEW t \in Uids, NEW r \in Uids, <<t, r>> \in edges'
               PROVE  Live(r)' /\ Live(t)' /\ res'[t].phase # "deleting"
    BY DEF EdgesLive
  <2>1. <<t, r>> \in edges /\ (gone => r # u)
    BY <1>12
  <2>2. Live(r) /\ Live(t) /\ res[t].phase # "deleting"
    BY <2>1 DEF LedgerInv, EdgesLive
  <2>3. gone => t # u
    BY <2>2, <1>2 DEF LedgerInv, DeletePhase, u
  <2> QED
    BY <2>1, <2>2, <2>3, <1>6, <1>11 DEF Live
<1>20. EdgesCover'
  <2> SUFFICES ASSUME NEW r \in Uids, NEW t \in Uids, Live(r)', NEW p \in Ops,
                      op'[p].uid = r, IsOpen(p)' \/ op'[p].gen = res'[r].obs,
                      t \in op'[p].req.refs
               PROVE  <<t, r>> \in edges'
    BY DEF EdgesCover, Depends
  <2>1. Live(r) /\ op[p].uid = r /\ t \in op[p].req.refs /\ op[p].gen = op'[p].gen
    BY <1>2, <1>5, <1>10, <1>11 DEF Live, u
  <2>2. CASE r # u
    <3>1. p # o /\ op'[p] = op[p] /\ res'[r] = res[r]
      BY <2>1, <2>2, <1>10, <1>11 DEF u
    <3>2. <<t, r>> \in edges
      BY <2>1, <3>1 DEF LedgerInv, EdgesCover, Depends, IsOpen
    <3> QED
      BY <3>2, <2>2, <1>3 DEF EdgesAfter, u
  <2>3. CASE r = u /\ status = "succeeded"
    <3>1. op[p].gen = op[o].gen
      BY <2>1, <2>3, <1>2, <1>5, <1>6, <1>8, <1>9, <1>10, <1>11 DEF IsOpen
    <3>2. p = o
      BY <3>1, <2>1, <2>3, <1>2, LedgerAssumption DEF LedgerInv, GenerationsUnique, u
    <3>3. <<t, r>> \in edges
      BY <2>1, <3>2, <1>1 DEF LedgerInv, EdgesCover, Depends
    <3>4. ~gone
      BY <2>3, <1>6, <1>11 DEF Live
    <3> QED
      BY <3>2, <3>3, <3>4, <2>1, <2>3, <1>3 DEF EdgesAfter, u
  <2>4. CASE r = u /\ status # "succeeded"
    <3>1. IsOpen(p) \/ op[p].gen = res[r].obs
      BY <2>1, <2>4, <1>5, <1>6, <1>9, <1>10, <1>11 DEF IsOpen
    <3> QED
      BY <3>1, <2>1, <2>4, <1>3 DEF LedgerInv, EdgesCover, Depends, EdgesAfter
  <2> QED
    BY <2>2, <2>3, <2>4
<1>21. PublicationExcludesUpdate'
  <2> SUFFICES ASSUME NEW p \in Ops, IsOpen(p)', NEW t \in op'[p].req.refs,
                      res'[t].name \in SerializedNames
               PROVE  res'[t].busy = None
    BY DEF PublicationExcludesUpdate
  <2>1. p # o /\ IsOpen(p) /\ t \in op[p].req.refs
    BY <1>5, <1>9, <1>10 DEF IsOpen
  <2>2. t \in Uids
    BY <2>1 DEF LedgerInv, RowsAgree, IsOpen, Open, Requests
  <2> QED
    BY <2>1, <2>2, <1>6, <1>11 DEF LedgerInv, PublicationExcludesUpdate
<1> QED
  BY <1>13, <1>14, <1>15, <1>16, <1>17, <1>18, <1>19, <1>20, <1>21 DEF LedgerInv

\* Accepting any request the engine can build.
LEMMA AcceptInv ==
  ASSUME LedgerInv, NEW o \in Ops, NEW k \in Keys, AcceptStatement(o, k)
  PROVE  LedgerInv'
<1>1. ASSUME NEW u \in Uids, NEW n \in Names, NEW refs \in RefChoices, NEW priv \in PrivChoices,
             InsertCreate(o, u, CreateRequest(k, n, refs, priv))
      PROVE  LedgerInv'
  <2> DEFINE rq == CreateRequest(k, n, refs, priv)
  <2>1. rq \in Requests /\ rq.kind = "create" /\ rq.name \in Names
    BY LedgerAssumption DEF CreateRequest, Requests, Kinds
  <2>2. InsertCreate(o, u, rq)
    BY <1>1
  <2> HIDE DEF rq
  <2> QED
    BY <2>1, <2>2, InsertCreateInv
<1>2. ASSUME NEW u \in Uids, NEW refs \in RefChoices, NEW priv \in PrivChoices,
             InsertChange(o, UpdateRequest(k, u, res[u].gen, refs, priv))
      PROVE  LedgerInv'
  <2> DEFINE rq == UpdateRequest(k, u, res[u].gen, refs, priv)
  <2>1. res[u].gen \in Nat
    BY DEF LedgerInv, LedgerTypeOK, ResourceRows
  <2>2. rq \in Requests /\ rq.kind = "update" /\ rq.uid \in Uids
    BY <2>1, LedgerAssumption DEF UpdateRequest, Requests, Kinds
  <2>3. InsertChange(o, rq)
    BY <1>2
  <2> HIDE DEF rq
  <2> QED
    BY <2>2, <2>3, InsertChangeInv
<1>3. ASSUME NEW u \in Uids, InsertChange(o, DeleteRequest(k, u, res[u].gen))
      PROVE  LedgerInv'
  <2> DEFINE rq == DeleteRequest(k, u, res[u].gen)
  <2>1. res[u].gen \in Nat
    BY DEF LedgerInv, LedgerTypeOK, ResourceRows
  <2>2. rq \in Requests /\ rq.kind = "delete" /\ rq.uid \in Uids
    BY <2>1 DEF DeleteRequest, Requests, Kinds
  <2>3. InsertChange(o, rq)
    BY <1>3
  <2> HIDE DEF rq
  <2> QED
    BY <2>2, <2>3, InsertChangeInv
<1> QED
  BY <1>1, <1>2, <1>3 DEF AcceptStatement

\* Whatever statement a pass issues.
LEMMA PassInv ==
  ASSUME LedgerInv, NEW o \in Ops, NEW w \in Workers, PassStatement(o, w)
  PROVE  LedgerInv'
<1> LedgerTypeOK
  BY DEF LedgerInv
<1>1. CASE Claim(o, w)
  BY <1>1, ClaimQuiet, QuietInv
<1>2. CASE MarkDispatch(o, w)
  BY <1>2, MarkDispatchQuiet, QuietInv
<1>3. CASE WaitForInputs(o, w)
  BY <1>3, WaitForInputsQuiet, QuietInv
<1>4. CASE SettleReconciling(o, w)
  BY <1>4, SettleReconcilingQuiet, QuietInv
<1>5. CASE FailUnverifiable(o, w)
  <2>1. IsOpen(o) /\ Finish(o, "failed", "none") /\ "failed" \in Terminal
    BY <1>5 DEF FailUnverifiable, Holds, IsOpen, Open, Terminal
  <2> QED
    BY <2>1, FinishInv
<1>6. CASE \E r \in Conclusive : SettleTerminal(o, w, Outcome(r).status, Outcome(r).effect)
  <2>1. PICK r \in Conclusive : SettleTerminal(o, w, Outcome(r).status, Outcome(r).effect)
    BY <1>6
  <2> DEFINE status == Outcome(r).status
             effect == Outcome(r).effect
  <2>2. status \in Terminal /\ effect \in {"none", "unknown", "partial", "complete"}
    BY DEF Outcome, Conclusive, Terminal
  <2>3. IsOpen(o) /\ Finish(o, status, effect)
    BY <2>1 DEF SettleTerminal, Holds, IsOpen, Open
  <2> HIDE DEF status, effect
  <2> QED
    BY <2>2, <2>3, FinishInv
<1> QED
  BY <1>1, <1>2, <1>3, <1>4, <1>5, <1>6 DEF PassStatement

\* LedgerInv is inductive: every statement, issued by anyone at any time, preserves it.
LEMMA LedgerStepInv == LedgerInv /\ [LedgerNext]_ledgerVars => LedgerInv'
<1> SUFFICES ASSUME LedgerInv, [LedgerNext]_ledgerVars PROVE LedgerInv'
  OBVIOUS
<1>1. CASE UNCHANGED ledgerVars
  <2>1. LedgerTypeOK' /\ Quiet
    BY <1>1 DEF LedgerInv, LedgerTypeOK, Quiet, ledgerVars
  <2> QED
    BY <2>1, QuietInv
<1>2. CASE LedgerNext
  <2> LedgerTypeOK
    BY DEF LedgerInv
  <2>1. PICK o \in Ops : \/ \E k \in Keys : AcceptStatement(o, k)
                         \/ \E w \in Workers : PassStatement(o, w)
                         \/ Replenish(o) \/ Defer(o) \/ LeaseExpires(o) \/ BecomesDue(o)
    BY <1>2 DEF LedgerNext
  <2>2. CASE \E k \in Keys : AcceptStatement(o, k)
    BY <2>2, AcceptInv
  <2>3. CASE \E w \in Workers : PassStatement(o, w)
    BY <2>3, PassInv
  <2>4. CASE Replenish(o)
    BY <2>4, ReplenishQuiet, QuietInv
  <2>5. CASE Defer(o)
    BY <2>5, DeferQuiet, QuietInv
  <2>6. CASE LeaseExpires(o)
    BY <2>6, LeaseExpiresQuiet, QuietInv
  <2>7. CASE BecomesDue(o)
    BY <2>7, BecomesDueQuiet, QuietInv
  <2> QED
    BY <2>1, <2>2, <2>3, <2>4, <2>5, <2>6, <2>7
<1> QED
  BY <1>1, <1>2

\* LedgerInv holds in every reachable state of the ledger.
THEOREM LedgerInvariant == LedgerSpec => []LedgerInv
<1> QED
  BY LedgerInitInv, LedgerStepInv, PTL DEF LedgerSpec

\* The rows of the ledger's tables are always well formed.
THEOREM LedgerTypeCorrect == LedgerSpec => []LedgerTypeOK
<1>1. LedgerInv => LedgerTypeOK
  BY DEF LedgerInv
<1> QED
  BY <1>1, LedgerInvariant, PTL

\* Whatever requests, passes and timeouts interleave, an open Operation owns its Resource,
\* so that tf_v2_terminal_guard never aborts a settlement.
THEOREM OpenOwns == LedgerSpec => []OperationOwnsResource
<1>1. LedgerInv => OperationOwnsResource
  BY DEF LedgerInv
<1> QED
  BY <1>1, LedgerInvariant, PTL

\* Every generation of every Resource is accounted for by exactly one Operation.
THEOREM GenerationsAccountedFor == LedgerSpec => []GenerationsAccounted
<1>1. LedgerInv => GenerationsAccounted
  <2> SUFFICES ASSUME LedgerInv, NEW u \in Uids, NEW g \in 1..res[u].gen
               PROVE  \E o \in Ops : \A p \in Ops : (op[p].uid = u /\ op[p].gen = g) <=> p = o
    BY DEF GenerationsAccounted
  <2>1. PICK o \in Ops : op[o].uid = u /\ op[o].gen = g
    BY DEF LedgerInv, GenerationsCovered
  <2>2. \A p \in Ops : op[p].uid = u /\ op[p].gen = g => p = o
    BY <2>1, LedgerAssumption DEF LedgerInv, GenerationsUnique
  <2> QED
    BY <2>1, <2>2
<1> QED
  BY <1>1, LedgerInvariant, PTL

\* No Resource is deleted, or is being deleted, while a live Resource depends on it.
THEOREM DependenciesAlwaysStay == LedgerSpec => []DependenciesStay
<1>1. LedgerInv => DependenciesStay
  BY DEF LedgerInv, EdgesCover, EdgesLive, DependenciesStay
<1> QED
  BY <1>1, LedgerInvariant, PTL

\* A serialized target is never under change while a publication that names it is open.
THEOREM PublicationSerialized == LedgerSpec => []PublicationExcludesUpdate
<1>1. LedgerInv => PublicationExcludesUpdate
  BY DEF LedgerInv
<1> QED
  BY <1>1, LedgerInvariant, PTL

\* What one step may do to the history of a Resource.
HistoryStep ==
  \A u \in Uids :
    /\ res'[u].obs >= res[u].obs
    /\ res'[u].gen \in {res[u].gen, res[u].gen + 1}
    /\ res[u].state = "deleted" => res'[u] = res[u]

\* A step that leaves the Resources alone.
LEMMA QuietHistory ==
  ASSUME LedgerTypeOK, UNCHANGED res
  PROVE  HistoryStep
BY DEF LedgerTypeOK, ResourceRows, HistoryStep

\* A create starts the history of a Resource that had none.
LEMMA CreateHistory ==
  ASSUME LedgerInv, NEW o \in Ops, NEW u \in Uids, NEW rq, InsertCreate(o, u, rq)
  PROVE  HistoryStep
<1> DEFINE new == [state |-> "live", name |-> rq.name, gen |-> 1, obs |-> 0,
                   phase |-> "pending", busy |-> o]
<1>1. res \in [Uids -> ResourceRows]
  BY DEF LedgerInv, LedgerTypeOK
<1>2. res' = [res EXCEPT ![u] = new]
  BY DEF InsertCreate
<1>3. res[u].state = "absent" /\ res[u].gen = 0 /\ res[u].obs = 0
  BY <1>1 DEF InsertCreate, NextResource, LedgerInv, RowsAgree, ResourceRows
<1>4. new.gen = 1 /\ new.obs = 0
  OBVIOUS
<1> HIDE DEF new
<1> QED
  BY <1>1, <1>2, <1>3, <1>4 DEF HistoryStep, ResourceRows

\* An accepted change takes a live Resource to its next generation.
LEMMA ChangeHistory ==
  ASSUME LedgerInv, NEW o \in Ops, NEW rq, rq.uid \in Uids, InsertChange(o, rq)
  PROVE  HistoryStep
<1> DEFINE u == rq.uid
           new == [res[u] EXCEPT !.gen = rq.base + 1,
                                 !.phase = IF rq.kind = "delete" THEN "deleting" ELSE "pending",
                                 !.busy = o]
<1>1. res \in [Uids -> ResourceRows] /\ res[u] \in ResourceRows
  BY DEF LedgerInv, LedgerTypeOK
<1>2. res' = [res EXCEPT ![u] = new]
  BY <1>1 DEF InsertChange
<1>3. res[u].state = "live" /\ res[u].gen = rq.base
  BY DEF InsertChange, ChangeCommits, ChangeAdmitted
<1>4. new.gen = rq.base + 1 /\ new.obs = res[u].obs
  BY <1>1 DEF ResourceRows
<1> HIDE DEF new, u
<1> QED
  BY <1>1, <1>2, <1>3, <1>4 DEF HistoryStep, ResourceRows

\* A settlement observes no generation older than the one observed before.
LEMMA FinishHistory ==
  ASSUME LedgerInv, NEW o \in Ops, NEW status, NEW effect, IsOpen(o), Finish(o, status, effect)
  PROVE  HistoryStep
<1> DEFINE u == op[o].uid
           new == TerminalProject(o, status)
<1>1. res \in [Uids -> ResourceRows] /\ op[o] \in OperationRows
  BY DEF LedgerInv, LedgerTypeOK
<1>2. /\ u \in Uids /\ res[u] \in ResourceRows /\ res[u].state = "live"
      /\ res[u].gen = op[o].gen /\ res[u].obs <= res[u].gen
  BY <1>1 DEF LedgerInv, OperationOwnsResource, RowsAgree, TerminalGuard, Live, IsOpen, Open
<1>3. res' = [res EXCEPT ![u] = new]
  BY DEF Finish
<1>4. new.gen = res[u].gen /\ new.obs \in {op[o].gen, res[u].obs}
  BY <1>1, <1>2 DEF TerminalProject, ResourceRows
<1> HIDE DEF new, u
<1> QED
  BY <1>1, <1>2, <1>3, <1>4 DEF HistoryStep, ResourceRows

\* Every step of the ledger respects the history of every Resource.
LEMMA LedgerStepHistory == LedgerInv /\ [LedgerNext]_ledgerVars => HistoryStep
<1> SUFFICES ASSUME LedgerInv, [LedgerNext]_ledgerVars PROVE HistoryStep
  OBVIOUS
<1> LedgerTypeOK
  BY DEF LedgerInv
<1>1. CASE UNCHANGED res
  BY <1>1, QuietHistory
<1>2. ASSUME NEW o \in Ops, NEW k \in Keys, AcceptStatement(o, k)
      PROVE  HistoryStep
  <2>1. CASE \E u \in Uids, n \in Names, refs \in RefChoices, priv \in PrivChoices :
               InsertCreate(o, u, CreateRequest(k, n, refs, priv))
    BY <2>1, CreateHistory
  <2>2. CASE \E u \in Uids, refs \in RefChoices, priv \in PrivChoices :
               InsertChange(o, UpdateRequest(k, u, res[u].gen, refs, priv))
    <3>1. PICK u \in Uids, refs \in RefChoices, priv \in PrivChoices :
                 InsertChange(o, UpdateRequest(k, u, res[u].gen, refs, priv))
      BY <2>2
    <3>2. UpdateRequest(k, u, res[u].gen, refs, priv).uid = u
      BY DEF UpdateRequest
    <3> QED
      BY <3>1, <3>2, ChangeHistory
  <2>3. CASE \E u \in Uids : InsertChange(o, DeleteRequest(k, u, res[u].gen))
    <3>1. PICK u \in Uids : InsertChange(o, DeleteRequest(k, u, res[u].gen))
      BY <2>3
    <3>2. DeleteRequest(k, u, res[u].gen).uid = u
      BY DEF DeleteRequest
    <3> QED
      BY <3>1, <3>2, ChangeHistory
  <2> QED
    BY <1>2, <2>1, <2>2, <2>3 DEF AcceptStatement
<1>3. ASSUME NEW o \in Ops, NEW w \in Workers, PassStatement(o, w)
      PROVE  HistoryStep
  <2>1. CASE Claim(o, w) \/ MarkDispatch(o, w) \/ WaitForInputs(o, w) \/ SettleReconciling(o, w)
    BY <2>1, QuietHistory DEF Claim, MarkDispatch, WaitForInputs, SettleReconciling
  <2>2. CASE FailUnverifiable(o, w)
    BY <2>2, FinishHistory DEF FailUnverifiable, Holds, IsOpen, Open
  <2>3. CASE \E r \in Conclusive : SettleTerminal(o, w, Outcome(r).status, Outcome(r).effect)
    BY <2>3, FinishHistory DEF SettleTerminal, Holds, IsOpen, Open
  <2> QED
    BY <1>3, <2>1, <2>2, <2>3 DEF PassStatement
<1>4. ASSUME NEW o \in Ops, Replenish(o) \/ Defer(o) \/ LeaseExpires(o) \/ BecomesDue(o)
      PROVE  HistoryStep
  BY <1>4, QuietHistory DEF Replenish, Defer, LeaseExpires, BecomesDue
<1> QED
  BY <1>1, <1>2, <1>3, <1>4 DEF LedgerNext, ledgerVars

\* No settlement, however late, moves an observed generation backwards, no acceptance skips
\* a generation, and nothing touches a deleted Resource.
THEOREM HistoryKept == LedgerSpec => ResourceHistory
<1>1. LedgerInv /\ [LedgerNext]_ledgerVars => [HistoryStep]_ledgerVars
  BY LedgerStepHistory
<1> QED
  BY <1>1, LedgerInvariant, PTL DEF LedgerSpec, ResourceHistory, HistoryStep

=============================================================================

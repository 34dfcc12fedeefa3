--------------------------- MODULE OperationLedger ---------------------------
(***************************************************************************)
(* The SQL ledger of the Takoform v2 Host: the tables tf_v2_resources,     *)
(* tf_v2_operations, tf_v2_operation_references and                        *)
(* tf_v2_resource_references, their triggers (migrations 0070, 0073, 0077, *)
(* 0081) and the statements of src/takoform-v2/store.ts.                   *)
(*                                                                         *)
(* Every operator below that primes a variable is ONE committed statement  *)
(* or batch.  A statement whose WHERE clause matches nothing, and a batch  *)
(* that a constraint or a trigger aborts, change nothing: the predicate    *)
(* that decides it is an operator of its own, and the engine                *)
(* (HostOperations) says what its caller does then.                        *)
(*                                                                         *)
(* Wall-clock columns are abstracted to what the statements compare: a     *)
(* lease is expired or not, an attempt is due or not, and updated_at is    *)
(* the order "older" in which the rows were last touched.                  *)
(***************************************************************************)
EXTENDS Naturals, FiniteSets

CONSTANTS
  Uids,             \* Resources, numbered in the order of their creation
  Ops,              \* Operations, numbered by their acceptance_order
  Names,            \* active names within the one Space that is modelled
  Keys,             \* Idempotency-Key values of the one principal modelled
  Workers,          \* concurrent runNext passes; a pass's lease token is its name
  SerializedNames,  \* names whose Form serializes updates with pending referrers
  RefChoices,       \* the reference sets a spec may name
  PrivChoices,      \* whether a request may carry private inputs
  None              \* SQL NULL

ASSUME LedgerAssumption ==
  /\ Uids \subseteq Nat /\ Ops \subseteq Nat
  /\ None \notin Uids \cup Ops \cup Names \cup Keys \cup Workers
  /\ SerializedNames \subseteq Names
  /\ RefChoices \subseteq SUBSET Uids
  /\ PrivChoices \subseteq BOOLEAN

VARIABLES
  res,    \* tf_v2_resources, by uid
  op,     \* tf_v2_operations and its private-input and reference rows, by id
  edges,  \* tf_v2_resource_references: pairs <<target, referrer>>
  older   \* <<a, b>>: updated_at (then created_at, id) of a precedes b's

ledgerVars == <<res, op, edges, older>>

Kinds == {"create", "update", "delete"}

Open == {"queued", "running", "waiting_input", "reconciling"}

Terminal == {"succeeded", "failed"}

\* What the request fingerprint digests (method, path, expected generation, body), with
\* the key it is filed under.  A spec is abstracted to the Resources it references.
Requests ==
  [key: Keys, kind: Kinds, name: Names \cup {None}, uid: Uids \cup {None},
   base: Nat, refs: SUBSET Uids, priv: BOOLEAN]

ResourceRows ==
  [state: {"absent", "live", "deleted"}, name: Names \cup {None}, gen: Nat, obs: Nat,
   phase: {"pending", "idle", "deleting", "error"}, busy: Ops \cup {None}]

OperationRows ==
  [status: Open \cup Terminal \cup {"absent"}, req: Requests \cup {None},
   uid: Uids \cup {None}, gen: Nat, effect: {"none", "unknown", "partial", "complete"},
   sent: BOOLEAN, due: BOOLEAN, lease: Workers \cup {None}, expired: BOOLEAN,
   transfer: BOOLEAN]

NoResource ==
  [state |-> "absent", name |-> None, gen |-> 0, obs |-> 0, phase |-> "pending", busy |-> None]

NoOperation ==
  [status |-> "absent", req |-> None, uid |-> None, gen |-> 0, effect |-> "none",
   sent |-> FALSE, due |-> FALSE, lease |-> None, expired |-> FALSE, transfer |-> FALSE]

LedgerInit ==
  /\ res = [u \in Uids |-> NoResource]
  /\ op = [o \in Ops |-> NoOperation]
  /\ edges = {}
  /\ older = {}

Present == {o \in Ops : op[o].status # "absent"}

IsOpen(o) == op[o].status \in Open

IsTerminal(o) == op[o].status \in Terminal

Live(u) == res[u].state = "live"

\* updated_at := now makes the row the youngest one.
Touched(o) == {p \in older : p[1] # o} \cup {<<a, o>> : a \in Present \ {o}}

-----------------------------------------------------------------------------
(* Acceptance: insertCreate and insertChange, one transaction each.         *)

\* UNIQUE(principal, replay_key).
KeyFree(k) == \A o \in Present : op[o].req.key # k

\* The UNIQUE index on (space, active_name); a deleted row has no active name.
NameFree(n) == \A u \in Uids : Live(u) => res[u].name # n

\* Trigger tf_v2_operation_reference_guard, for one target.
Available(t) ==
  /\ Live(t)
  /\ res[t].busy = None
  /\ res[t].phase = "idle"
  /\ res[t].obs = res[t].gen

\* The guard runs after the referrer's own row is busy, so a Resource cannot reference itself.
ReferencesAccepted(refs, u) == \A t \in refs : t # u /\ Available(t)

\* NOT EXISTS (an edge whose referrer is not deleted), inside the delete's UPDATE.
Unreferenced(t) == \A r \in Uids : <<t, r>> \in edges => ~Live(r)

\* Faulty variant: an Operation that was dispatched no longer counts as pending.
PendingReferrerUndispatched(t) ==
  \E r \in Uids : /\ <<t, r>> \in edges
                  /\ Live(r)
                  /\ res[r].busy # None
                  /\ op[res[r].busy].status \in {"queued", "running"}

\* EXISTS (pendingReferrersSql).
PendingReferrer(t) ==
  \E r \in Uids : /\ <<t, r>> \in edges
                  /\ Live(r)
                  /\ res[r].busy # None
                  /\ op[res[r].busy].gen = res[r].gen
                  /\ op[res[r].busy].uid = r
                  /\ IsOpen(res[r].busy)

\* Faulty variant: a CAS on the generation that forgets busy_operation.
ChangeAdmittedBusy(rq) ==
  LET r == res[rq.uid] IN
  /\ r.state = "live"
  /\ r.gen = rq.base
  /\ rq.kind = "delete" => Unreferenced(rq.uid)
  /\ rq.kind = "update" /\ r.name \in SerializedNames => ~PendingReferrer(rq.uid)

\* Faulty variant: a CAS that forgets deleted_at.
ChangeAdmittedDeleted(rq) ==
  LET r == res[rq.uid] IN
  /\ r.gen = rq.base /\ r.gen > 0
  /\ r.busy = None
  /\ rq.kind = "delete" => Unreferenced(rq.uid)
  /\ rq.kind = "update" /\ r.name \in SerializedNames => ~PendingReferrer(rq.uid)

\* The WHERE clause of the Resource UPDATE of compileChangeAcceptance.
ChangeAdmitted(rq) ==
  LET r == res[rq.uid] IN
  /\ r.state = "live"
  /\ r.gen = rq.base
  /\ r.busy = None
  /\ rq.kind = "delete" => Unreferenced(rq.uid)
  /\ rq.kind = "update" /\ r.name \in SerializedNames => ~PendingReferrer(rq.uid)

\* The queued row, its private-input row and its sealed reference set.
Accepted(rq, u, g) ==
  [status |-> "queued", req |-> rq, uid |-> u, gen |-> g, effect |-> "none", sent |-> FALSE,
   due |-> TRUE, lease |-> None, expired |-> FALSE, transfer |-> rq.priv]

CreateCommits(u, rq) ==
  KeyFree(rq.key) /\ NameFree(rq.name) /\ ReferencesAccepted(rq.refs, u)

ChangeCommits(rq) ==
  ChangeAdmitted(rq) /\ KeyFree(rq.key) /\ ReferencesAccepted(rq.refs, rq.uid)

\* The id the row gets: the next value of tf_v2_operation_acceptance_counter.
NextOperation(o) == op[o].status = "absent" /\ \A p \in Ops : p < o => op[p].status # "absent"

\* A newly minted UID; Resources are numbered as they are created.
NextResource(u) == res[u].state = "absent" /\ \A v \in Uids : v < u => res[v].state # "absent"

InsertOperation(o, u, rq, g) ==
  /\ op' = [op EXCEPT ![o] = Accepted(rq, u, g)]
  /\ edges' = edges \cup {<<t, u>> : t \in rq.refs}
  /\ older' = Touched(o)

InsertCreate(o, u, rq) ==
  /\ NextOperation(o) /\ NextResource(u)
  /\ CreateCommits(u, rq)
  /\ res' = [res EXCEPT ![u] = [state |-> "live", name |-> rq.name, gen |-> 1, obs |-> 0,
                                phase |-> "pending", busy |-> o]]
  /\ InsertOperation(o, u, rq, 1)

\* Faulty variant: the Resource CAS commits although the Operation's key is taken.
InsertChangeUnbatched(o, rq) ==
  /\ NextOperation(o)
  /\ ChangeAdmitted(rq) /\ ReferencesAccepted(rq.refs, rq.uid)
  /\ res' = [res EXCEPT ![rq.uid].gen = rq.base + 1]
  /\ IF KeyFree(rq.key)
     THEN InsertOperation(o, rq.uid, rq, rq.base + 1)
     ELSE UNCHANGED <<op, edges, older>>

InsertChange(o, rq) ==
  /\ NextOperation(o)
  /\ ChangeCommits(rq)
  /\ res' = [res EXCEPT ![rq.uid].gen = rq.base + 1,
                        ![rq.uid].phase = IF rq.kind = "delete" THEN "deleting" ELSE "pending",
                        ![rq.uid].busy = o]
  /\ InsertOperation(o, rq.uid, rq, rq.base + 1)

-----------------------------------------------------------------------------
(* Claims, dispatch and settlement.                                         *)

\* Faulty variant: the status is not part of the candidate's condition.
ClaimableAnyStatus(o) ==
  op[o].status # "absent" /\ op[o].due /\ (op[o].lease = None \/ op[o].expired)

\* The WHERE clause shared by nextCandidate and claim.
Claimable(o) ==
  /\ op[o].due
  /\ \/ op[o].status = "queued"
     \/ /\ op[o].status \in {"running", "reconciling"}
        /\ op[o].lease = None \/ op[o].expired

\* Faulty variant: no ORDER BY.
NextCandidateUnordered(o) == Claimable(o)

\* ORDER BY updated_at, created_at, id LIMIT 1.
NextCandidate(o) ==
  Claimable(o) /\ \A p \in Ops : <<p, o>> \in older => ~Claimable(p)

\* Matches an open, due row only.
Defer(o) ==
  /\ op[o].due /\ op[o].status \in {"queued", "running", "reconciling"}
  /\ op' = [op EXCEPT ![o].due = FALSE]
  /\ UNCHANGED <<res, edges, older>>

Claim(o, w) ==
  /\ Claimable(o)
  /\ op' = [op EXCEPT ![o].status = IF op[o].sent THEN "reconciling" ELSE "running",
                      ![o].effect = IF op[o].sent THEN "unknown" ELSE "none",
                      ![o].lease = w, ![o].expired = FALSE]
  /\ UNCHANGED <<res, edges, older>>

Holds(o, w, status) == op[o].lease = w /\ op[o].status = status

\* Faulty variant: dispatch_possible is not recorded.
MarkDispatchUnrecorded(o, w) ==
  /\ Holds(o, w, "running")
  /\ op' = [op EXCEPT ![o].status = "reconciling", ![o].effect = "unknown",
                      ![o].transfer = FALSE]
  /\ older' = Touched(o)
  /\ UNCHANGED <<res, edges>>

\* Faulty variant: the trigger that clears the transfer material is missing.
MarkDispatchKeepsTransfer(o, w) ==
  /\ Holds(o, w, "running")
  /\ op' = [op EXCEPT ![o].status = "reconciling", ![o].effect = "unknown", ![o].sent = TRUE]
  /\ older' = Touched(o)
  /\ UNCHANGED <<res, edges>>

\* markDispatch and trigger tf_v2_private_transfer_dispatched.
MarkDispatch(o, w) ==
  /\ Holds(o, w, "running")
  /\ op' = [op EXCEPT ![o].status = "reconciling", ![o].effect = "unknown", ![o].sent = TRUE,
                      ![o].transfer = FALSE]
  /\ older' = Touched(o)
  /\ UNCHANGED <<res, edges>>

\* waitForInputs and trigger tf_v2_private_transfer_waiting.
WaitForInputs(o, w) ==
  /\ Holds(o, w, "running") /\ ~op[o].sent /\ op[o].req.priv
  /\ op' = [op EXCEPT ![o].status = "waiting_input", ![o].lease = None, ![o].expired = FALSE,
                      ![o].transfer = FALSE]
  /\ older' = Touched(o)
  /\ UNCHANGED <<res, edges>>

\* replenish: both statements of the batch have the same condition on the Operation.
Replenish(o) ==
  /\ op[o].status = "waiting_input" /\ ~op[o].sent /\ op[o].lease = None
  /\ op' = [op EXCEPT ![o].status = "queued", ![o].due = TRUE, ![o].transfer = TRUE]
  /\ older' = Touched(o)
  /\ UNCHANGED <<res, edges>>

\* Trigger tf_v2_terminal_guard; where it does not hold the settling UPDATE aborts.
TerminalGuard(o) ==
  res[op[o].uid].gen = op[o].gen /\ res[op[o].uid].busy = o

\* Faulty variant: the Operation's status is copied into the phase.
TerminalProjectStatus(o, status) ==
  [res[op[o].uid] EXCEPT !.phase = status, !.busy = None]

\* Trigger tf_v2_terminal_project.
TerminalProject(o, status) ==
  LET row == res[op[o].uid]
      gone == status = "succeeded" /\ op[o].req.kind = "delete"
  IN  [row EXCEPT !.phase = IF status = "failed" THEN "error" ELSE "idle",
                  !.obs = IF status = "succeeded" THEN op[o].gen ELSE @,
                  !.state = IF gone THEN "deleted" ELSE @,
                  !.busy = None]

\* Faulty variant: a failed replacement retires the previous edges too.
EdgesAfterAny(o, status) ==
  {e \in edges : e[2] = op[o].uid => op[o].req.kind # "delete" /\ e[1] \in op[o].req.refs}

\* Triggers tf_v2_reference_success_replace and tf_v2_reference_successful_delete: a
\* success keeps exactly its own reference set, anything else keeps old and pending edges.
EdgesAfter(o, status) ==
  IF status # "succeeded" THEN edges
  ELSE {e \in edges : e[2] = op[o].uid => op[o].req.kind # "delete" /\ e[1] \in op[o].req.refs}

Finish(o, status, effect) ==
  /\ TerminalGuard(o)
  /\ op' = [op EXCEPT ![o].status = status, ![o].effect = effect, ![o].lease = None,
                      ![o].expired = FALSE]
  /\ res' = [res EXCEPT ![op[o].uid] = TerminalProject(o, status)]
  /\ edges' = EdgesAfter(o, status)
  /\ older' = Touched(o)

\* Faulty variant: no token, no dispatch check.
FailUnverifiableStale(o, w) == IsOpen(o) /\ Finish(o, "failed", "none")

FailUnverifiable(o, w) ==
  /\ Holds(o, w, "running") /\ ~op[o].sent
  /\ Finish(o, "failed", "none")

Conclusive == {"complete", "partial", "no_effect"}

\* Faulty variant: a partial effect is reported as none.
OutcomeRounded(result) ==
  IF result = "complete" THEN [status |-> "succeeded", effect |-> "complete"]
  ELSE [status |-> "failed", effect |-> "none"]

\* (status, effect) that a conclusive backend result settles the Operation with.
Outcome(result) ==
  CASE result = "complete" -> [status |-> "succeeded", effect |-> "complete"]
    [] result = "partial" -> [status |-> "failed", effect |-> "partial"]
    [] OTHER -> [status |-> "failed", effect |-> "none"]

SettleTerminal(o, w, status, effect) ==
  /\ Holds(o, w, "reconciling")
  /\ Finish(o, status, effect)

\* settle with status 'reconciling': the lease is released and a later attempt scheduled.
SettleReconciling(o, w) ==
  /\ Holds(o, w, "reconciling")
  /\ op' = [op EXCEPT ![o].due = FALSE, ![o].lease = None, ![o].expired = FALSE]
  /\ older' = Touched(o)
  /\ UNCHANGED <<res, edges>>

-----------------------------------------------------------------------------
(* Time.                                                                    *)

\* lease_until_ms <= now.
LeaseExpires(o) ==
  /\ op[o].lease # None /\ ~op[o].expired
  /\ op' = [op EXCEPT ![o].expired = TRUE]
  /\ UNCHANGED <<res, edges, older>>

\* next_attempt_at_ms <= now.
BecomesDue(o) ==
  /\ IsOpen(o) /\ ~op[o].due
  /\ op' = [op EXCEPT ![o].due = TRUE]
  /\ UNCHANGED <<res, edges, older>>

-----------------------------------------------------------------------------
(* The ledger on its own: any statement, with any arguments, at any time.   *)
(* No caller is trusted to have read anything recently.                     *)

CreateRequest(k, n, refs, priv) ==
  [key |-> k, kind |-> "create", name |-> n, uid |-> None, base |-> 0, refs |-> refs,
   priv |-> priv]

UpdateRequest(k, u, b, refs, priv) ==
  [key |-> k, kind |-> "update", name |-> None, uid |-> u, base |-> b, refs |-> refs,
   priv |-> priv]

DeleteRequest(k, u, b) ==
  [key |-> k, kind |-> "delete", name |-> None, uid |-> u, base |-> b, refs |-> {},
   priv |-> FALSE]

\* Only a request for the current generation passes the CAS, so no other is tried.
AcceptStatement(o, k) ==
  \/ \E u \in Uids, n \in Names, refs \in RefChoices, priv \in PrivChoices :
       InsertCreate(o, u, CreateRequest(k, n, refs, priv))
  \/ \E u \in Uids, refs \in RefChoices, priv \in PrivChoices :
       InsertChange(o, UpdateRequest(k, u, res[u].gen, refs, priv))
  \/ \E u \in Uids : InsertChange(o, DeleteRequest(k, u, res[u].gen))

PassStatement(o, w) ==
  \/ Claim(o, w) \/ MarkDispatch(o, w) \/ WaitForInputs(o, w) \/ FailUnverifiable(o, w)
  \/ SettleReconciling(o, w)
  \/ \E r \in Conclusive : SettleTerminal(o, w, Outcome(r).status, Outcome(r).effect)

LedgerNext ==
  \E o \in Ops :
    \/ \E k \in Keys : AcceptStatement(o, k)
    \/ \E w \in Workers : PassStatement(o, w)
    \/ Replenish(o) \/ Defer(o) \/ LeaseExpires(o) \/ BecomesDue(o)

LedgerSpec == LedgerInit /\ [][LedgerNext]_ledgerVars

-----------------------------------------------------------------------------
(* What the ledger guarantees to whoever uses it.                           *)

LedgerTypeOK ==
  /\ res \in [Uids -> ResourceRows]
  /\ op \in [Ops -> OperationRows]
  /\ edges \subseteq Uids \X Uids
  /\ older \subseteq Ops \X Ops

\* An open Operation owns its Resource: the row is live, at the Operation's generation and
\* busy with it, and a busy Resource is busy with an open Operation of its own.  The
\* trigger tf_v2_terminal_guard therefore never aborts a settlement.
OperationOwnsResource ==
  /\ \A o \in Ops : IsOpen(o) => Live(op[o].uid) /\ TerminalGuard(o)
  /\ \A u \in Uids : res[u].busy # None => IsOpen(res[u].busy) /\ op[res[u].busy].uid = u

\* Every generation of a Resource was accepted by exactly one Operation: a retried,
\* duplicated or racing request never bumps a generation without its own Operation.
GenerationsAccounted ==
  \A u \in Uids : \A g \in 1..res[u].gen :
    \E o \in Ops : \A p \in Ops : (op[p].uid = u /\ op[p].gen = g) <=> p = o

\* The reference sets that matter for a live Resource: that of the generation it was last
\* observed at and that of the Operation that is open on it.
Depends(r, t) ==
  \E o \in Ops : /\ op[o].uid = r
                 /\ IsOpen(o) \/ op[o].gen = res[r].obs
                 /\ t \in op[o].req.refs

\* No Resource is deleted, or being deleted, while a live Resource depends on it: the
\* acceptance of a reference races the acceptance of the delete of its target.
DependenciesStay ==
  \A r, t \in Uids : Live(r) /\ Depends(r, t) => Live(t) /\ res[t].phase # "deleting"

\* While the publication of a referrer is open, a target whose Form serializes updates with
\* pending referrers is not under change.
PublicationExcludesUpdate ==
  \A o \in Ops : IsOpen(o) =>
    \A t \in op[o].req.refs : res[t].name \in SerializedNames => res[t].busy = None

\* A Resource's last observed generation never moves backwards, its generation grows by
\* one at a time, and a deleted Resource is never touched again.
ResourceHistory ==
  [][\A u \in Uids :
       /\ res'[u].obs >= res[u].obs
       /\ res'[u].gen \in {res[u].gen, res[u].gen + 1}
       /\ res[u].state = "deleted" => res'[u] = res[u]]_ledgerVars

-----------------------------------------------------------------------------
(* The inductive invariant behind these properties.                         *)

\* A row that exists names a request, its Resource and a generation that Resource reached;
\* one that does not names none.
RowsAgree ==
  /\ \A o \in Ops :
       IF op[o].status = "absent" THEN op[o].uid = None
       ELSE /\ op[o].req \in Requests /\ op[o].uid \in Uids
            /\ op[o].gen \in 1..res[op[o].uid].gen
            /\ res[op[o].uid].state # "absent"
  /\ \A u \in Uids :
       /\ res[u].obs <= res[u].gen
       /\ res[u].state = "absent" => res[u].gen = 0
       /\ res[u].state # "live" => res[u].busy = None

GenerationsCovered ==
  \A u \in Uids : \A g \in 1..res[u].gen : \E o \in Ops : op[o].uid = u /\ op[o].gen = g

GenerationsUnique ==
  \A o, p \in Ops : op[o].uid # None /\ op[o].uid = op[p].uid /\ op[o].gen = op[p].gen => o = p

\* A Resource is in phase deleting exactly while the delete of it is open.
DeletePhase ==
  \A o \in Ops : IsOpen(o) =>
    (op[o].req.kind = "delete" <=> res[op[o].uid].phase = "deleting")

EdgesLive ==
  \A t, r \in Uids : <<t, r>> \in edges => Live(r) /\ Live(t) /\ res[t].phase # "deleting"

\* The edges hold at least what a live Resource depends on.
EdgesCover == \A r, t \in Uids : Live(r) /\ Depends(r, t) => <<t, r>> \in edges

LedgerInv ==
  /\ LedgerTypeOK
  /\ RowsAgree
  /\ OperationOwnsResource
  /\ GenerationsCovered
  /\ GenerationsUnique
  /\ DeletePhase
  /\ EdgesLive
  /\ EdgesCover
  /\ PublicationExcludesUpdate

=============================================================================

--------------------------- MODULE HostOperations ---------------------------
(***************************************************************************)
(* The Takoform v2 Host engine (src/takoform-v2/engine.ts) over the        *)
(* OperationLedger: API requests that accept Operations, background        *)
(* runNext passes that claim, dispatch, reconcile and settle them, and the *)
(* backend each pass calls.                                                *)
(*                                                                         *)
(* Every await on the ledger or on the backend is a step of its own, so    *)
(* what a request or a pass read may be stale when it writes.  A pass may  *)
(* die at any await (Crash): its lease stays in the ledger until it        *)
(* expires, and a call it made may still reach the backend.                *)
(***************************************************************************)
EXTENDS OperationLedger

CONSTANTS
  Clients  \* API requests in flight at the same time

VARIABLES
  cl,      \* the requests that have read and not yet written
  wk,      \* runNext passes
  native,  \* what the backend has done under each Operation's stable backend key
  calls    \* how many times execute was called for each Operation (history)

vars == <<res, op, edges, older, cl, wk, native, calls>>

Results == {"complete", "partial", "no_effect", "continue", "unknown"}

PassStates ==
  [pc: {"idle", "picked", "claimed", "wait", "unverifiable", "mark", "own", "call",
        "reply", "settle"},
   op: Ops \cup {None}, must: BOOLEAN, result: Results]

NativeStates == [effect: {"none", "partial", "complete"}, reached: BOOLEAN, closed: BOOLEAN]

NoPass == [pc |-> "idle", op |-> None, must |-> FALSE, result |-> "unknown"]

TypeOK ==
  /\ LedgerTypeOK
  /\ cl \in [Clients -> Requests \cup {None}]
  /\ wk \in [Workers -> PassStates]
  /\ native \in [Ops -> NativeStates]
  /\ calls \in [Ops -> Nat]

Init ==
  /\ LedgerInit
  /\ cl = [c \in Clients |-> None]
  /\ wk = [w \in Workers |-> NoPass]
  /\ native = [o \in Ops |-> [effect |-> "none", reached |-> FALSE, closed |-> FALSE]]
  /\ calls = [o \in Ops |-> 0]

-----------------------------------------------------------------------------
(* API requests: acceptCreate, acceptUpdate, acceptDelete.                  *)
(*                                                                          *)
(* A request first reads: the row of its target, the Operation under its    *)
(* idempotency key, and for a delete the referrers.  A request that these   *)
(* reads refuse or answer (not_found, gone, resource_busy,                  *)
(* generation_conflict, idempotency_conflict, a replayed Operation) writes  *)
(* nothing and is not a step.  The others hold what they read until their   *)
(* batch runs, however much later that is.                                  *)

\* The checks on the target row that was read: deleted, busy, other generation.
Fresh(rq) ==
  /\ res[rq.uid].state = "live"
  /\ res[rq.uid].busy = None
  /\ res[rq.uid].gen = rq.base

Holding(c, rq) ==
  /\ KeyFree(rq.key)
  /\ cl' = [cl EXCEPT ![c] = rq]
  /\ UNCHANGED <<ledgerVars, wk, native, calls>>

BeginCreate(c) ==
  /\ cl[c] = None
  /\ \E k \in Keys, n \in Names, refs \in RefChoices, priv \in PrivChoices :
       Holding(c, CreateRequest(k, n, refs, priv))

BeginUpdate(c) ==
  /\ cl[c] = None
  /\ \E k \in Keys, u \in Uids, refs \in RefChoices, priv \in PrivChoices :
       LET rq == UpdateRequest(k, u, res[u].gen, refs, priv)
       IN  Fresh(rq) /\ Holding(c, rq)

BeginDelete(c) ==
  /\ cl[c] = None
  /\ \E k \in Keys, u \in Uids :
       LET rq == DeleteRequest(k, u, res[u].gen)
       IN  Fresh(rq) /\ Unreferenced(u) /\ Holding(c, rq)

AcceptCreate(c) ==
  /\ cl[c] # None /\ cl[c].kind = "create"
  /\ \E o \in Ops, u \in Uids : InsertCreate(o, u, cl[c])
  /\ cl' = [cl EXCEPT ![c] = None]
  /\ UNCHANGED <<wk, native, calls>>

AcceptChange(c) ==
  /\ cl[c] # None /\ cl[c].kind # "create"
  /\ \E o \in Ops : InsertChange(o, cl[c])
  /\ cl' = [cl EXCEPT ![c] = None]
  /\ UNCHANGED <<wk, native, calls>>

\* The batch aborted or matched nothing (a constraint, a reference guard, the CAS, or the
\* Form's own admission predicate, which may refuse any request), and winnerAfterRace
\* answers with the Operation now under this key or with the conflict.
AcceptRefused(c) ==
  /\ cl[c] # None
  /\ cl' = [cl EXCEPT ![c] = None]
  /\ UNCHANGED <<ledgerVars, wk, native, calls>>

\* replenishPrivateInputs.
ReplenishInputs(o) ==
  /\ Replenish(o)
  /\ UNCHANGED <<cl, wk, native, calls>>

-----------------------------------------------------------------------------
(* runNext.                                                                 *)

Goes(w, pc) == wk' = [wk EXCEPT ![w].pc = pc]

\* Faulty variant: the pass goes on as one that is finished.
EndsUnfinished(w) == Goes(w, "finished")

Ends(w) == wk' = [wk EXCEPT ![w] = NoPass]

\* nextRunnable reads the oldest due candidate.
Pick(w, o) ==
  /\ wk[w].pc = "idle"
  /\ NextCandidate(o)
  /\ wk' = [wk EXCEPT ![w].pc = "picked", ![w].op = o]
  /\ UNCHANGED <<ledgerVars, cl, native, calls>>

\* The row's backend is not the one this Host is configured with: defer it and look again.
DeferUnbound(w) ==
  /\ wk[w].pc = "picked"
  /\ Defer(wk[w].op)
  /\ Ends(w)
  /\ UNCHANGED <<cl, native, calls>>

ClaimPicked(w) ==
  /\ wk[w].pc = "picked"
  /\ Claim(wk[w].op, w)
  /\ Goes(w, "claimed")
  /\ UNCHANGED <<cl, native, calls>>

ClaimLost(w) ==
  /\ wk[w].pc = "picked"
  /\ ~Claimable(wk[w].op)
  /\ Ends(w)
  /\ UNCHANGED <<ledgerVars, cl, native, calls>>

\* The pass reads its Operation and, if it was never dispatched, its private inputs.
MustReconcile(o) == op[o].sent

LoadForReconcile(w) ==
  /\ wk[w].pc = "claimed" /\ MustReconcile(wk[w].op)
  /\ wk' = [wk EXCEPT ![w].pc = "own", ![w].must = TRUE]
  /\ UNCHANGED <<ledgerVars, cl, native, calls>>

LoadForDispatch(w) ==
  /\ wk[w].pc = "claimed" /\ ~MustReconcile(wk[w].op)
  /\ op[wk[w].op].req.priv => op[wk[w].op].transfer
  /\ Goes(w, "mark")
  /\ UNCHANGED <<ledgerVars, cl, native, calls>>

\* The transfer is absent, expired, or does not open or match.
LoadWithoutInputs(w) ==
  /\ wk[w].pc = "claimed" /\ ~MustReconcile(wk[w].op)
  /\ op[wk[w].op].req.priv
  /\ Goes(w, "wait")
  /\ UNCHANGED <<ledgerVars, cl, native, calls>>

\* The comparison material is gone.
LoadUnverifiable(w) ==
  /\ wk[w].pc = "claimed" /\ ~MustReconcile(wk[w].op)
  /\ op[wk[w].op].req.priv
  /\ Goes(w, "unverifiable")
  /\ UNCHANGED <<ledgerVars, cl, native, calls>>

Wait(w) ==
  /\ wk[w].pc = "wait"
  /\ WaitForInputs(wk[w].op, w)
  /\ Ends(w)
  /\ UNCHANGED <<cl, native, calls>>

Unverifiable(w) ==
  /\ wk[w].pc = "unverifiable"
  /\ FailUnverifiable(wk[w].op, w)
  /\ Ends(w)
  /\ UNCHANGED <<cl, native, calls>>

Mark(w) ==
  /\ wk[w].pc = "mark"
  /\ MarkDispatch(wk[w].op, w)
  /\ Goes(w, "own")
  /\ UNCHANGED <<cl, native, calls>>

\* A CAS of a pass whose claim was taken over, or whose Operation moved on, matches nothing.
LostRunning(w) ==
  /\ wk[w].pc \in {"wait", "unverifiable", "mark"}
  /\ ~Holds(wk[w].op, w, "running")
  /\ Ends(w)
  /\ UNCHANGED <<ledgerVars, cl, native, calls>>

OwnsClaim(w) ==
  /\ wk[w].pc = "own"
  /\ IF op[wk[w].op].lease = w THEN Goes(w, "call") ELSE Ends(w)
  /\ UNCHANGED <<ledgerVars, cl, native, calls>>

\* The request is on its way; from here on it may reach the backend at any time.
Execute(w) ==
  /\ wk[w].pc = "call" /\ ~wk[w].must
  /\ calls' = [calls EXCEPT ![wk[w].op] = @ + 1]
  /\ native' = [native EXCEPT ![wk[w].op].reached = TRUE]
  /\ Goes(w, "reply")
  /\ UNCHANGED <<ledgerVars, cl>>

Reconcile(w) ==
  /\ wk[w].pc = "call" /\ wk[w].must
  /\ native' = [native EXCEPT ![wk[w].op].reached = TRUE]
  /\ Goes(w, "reply")
  /\ UNCHANGED <<ledgerVars, cl, calls>>

Settle(w) ==
  /\ wk[w].pc = "settle" /\ wk[w].result \in Conclusive
  /\ SettleTerminal(wk[w].op, w, Outcome(wk[w].result).status, Outcome(wk[w].result).effect)
  /\ Ends(w)
  /\ UNCHANGED <<cl, native, calls>>

SettleLater(w) ==
  /\ wk[w].pc = "settle" /\ wk[w].result \notin Conclusive
  /\ SettleReconciling(wk[w].op, w)
  /\ Ends(w)
  /\ UNCHANGED <<cl, native, calls>>

LostReconciling(w) ==
  /\ wk[w].pc = "settle"
  /\ ~Holds(wk[w].op, w, "reconciling")
  /\ Ends(w)
  /\ UNCHANGED <<ledgerVars, cl, native, calls>>

\* The process or the request lifetime that carries the pass ends.
Crash(w) ==
  /\ wk[w].pc # "idle"
  /\ Ends(w)
  /\ UNCHANGED <<ledgerVars, cl, native, calls>>

-----------------------------------------------------------------------------
(* The backend of a Form, by the contract of V2Backend: effects happen      *)
(* under the Operation's stable key, "complete" is reported of a complete   *)
(* effect only, and "no_effect" or "partial" only once no earlier send can  *)
(* add anything (native fencing).                                           *)

BackendWorks(o) ==
  /\ native[o].reached /\ ~native[o].closed
  /\ \E e \in {"partial", "complete"} :
       /\ native[o].effect # e
       /\ native' = [native EXCEPT ![o].effect = e, ![o].closed = (e = "complete")]
  /\ UNCHANGED <<ledgerVars, cl, wk, calls>>

Answer(w, result) ==
  LET n == native[wk[w].op] IN
  /\ wk[w].pc = "reply"
  /\ CASE result = "complete"  -> n.effect = "complete"
       [] result = "partial"   -> n.effect = "partial"
       [] result = "no_effect" -> n.effect = "none"
       [] OTHER -> TRUE
  /\ native' = [native EXCEPT ![wk[w].op].closed = @ \/ result \in Conclusive]
  /\ wk' = [wk EXCEPT ![w].pc = "settle", ![w].result = result]
  /\ UNCHANGED <<ledgerVars, cl, calls>>

LeaseTimer(o) == LeaseExpires(o) /\ UNCHANGED <<cl, wk, native, calls>>

AttemptTimer(o) == BecomesDue(o) /\ UNCHANGED <<cl, wk, native, calls>>

-----------------------------------------------------------------------------

ClientStep(c) ==
  \/ BeginCreate(c) \/ BeginUpdate(c) \/ BeginDelete(c)
  \/ AcceptCreate(c) \/ AcceptChange(c) \/ AcceptRefused(c)

PassStep(w) ==
  \/ \E o \in Ops : Pick(w, o)
  \/ DeferUnbound(w) \/ ClaimPicked(w) \/ ClaimLost(w)
  \/ LoadForReconcile(w) \/ LoadForDispatch(w) \/ LoadWithoutInputs(w) \/ LoadUnverifiable(w)
  \/ Wait(w) \/ Unverifiable(w) \/ Mark(w) \/ LostRunning(w)
  \/ OwnsClaim(w) \/ Execute(w) \/ Reconcile(w)
  \/ Settle(w) \/ SettleLater(w) \/ LostReconciling(w)
  \/ \E r \in Results : Answer(w, r)

Next ==
  \/ \E c \in Clients : ClientStep(c)
  \/ \E w \in Workers : PassStep(w) \/ Crash(w)
  \/ \E o \in Ops : ReplenishInputs(o) \/ BackendWorks(o) \/ LeaseTimer(o) \/ AttemptTimer(o)

Spec == Init /\ [][Next]_vars

(* The scheduled tick runs passes for ever and the clock moves on.  Passes may die and be *)
(* deferred any number of times, though not for ever.  Which candidate a pass picks is     *)
(* decided by the order of the ledger's rows alone.                                        *)

\* The pass dies where it could have gone on, or finds the backend not configured.
Disturbed(w) ==
  \/ DeferUnbound(w)
  \/ Crash(w) /\ ~(ClaimLost(w) \/ LostRunning(w) \/ OwnsClaim(w) \/ LostReconciling(w))

Fairness ==
  /\ \A w \in Workers : WF_vars(PassStep(w) /\ ~DeferUnbound(w))
  /\ \A o \in Ops : WF_vars(LeaseTimer(o)) /\ WF_vars(AttemptTimer(o))
  /\ <>[][\A w \in Workers : ~Disturbed(w)]_vars

FairSpec == Spec /\ Fairness

-----------------------------------------------------------------------------
(* Safety.                                                                  *)

\* execute is called at most once for an Operation, whatever crashes, lease takeovers and
\* deferrals do to its passes, and no call of any kind precedes the durable record that it
\* may have been dispatched; every later pass reconciles.
DispatchedOnce == \A o \in Ops : calls[o] <= 1 /\ (native[o].reached => op[o].sent)

\* What an Operation reports is what the backend did under its key: nothing the Host
\* reports as failed without effect has, or will have, an effect.
OutcomeIsTrue ==
  \A o \in Ops : IsTerminal(o) =>
    /\ op[o].effect = native[o].effect
    /\ op[o].status = "succeeded" <=> op[o].effect = "complete"
    /\ native[o].reached => native[o].closed

\* Retained private transfer material belongs to an Operation that was never dispatched,
\* and so does an Operation that waits for its inputs: nothing was sent without them.
InputsBeforeDispatch ==
  \A o \in Ops : op[o].transfer \/ op[o].status = "waiting_input" =>
    ~op[o].sent /\ ~native[o].reached /\ calls[o] = 0

\* A settled Operation never changes again and the backend adds nothing to it, although a
\* pass that lost its lease may still hold a result or have a call on the wire.
SettledIsFinal ==
  [][\A o \in Ops : IsTerminal(o) => op'[o] = op[o] /\ native'[o].effect = native[o].effect]_vars

-----------------------------------------------------------------------------
(* The contract, and progress.                                              *)

Contract ==
  INSTANCE OperationContract
    WITH outcome <- [o \in Ops |-> IF IsOpen(o) THEN "open" ELSE op[o].status],
         effect <- [o \in Ops |-> native[o].effect],
         holder <- [u \in Uids |-> res[u].busy]

\* The engine implements the contract: effects of an Operation only between its acceptance
\* and its settlement, one Operation at a time per Resource, a truthful settlement.
KeepsContract == Contract!Spec

\* The backend gives a pass of the Operation a conclusive answer.
Conclude(o) == \E w \in Workers, r \in Conclusive : wk[w].op = o /\ Answer(w, r)

\* An accepted Operation whose backend does not answer "unknown" or "continue" for ever is
\* settled, or waits for its caller to supply private inputs again; another Operation that
\* is never concluded cannot keep the passes from it.
EventuallySettled ==
  \A o \in Ops :
    SF_vars(Conclude(o)) =>
      (IsOpen(o) ~> (IsTerminal(o) \/ op[o].status = "waiting_input"))

-----------------------------------------------------------------------------
(* The inductive invariant behind the safety properties.                    *)

\* What the three acceptance paths may submit.
Submits(rq) ==
  \/ \E k \in Keys, n \in Names, refs \in RefChoices, priv \in PrivChoices :
       rq = CreateRequest(k, n, refs, priv)
  \/ \E k \in Keys, u \in Uids, b \in {rq.base}, refs \in RefChoices, priv \in PrivChoices :
       rq = UpdateRequest(k, u, b, refs, priv)
  \/ \E k \in Keys, u \in Uids, b \in {rq.base} : rq = DeleteRequest(k, u, b)

ClientsSubmit == \A c \in Clients : cl[c] # None => Submits(cl[c])

PassesHaveOperations == \A w \in Workers : wk[w].pc # "idle" => wk[w].op \in Ops

\* Before the mark nothing has reached the backend, and its statuses tell: an Operation that
\* is queued, running or waiting, or has transfer material, is not marked.  A complete
\* effect leaves the backend nothing to add.
SendsRecorded ==
  \A o \in Ops :
    /\ op[o].status \in {"absent", "queued", "running", "waiting_input"} => ~op[o].sent
    /\ op[o].transfer => ~op[o].sent
    /\ ~op[o].sent => ~native[o].reached /\ calls[o] = 0
    /\ ~native[o].reached => native[o].effect = "none" /\ ~native[o].closed
    /\ native[o].effect = "complete" => native[o].closed

\* A pass past the mark finds it recorded, past the call that it reached the backend.
PassesFollowMark ==
  \A w \in Workers :
    /\ wk[w].pc \in {"own", "call", "reply", "settle"} => op[wk[w].op].sent
    /\ wk[w].pc \in {"reply", "settle"} => native[wk[w].op].reached

WillExecute(w) == wk[w].pc \in {"own", "call"} /\ ~wk[w].must

\* Who is about to execute is the only one, and nobody has done so before.
ExecutesFirst ==
  /\ \A o \in Ops : calls[o] <= 1
  /\ \A w \in Workers : WillExecute(w) =>
       /\ calls[wk[w].op] = 0
       /\ \A v \in Workers \ {w} : WillExecute(v) => wk[v].op # wk[w].op

\* A conclusive answer in the hands of a pass is the backend's last word.
AnswersStand ==
  \A w \in Workers : wk[w].pc = "settle" /\ wk[w].result \in Conclusive =>
    /\ native[wk[w].op].closed
    /\ native[wk[w].op].effect = Outcome(wk[w].result).effect

SettledTruly ==
  \A o \in Ops : IsTerminal(o) =>
    /\ op[o].effect = native[o].effect
    /\ op[o].status = "succeeded" <=> op[o].effect = "complete"
    /\ op[o].sent => native[o].closed
    /\ op[o].lease = None

HostInv ==
  /\ TypeOK
  /\ LedgerInv
  /\ ClientsSubmit
  /\ PassesHaveOperations
  /\ SendsRecorded
  /\ PassesFollowMark
  /\ ExecutesFirst
  /\ AnswersStand
  /\ SettledTruly

=============================================================================

---------------------------- MODULE QueueCustody ----------------------------
(***************************************************************************)
(* Delivery of one Queue to its v2 Consumer: the custody of messages,      *)
(* leases and dead letters (src/queue-custody.ts), the execution that      *)
(* stands for one batch (migrations 0082 and 0083,                         *)
(* takoform-v2/worker-queue-delivery.ts), the delivery that drives it      *)
(* (selfhost-v2-queue-composition.ts), the Operations that attach, change  *)
(* and detach the Consumer (takoform-v2/worker-queue-consumer-backend.ts)  *)
(* and the wake of the dead-letter Queue                                   *)
(* (takoform-v2/worker-queue-scheduler.ts).                                *)
(*                                                                         *)
(* One SQL batch is one step.  There is no clock: a lease, a reservation   *)
(* or a message may count as expired in any statement and as unexpired in  *)
(* the next, as it does when the wall clock steps back.  One statement     *)
(* batch sees one time.  What holds here rests on no deadline.             *)
(***************************************************************************)
EXTENDS Naturals, FiniteSets

CONSTANTS
  Messages,       \* messages of the Queue; also the name of a dead-letter copy
  Batches,        \* batch ids; one also stands for the lease token bound to it
  Consumers,      \* uids of Consumer Resources
  Policies,       \* accepted delivery policies
  MaxRetries,     \* a policy's maxRetries
  DeadLetter,     \* the policies that name a dead-letter Queue
  MaxConcurrency, \* executions of a Consumer at a time
  MaxOperations,  \* bound on creates and updates of Consumers, and on a generation
  None

ASSUME QueueAssumption ==
  /\ MaxRetries \in [Policies -> Nat]
  /\ DeadLetter \subseteq Policies
  /\ MaxConcurrency \in Nat /\ MaxOperations \in Nat
  /\ None \notin Batches \cup Consumers \cup Policies

VARIABLES
  msg,       \* selfhost_queue_messages, and what became of a removed one
  custody,   \* the Queue's row of queue_consumer_custody
  exec,      \* queue_v2_batch_executions
  receipt,   \* queue_v2_batch_settlements
  notices,   \* queue_custody_transfer_notices
  copies,    \* dead-letter copies whose target delivery has not settled them
  driver,    \* progress of the deliverOnce call of each batch
  native,    \* the handler a batch was sent to
  consumer,  \* the Consumer Resource and the Operation it is busy with
  accepted,  \* succeeded create and update Operations of Consumers
  pass,      \* progress of the backend's run of the current Operation
  wakes,     \* notices whose target delivery this process has scheduled
  seen       \* copies that existed when some wake of their Queue was scheduled

vars == <<msg, custody, exec, receipt, notices, copies, driver, native, consumer, accepted,
          pass, wakes, seen>>

hostVars == <<consumer, accepted, pass>>
wakeVars == <<copies, wakes, seen>>

Generations == 0..MaxOperations
Unsent == {"reserved", "registered"}
Open == Unsent \cup {"send_authorized"}
Fates == {"acked", "dead", "dropped", "expired"}
Drivers == {"idle", "reserved", "claimed", "authorized", "sent", "ack", "retry", "done"}

TypeOK ==
  /\ msg \in [Messages -> [state: {"none", "queued"} \cup Fates, deliveries: Nat,
                           lease: Batches \cup {None}]]
  /\ custody \in [state: {"none", "active", "retiring", "tombstone"}, generation: Generations,
                  consumer: Consumers \cup {None}, policy: Policies \cup {None}]
  /\ exec \in [Batches -> [state: Open \cup {"none", "pre_effect_refused", "retired"},
                           consumer: Consumers \cup {None}, generation: Generations,
                           policy: Policies \cup {None}, claims: SUBSET Messages]]
  /\ receipt \in [Batches -> [Messages -> {"none", "pending", "ack", "retry"}]]
  /\ notices \subseteq [consumer: Consumers, generation: Generations, copy: Messages]
  /\ copies \subseteq [message: Messages, generation: Generations]
  /\ driver \in [Batches -> Drivers]
  /\ native \in [Batches -> {"none", "running", "ended"}]
  /\ consumer \in [uid: Consumers \cup {None}, generation: Generations,
                   policy: Policies \cup {None}, busy: {"idle", "create", "update", "delete"}]
  /\ accepted \subseteq [uid: Consumers, generation: Generations, policy: Policies]
  /\ pass \in {"none", "cancel", "refund", "row", "reap", "final"}
  /\ wakes \subseteq [consumer: Consumers, generation: Generations, copy: Messages]
  /\ seen \subseteq Messages

NoConsumer == [uid |-> None, generation |-> 0, policy |-> None, busy |-> "idle"]

Init ==
  /\ msg = [m \in Messages |-> [state |-> "none", deliveries |-> 0, lease |-> None]]
  /\ custody = [state |-> "none", generation |-> 0, consumer |-> None, policy |-> None]
  /\ exec = [b \in Batches |-> [state |-> "none", consumer |-> None, generation |-> 0,
                                policy |-> None, claims |-> {}]]
  /\ receipt = [b \in Batches |-> [m \in Messages |-> "none"]]
  /\ notices = {} /\ copies = {} /\ wakes = {} /\ seen = {}
  /\ driver = [b \in Batches |-> "idle"]
  /\ native = [b \in Batches |-> "none"]
  /\ consumer = NoConsumer
  /\ accepted = {}
  /\ pass = "none"

-----------------------------------------------------------------------------
(* Custody of messages.                                                     *)

Queued == {m \in Messages : msg[m].state = "queued"}
Unleased == {m \in Queued : msg[m].lease = None}
LeasedBy(b) == {m \in Queued : msg[m].lease = b}

\* The custody row still is the one a batch was reserved under.
OwnGeneration(b, states) ==
  /\ custody.state \in states
  /\ custody.consumer = exec[b].consumer /\ custody.generation = exec[b].generation

\* NO_SENT_V2_EXECUTION
NotSent(b) == exec[b].state # "send_authorized"

Limit(policy) == 1 + MaxRetries[policy]

Removed(m, fate) == [msg EXCEPT ![m].state = fate, ![m].lease = None]

\* Faulty variant: the attempt of a batch that was never sent stays counted.
GivenBack(S) ==
  [m \in Messages |-> IF m \in S THEN [msg[m] EXCEPT !.lease = None] ELSE msg[m]]

\* The attempt is taken back: it never left the Host.
Refunded(S) ==
  [m \in Messages |->
     IF m \in S THEN [msg[m] EXCEPT !.deliveries = IF @ > 0 THEN @ - 1 ELSE 0, !.lease = None]
                ELSE msg[m]]

\* The notice of a generation's newest transfer replaces the one before.
Noticed(m) ==
  {n \in notices : <<n.consumer, n.generation>> # <<custody.consumer, custody.generation>>}
    \cup {[consumer |-> custody.consumer, generation |-> custody.generation, copy |-> m]}

\* terminalLeaseStatements: one batch moves the message, notices and deletes.
Terminal(m) ==
  IF custody.policy \in DeadLetter
  THEN /\ msg' = Removed(m, "dead")
       /\ copies' = copies \cup {[message |-> m, generation |-> custody.generation]}
       /\ notices' = Noticed(m)
  ELSE /\ msg' = Removed(m, "dropped")
       /\ UNCHANGED <<copies, notices>>

Retried(m) ==
  /\ msg' = [msg EXCEPT ![m].lease = None]
  /\ UNCHANGED <<copies, notices>>

\* The two ends of a delivery that did not succeed.
RetryOrTerminal(m) ==
  IF msg[m].deliveries < Limit(custody.policy) THEN Retried(m) ELSE Terminal(m)

Admit(m) ==
  /\ msg[m].state = "none"
  /\ msg' = [msg EXCEPT ![m].state = "queued"]
  /\ UNCHANGED <<custody, exec, receipt, notices, driver, native, hostVars, wakeVars>>

\* reapExpiredLeases runs in the claim of some delivery, whose own reservation
\* then comes to nothing and is left out, or in a pass that retires.
Reaping(b) ==
  /\ OwnGeneration(b, {"active", "retiring"})
  /\ custody.state = "active" \/ pass = "reap"

ReapUnsent(m) ==
  LET b == msg[m].lease IN
  /\ m \in Queued /\ b # None /\ Reaping(b)
  /\ exec[b].state \in Unsent
  /\ exec' = [exec EXCEPT ![b].state = "pre_effect_refused"]
  /\ msg' = Refunded({m})
  /\ UNCHANGED <<custody, receipt, notices, driver, native, hostVars, wakeVars>>

ReapRefused(m) ==
  LET b == msg[m].lease IN
  /\ m \in Queued /\ b # None /\ Reaping(b)
  /\ exec[b].state = "pre_effect_refused"
  /\ msg' = Refunded({m})
  /\ UNCHANGED <<custody, exec, receipt, notices, driver, native, hostVars, wakeVars>>

\* Faulty variant: an expired lease is proof that the handler is gone.
MaybeSent(b) == exec[b].state \in {"send_authorized", "retired"}

\* Expired delivery time is no proof that the handler is gone; its receipt is.
HandlerGone(b) == exec[b].state = "retired"

ReapRetired(m) ==
  LET b == msg[m].lease IN
  /\ m \in Queued /\ b # None /\ Reaping(b)
  /\ HandlerGone(b)
  /\ RetryOrTerminal(m)
  /\ UNCHANGED <<custody, exec, receipt, driver, native, hostVars, wakes, seen>>

\* sweepExpired, and the retention branches of the reaper and of the window.
Sweep(m) ==
  /\ m \in Queued
  /\ msg[m].lease # None => NotSent(msg[m].lease)
  /\ msg' = Removed(m, "expired")
  /\ UNCHANGED <<custody, exec, receipt, notices, driver, native, hostVars, wakeVars>>

\* progressActiveWindow: a policy with fewer retries ends what waits.
ProgressWindow(m) ==
  /\ m \in Unleased /\ custody.state = "active"
  /\ msg[m].deliveries >= Limit(custody.policy)
  /\ Terminal(m)
  /\ UNCHANGED <<custody, exec, receipt, driver, native, hostVars, wakes, seen>>

-----------------------------------------------------------------------------
(* claimRegisteredBatch and deliverOnce.                                    *)

Goes(b, pc) == driver' = [driver EXCEPT ![b] = pc]

\* The Consumer is idle and attached under the policy it had.
Attached(c, policy) == consumer.uid = c /\ consumer.busy = "idle" /\ consumer.policy = policy

OpenOf(c) == {b \in Batches : exec[b].consumer = c /\ exec[b].state \in Open}

\* What the delivery read before is proved again by the reserve guard.
Reserve(b) ==
  /\ driver[b] = "idle"
  /\ custody.state = "active" /\ Attached(custody.consumer, custody.policy)
  /\ Cardinality(OpenOf(custody.consumer)) < MaxConcurrency
  /\ exec' = [exec EXCEPT ![b] = [state |-> "reserved", consumer |-> custody.consumer,
                                  generation |-> custody.generation, policy |-> custody.policy,
                                  claims |-> {}]]
  /\ Goes(b, "reserved")
  /\ UNCHANGED <<msg, custody, receipt, notices, native, hostVars, wakeVars>>

\* A later delivery refuses reservations that are overdue, without a refund.
ExpireReservation(b) ==
  /\ exec[b].state \in Unsent /\ custody.state = "active"
  /\ Attached(exec[b].consumer, custody.policy)
  /\ exec' = [exec EXCEPT ![b].state = "pre_effect_refused"]
  /\ UNCHANGED <<msg, custody, receipt, notices, driver, native, hostVars, wakeVars>>

\* The lease token is bound and the messages leased in one batch; when the
\* acknowledgement is lost the delivery can only cancel.
Claim(b, S) ==
  /\ driver[b] = "reserved" /\ exec[b].state = "reserved"
  /\ OwnGeneration(b, {"active"}) /\ Attached(exec[b].consumer, exec[b].policy)
  /\ exec[b].claims = {}
  /\ S # {} /\ S \subseteq {m \in Unleased : msg[m].deliveries < Limit(custody.policy)}
  /\ msg' = [m \in Messages |->
               IF m \in S THEN [msg[m] EXCEPT !.deliveries = @ + 1, !.lease = b] ELSE msg[m]]
  /\ exec' = [exec EXCEPT ![b].claims = S]
  /\ \E pc \in {"claimed", "reserved"} : Goes(b, pc)
  /\ UNCHANGED <<custody, receipt, notices, native, hostVars, wakeVars>>

\* registerSettlementBatch, all or none; a lost acknowledgement is read back.
Register(b) ==
  /\ driver[b] = "claimed" /\ exec[b].state = "reserved"
  /\ exec[b].claims \subseteq LeasedBy(b)
  /\ OwnGeneration(b, {"active", "retiring"})
  /\ exec' = [exec EXCEPT ![b].state = "registered"]
  /\ receipt' = [receipt EXCEPT ![b] = [m \in Messages |->
                   IF m \in exec[b].claims THEN "pending" ELSE @[m]]]
  /\ UNCHANGED <<msg, custody, notices, driver, native, hostVars, wakeVars>>

\* authorizeV2QueueBatchSend; after a lost acknowledgement nothing is sent.
AuthorizeSend(b) ==
  /\ driver[b] = "claimed" /\ exec[b].state = "registered"
  /\ OwnGeneration(b, {"active"}) /\ Attached(exec[b].consumer, exec[b].policy)
  /\ exec' = [exec EXCEPT ![b].state = "send_authorized"]
  /\ \E pc \in {"authorized", "done"} : Goes(b, pc)
  /\ UNCHANGED <<msg, custody, receipt, notices, native, hostVars, wakeVars>>

\* The one event the native child is given.
Send(b) ==
  /\ driver[b] = "authorized" /\ native[b] = "none"
  /\ native' = [native EXCEPT ![b] = "running"]
  /\ Goes(b, "sent")
  /\ UNCHANGED <<msg, custody, exec, receipt, notices, hostVars, wakeVars>>

\* The process dies, the response is lost or the rest of the work fails.
Abandon(b) ==
  /\ driver[b] \notin {"idle", "done"}
  /\ Goes(b, "done")
  /\ UNCHANGED <<msg, custody, exec, receipt, notices, native, hostVars, wakeVars>>

\* cancelV2QueueBatchBeforeSend: refused now or before, what it leased comes back.
Cancelled(b) ==
  /\ exec[b].state \in Unsent \cup {"pre_effect_refused"}
  /\ exec' = [exec EXCEPT ![b].state = "pre_effect_refused"]
  /\ msg' = Refunded(LeasedBy(b))

\* A check fails or a call throws on the way to the send.
CancelBeforeSend(b) ==
  /\ driver[b] \in {"reserved", "claimed"} /\ Cancelled(b)
  /\ Goes(b, "done")
  /\ UNCHANGED <<custody, receipt, notices, native, hostVars, wakeVars>>

\* refuseQueueReservationsBeforeFirstDelivery: the Host that made the
\* reservation may still be running.
RefuseAtBoot(b) ==
  /\ exec[b].state \in Unsent /\ Cancelled(b)
  /\ UNCHANGED <<custody, receipt, notices, driver, native, hostVars, wakeVars>>

-----------------------------------------------------------------------------
(* The handler, its settlements and the retirement of its execution.        *)

HandlerEnds(b) ==
  /\ native[b] = "running"
  /\ native' = [native EXCEPT ![b] = "ended"]
  /\ IF driver[b] = "sent" THEN \E pc \in {"ack", "retry"} : Goes(b, pc) ELSE UNCHANGED driver
  /\ UNCHANGED <<msg, custody, exec, receipt, notices, hostVars, wakeVars>>

\* Faulty variant: the message is found by its id, whatever its lease.
StillQueued(b, m) == m \in Queued /\ receipt[b][m] = "pending"

\* The receipt's message still has the lease, attempts and policy it was registered with.
StillLeased(b, m) == m \in LeasedBy(b) /\ receipt[b][m] = "pending"

\* settleBatchMessage with the guards of migrations 0082 and 0083.
Settle(b, m, outcome) ==
  /\ StillLeased(b, m)
  /\ exec[b].state \in {"send_authorized", "retired"}
  /\ OwnGeneration(b, {"active", "retiring"})
  /\ receipt' = [receipt EXCEPT ![b][m] = outcome]
  /\ IF outcome = "ack"
     THEN msg' = Removed(m, "acked") /\ UNCHANGED <<copies, notices>>
     ELSE RetryOrTerminal(m)

\* A call of the tenant's code, which may arrive late.
TenantSettles(b, m, outcome) ==
  /\ native[b] # "none"
  /\ Settle(b, m, outcome)
  /\ UNCHANGED <<custody, exec, driver, native, hostVars, wakes, seen>>

\* confirmV2QueueBatchRetirement by the handler's receipt ...
RetireByReceipt(b) ==
  /\ driver[b] \in {"ack", "retry"} /\ exec[b].state = "send_authorized"
  /\ exec' = [exec EXCEPT ![b].state = "retired"]
  /\ UNCHANGED <<msg, custody, receipt, notices, driver, native, hostVars, wakeVars>>

\* ... after which settleDefaults settles what the tenant left pending.
DefaultSettles(b, m) ==
  /\ driver[b] \in {"ack", "retry"} /\ exec[b].state = "retired"
  /\ Settle(b, m, driver[b])
  /\ UNCHANGED <<custody, exec, driver, native, hostVars, wakes, seen>>

\* retireOnlyIfPhysicallyAbsent: the child is gone with whatever it ran or was
\* to run, and a remembered receipt is forgotten.
RetireAbsent(b) ==
  /\ exec[b].state = "send_authorized"
  /\ exec' = [exec EXCEPT ![b].state = "retired"]
  /\ native' = [native EXCEPT ![b] = IF @ = "running" THEN "ended" ELSE @]
  /\ Goes(b, "done")
  /\ UNCHANGED <<msg, custody, receipt, notices, hostVars, wakeVars>>

-----------------------------------------------------------------------------
(* Operations on the Consumer.  A pass that stops anywhere starts again.    *)

Used == {a.uid : a \in accepted}

Starts(action) == pass' = IF action = "create" THEN "row" ELSE "cancel"

\* Each Operation takes the Consumer's next generation.
Accept(c, action, policy, generation) ==
  /\ consumer' = [uid |-> c, generation |-> generation, policy |-> policy, busy |-> action]
  /\ Starts(action)
  /\ UNCHANGED <<msg, custody, exec, receipt, notices, driver, native, accepted, wakeVars>>

\* The creates and updates so far; a delete is bounded by its generation.
Accepted == Cardinality(accepted) + (IF consumer.busy # "idle" THEN 1 ELSE 0)

AcceptCreate(c, policy) ==
  /\ consumer.uid = None /\ c \notin Used /\ Accepted < MaxOperations
  /\ Accept(c, "create", policy, 1)

AcceptUpdate(policy) ==
  /\ consumer.uid # None /\ consumer.busy = "idle" /\ Accepted < MaxOperations
  /\ Accept(consumer.uid, "update", policy, consumer.generation + 1)

AcceptDelete ==
  /\ consumer.uid # None /\ consumer.busy = "idle" /\ consumer.generation < MaxOperations
  /\ Accept(consumer.uid, "delete", consumer.policy, consumer.generation + 1)

OpCancelUnsent ==
  /\ pass = "cancel"
  /\ exec' = [b \in Batches |->
                IF exec[b].consumer = consumer.uid /\ exec[b].state \in Unsent
                THEN [exec[b] EXCEPT !.state = "pre_effect_refused"] ELSE exec[b]]
  /\ pass' = "refund"
  /\ UNCHANGED <<msg, custody, receipt, notices, driver, native, consumer, accepted, wakeVars>>

OpRefund ==
  LET refused == {b \in Batches : /\ exec[b].consumer = consumer.uid
                                  /\ exec[b].state = "pre_effect_refused"}
      leased == UNION {LeasedBy(b) : b \in refused}
  IN
  /\ pass = "refund"
  /\ msg' = Refunded(leased)
  /\ pass' = IF leased # {} THEN "cancel" ELSE "row"
  /\ UNCHANGED <<custody, exec, receipt, notices, driver, native, consumer, accepted, wakeVars>>

SamePolicy == custody.policy = consumer.policy

\* create: the Queue's first generation, or the one after a tombstone.
OpAttach ==
  /\ pass = "row" /\ consumer.busy = "create"
  /\ \/ /\ custody.state \in {"none", "tombstone"}
        /\ Queued = Unleased /\ OpenOf(consumer.uid) = {}
        /\ custody' = [state |-> "active", generation |-> custody.generation + 1,
                       consumer |-> consumer.uid, policy |-> consumer.policy]
     \/ /\ custody.state = "active" /\ custody.consumer = consumer.uid /\ SamePolicy
        /\ UNCHANGED custody
  /\ pass' = "final"
  /\ UNCHANGED <<msg, exec, receipt, notices, driver, native, consumer, accepted, wakeVars>>

\* update and delete: what is done already, or the start of a retirement.
OpBegin ==
  /\ pass = "row" /\ consumer.busy \in {"update", "delete"}
  /\ custody.consumer = consumer.uid
  /\ \/ /\ consumer.busy = "update" /\ custody.state = "active" /\ SamePolicy
        /\ pass' = "final" /\ UNCHANGED custody
     \/ /\ consumer.busy = "delete" /\ custody.state = "tombstone"
        /\ pass' = "final" /\ UNCHANGED custody
     \/ /\ custody.state \in {"active", "retiring"}
        /\ ~(consumer.busy = "update" /\ custody.state = "active" /\ SamePolicy)
        /\ pass' = "reap" /\ custody' = [custody EXCEPT !.state = "retiring"]
  /\ UNCHANGED <<msg, exec, receipt, notices, driver, native, consumer, accepted, wakeVars>>

\* Faulty variant: a retirement waits for leases and notices only.
NoLeaseOrNotice ==
  /\ \A m \in Queued : msg[m].lease # None => ~OwnGeneration(msg[m].lease, {"retiring"})
  /\ \A n \in notices : <<n.consumer, n.generation>> # <<custody.consumer, custody.generation>>

\* No lease, no notice and no open execution is left of the generation.
Drained == NoLeaseOrNotice /\ OpenOf(consumer.uid) = {}

\* Faulty variant: a deletion takes a generation of its own.
NextTombstone == [custody EXCEPT !.state = "tombstone", !.generation = @ + 1]

Tombstone == [custody EXCEPT !.state = "tombstone"]

OpFinish ==
  /\ pass = "reap"
  /\ IF custody.state = "retiring" /\ Drained
     THEN /\ custody' = IF consumer.busy = "update"
                        THEN [state |-> "active", generation |-> custody.generation + 1,
                              consumer |-> consumer.uid, policy |-> consumer.policy]
                        ELSE Tombstone
          /\ pass' = "final"
     ELSE pass' = "cancel" /\ UNCHANGED custody
  /\ UNCHANGED <<msg, exec, receipt, notices, driver, native, consumer, accepted, wakeVars>>

\* The pass reports what the custody row shows, and the Operation succeeds.
OpComplete ==
  /\ pass = "final"
  /\ custody.consumer = consumer.uid
  /\ IF consumer.busy = "delete" THEN custody.state = "tombstone"
                                 ELSE custody.state = "active" /\ SamePolicy
  /\ IF consumer.busy = "delete"
     THEN consumer' = NoConsumer /\ UNCHANGED accepted
     ELSE /\ consumer' = [consumer EXCEPT !.busy = "idle"]
          /\ accepted' = accepted \cup {[uid |-> consumer.uid, generation |-> consumer.generation,
                                         policy |-> consumer.policy]}
  /\ pass' = "none"
  /\ UNCHANGED <<msg, custody, exec, receipt, notices, driver, native, wakeVars>>

PassStops ==
  /\ pass \notin {"none", "cancel"} /\ Starts(consumer.busy) /\ pass' # pass
  /\ UNCHANGED <<msg, custody, exec, receipt, notices, driver, native, consumer, accepted,
                 wakeVars>>

-----------------------------------------------------------------------------
(* wakeTransfers.  The Consumer of the dead-letter Queue is external: it     *)
(* may settle a copy at any time.                                           *)

\* The notice's generation is looked up among the generations of Operations.
Attributable(n) ==
  \E a \in accepted : /\ a.uid = n.consumer /\ a.generation = n.generation
                      /\ a.policy \in DeadLetter

Present(m) == \E k \in copies : k.message = m

TargetSettles(m) ==
  /\ Present(m)
  /\ copies' = {k \in copies : k.message # m}
  /\ UNCHANGED <<msg, custody, exec, receipt, notices, driver, native, hostVars, wakes, seen>>

\* A settled receipt of the newest copy is proof that its Queue was looked at.
WakeSettled(n) ==
  /\ n \in notices /\ Attributable(n) /\ ~Present(n.copy)
  /\ notices' = notices \ {n}
  /\ seen' = seen \cup {k.message : k \in {o \in copies : o.generation = n.generation}}
  /\ UNCHANGED <<msg, custody, exec, receipt, driver, native, hostVars, copies, wakes>>

WakeSchedule(n) ==
  /\ n \in notices \ wakes /\ Attributable(n) /\ Present(n.copy)
  /\ wakes' = wakes \cup {n}
  /\ seen' = seen \cup {k.message : k \in copies}
  /\ UNCHANGED <<msg, custody, exec, receipt, notices, driver, native, hostVars, copies>>

\* acknowledgeTransferNotice: by the token that was read.
Acknowledge(n) == notices \ {n}

\* The scheduled delivery ends: acknowledged when its outcome is known.
WakeDone(n) ==
  /\ n \in wakes
  /\ wakes' = wakes \ {n}
  /\ \/ notices' = Acknowledge(n)
     \/ UNCHANGED notices
  /\ UNCHANGED <<msg, custody, exec, receipt, driver, native, hostVars, copies, seen>>

-----------------------------------------------------------------------------

MessageSteps(m) ==
  \/ Admit(m)
  \/ ReapUnsent(m)
  \/ ReapRefused(m)
  \/ ReapRetired(m)
  \/ Sweep(m)
  \/ ProgressWindow(m)
  \/ TargetSettles(m)

DeliverySteps(b) ==
  \/ Reserve(b)
  \/ ExpireReservation(b)
  \/ \E S \in SUBSET Messages : Claim(b, S)
  \/ Register(b)
  \/ AuthorizeSend(b)
  \/ Send(b)
  \/ Abandon(b)
  \/ CancelBeforeSend(b)
  \/ RefuseAtBoot(b)
  \/ HandlerEnds(b)
  \/ \E m \in Messages, outcome \in {"ack", "retry"} : TenantSettles(b, m, outcome)
  \/ \E m \in Messages : DefaultSettles(b, m)
  \/ RetireByReceipt(b)
  \/ RetireAbsent(b)

ConsumerSteps ==
  \/ \E c \in Consumers, p \in Policies : AcceptCreate(c, p)
  \/ \E p \in Policies : AcceptUpdate(p)
  \/ AcceptDelete
  \/ OpCancelUnsent
  \/ OpRefund
  \/ OpAttach
  \/ OpBegin
  \/ OpFinish
  \/ OpComplete
  \/ PassStops

TransferSteps ==
  \/ \E n \in notices : WakeSettled(n) \/ WakeSchedule(n)
  \/ \E n \in wakes : WakeDone(n)

Next ==
  \/ \E m \in Messages : MessageSteps(m)
  \/ \E b \in Batches : DeliverySteps(b)
  \/ ConsumerSteps
  \/ TransferSteps

Spec == Init /\ [][Next]_vars

-----------------------------------------------------------------------------
(* Properties.                                                              *)

\* The executions that may have delivered a message.
Delivered(m) ==
  {b \in Batches : m \in exec[b].claims /\ exec[b].state \in {"send_authorized", "retired"}}

\* deliveries counts exactly the attempts that may have reached the tenant and
\* the one under way: no path (cancel, boot, reaper, retirement) gives an
\* attempt back twice, or gives one back that was sent.
AttemptsAccounted ==
  \A m \in Queued :
    msg[m].deliveries =
      Cardinality(Delivered(m))
        + (IF msg[m].lease # None /\ msg[m].lease \notin Delivered(m) THEN 1 ELSE 0)

\* While a handler runs, each message it has not settled stays leased to its
\* batch (or was past its retention before the send): an expired lease, a late
\* settlement of an earlier batch or a retirement never hands it to another.
HandlerKeepsMessages ==
  \A b \in Batches : native[b] = "running" =>
    \A m \in exec[b].claims :
      receipt[b][m] = "pending" => m \in LeasedBy(b) \/ msg[m].state = "expired"

\* An update or delete of a Consumer ends only when no handler of the old
\* generation runs, and no batch of it can still be sent or settled.
OldGenerationsIdle ==
  \A b \in Batches :
    native[b] = "running" \/ exec[b].state \in Open \/ LeasedBy(b) # {} =>
      OwnGeneration(b, {"active", "retiring"})

\* A message is given up only after every delivery its policy permits may have
\* reached the tenant; reservations that came to nothing do not count.  And a
\* copy in the dead-letter Queue that nobody has looked at since it was made
\* has a notice of its generation: coalescing notices and late
\* acknowledgements never lose the wake of the newest transfer.
GivenUpAfterRetries ==
  /\ [](\A k \in copies :
          k.message \notin seen => \E n \in notices : n.generation = k.generation)
  /\ [][\A m \in Messages :
          msg[m].state = "queued" /\ msg'[m].state \in {"dead", "dropped"} =>
            Cardinality(Delivered(m)) > MaxRetries[custody.policy]]_vars

\* Every notice can be attributed to the Operation whose generation made it, so
\* that the wake of its target can find and acknowledge it.
TransferAttributed == \A n \in notices : Attributable(n)

=============================================================================

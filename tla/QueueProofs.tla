---------------------------- MODULE QueueProofs -----------------------------
(***************************************************************************)
(* Delivery of a Queue, for any messages, batches, Consumers and policies: *)
(* QueueInv is inductive, and the properties of QueueCustody follow.       *)
(***************************************************************************)
EXTENDS QueueCustody, FiniteSetTheorems, TLAPS

\* The phase of the Operation, the Consumer and the custody row fit together.
ConsumerShape ==
  /\ pass = "none" <=> consumer.busy = "idle"
  /\ consumer.uid = None => consumer.busy = "idle"
  /\ consumer.uid # None => consumer.policy \in Policies
  /\ custody.state # "none" => custody.consumer \in Consumers /\ custody.policy \in Policies
  /\ pass = "reap" => custody.consumer = consumer.uid /\ consumer.busy \in {"update", "delete"}

\* The running create or update has put its policy into the custody row.
RowWritten ==
  /\ consumer.busy \in {"create", "update"} /\ custody.state = "active"
  /\ custody.consumer = consumer.uid /\ SamePolicy

\* Every generation, of a Consumer or of the custody row, is that of a create or an update.
GenerationsCounted ==
  /\ IsFiniteSet(accepted) /\ Cardinality(accepted) <= MaxOperations
  /\ consumer.busy \in {"create", "update"} => Cardinality(accepted) < MaxOperations
  /\ \A a \in accepted : a.uid = consumer.uid =>
       a.generation <= consumer.generation /\ (consumer.busy # "idle" => a.generation # consumer.generation)
  /\ consumer.uid # None =>
       consumer.generation <= Cardinality(accepted) + (IF consumer.busy = "idle" THEN 0 ELSE 1)
  /\ \/ custody.generation <= Cardinality(accepted)
     \/ RowWritten /\ custody.generation <= Cardinality(accepted) + 1

\* How far an execution, its driver and its handler may be apart.
BatchShape ==
  \A b \in Batches :
    /\ driver[b] = "idle" => exec[b].state = "none"
    /\ exec[b].state = "none" => exec[b].claims = {}
    /\ driver[b] \in {"authorized", "sent"} => exec[b].state = "send_authorized"
    /\ driver[b] \in {"ack", "retry"} => native[b] = "ended"
    /\ native[b] = "running" => exec[b].state = "send_authorized"
    /\ native[b] # "none" => exec[b].state \in {"send_authorized", "retired"}

\* A lease is that of a batch which claimed the message.
LeaseShape ==
  \A m \in Messages :
    /\ msg[m].state = "none" =>
         /\ msg[m].lease = None /\ msg[m].deliveries = 0
         /\ \A b \in Batches : m \notin exec[b].claims
    /\ msg[m].state = "queued" /\ msg[m].lease # None => m \in exec[msg[m].lease].claims

\* What a batch claimed is leased to it until it settles or expires, from the registration on.
ClaimsLeased ==
  \A b \in Batches : \A m \in exec[b].claims :
    \/ exec[b].state = "registered"
    \/ exec[b].state = "send_authorized" /\ receipt[b][m] = "pending"
    => m \in LeasedBy(b) \/ msg[m].state = "expired"

DeliveredFinite == \A m \in Messages : IsFiniteSet(Delivered(m))

\* A copy that nobody has looked at has a notice of its generation.
CopiesNoticed ==
  \A k \in copies : k.message \notin seen => \E n \in notices : n.generation = k.generation

\* A notice is of a dead message and of one generation's Consumer, and what was scheduled for a
\* notice that still stands has looked at every copy of its generation.
NoticesKept ==
  /\ \A n \in notices \cup wakes :
       /\ msg[n.copy].state = "dead"
       /\ n.generation <= custody.generation
       /\ n.generation = custody.generation => n.consumer = custody.consumer
  /\ \A n \in notices \cap wakes : \A k \in copies : k.generation = n.generation => k.message \in seen

QueueInv ==
  /\ TypeOK
  /\ ConsumerShape
  /\ GenerationsCounted
  /\ BatchShape
  /\ LeaseShape
  /\ ClaimsLeased
  /\ DeliveredFinite
  /\ AttemptsAccounted
  /\ OldGenerationsIdle
  /\ CopiesNoticed
  /\ NoticesKept

-----------------------------------------------------------------------------
(* What a step does to messages, executions and receipts.                   *)

\* Batches that were not sent are refused, and the leases of S come back.
GivesBack(S) ==
  /\ S \subseteq Queued
  /\ \A m \in S :
       /\ msg[m].lease \in Batches
       /\ exec[msg[m].lease].state \in Unsent \cup {"pre_effect_refused"}
       /\ exec'[msg[m].lease].state = "pre_effect_refused"
       /\ msg'[m] = [state |-> "queued", lease |-> None,
                     deliveries |-> IF msg[m].deliveries > 0 THEN msg[m].deliveries - 1 ELSE 0]
  /\ \A m \in Messages \ S : msg'[m] = msg[m]
  /\ \A b \in Batches :
       /\ exec'[b].consumer = exec[b].consumer /\ exec'[b].generation = exec[b].generation
       /\ exec'[b].claims = exec[b].claims
       /\ \/ exec'[b].state = exec[b].state
          \/ exec[b].state \in Unsent /\ exec'[b].state = "pre_effect_refused"
  /\ UNCHANGED receipt

\* One message loses its lease or leaves the Queue.
LetsGo(m) ==
  /\ m \in Queued /\ UNCHANGED exec
  /\ msg'[m].lease = None /\ msg'[m].deliveries = msg[m].deliveries
  /\ msg'[m].state \in {"queued"} \cup Fates
  /\ \A x \in Messages \ {m} : msg'[x] = msg[x]
  /\ \A b \in Batches, x \in Messages :
       receipt'[b][x] = receipt[b][x] \/ (b = msg[m].lease /\ x = m)
  /\ \/ msg'[m].state = "expired" /\ UNCHANGED receipt
     \/ msg[m].lease = None
     \/ /\ msg[m].lease \in Batches
        /\ \/ exec[msg[m].lease].state = "retired"
           \/ exec[msg[m].lease].state = "send_authorized" /\ receipt'[msg[m].lease][m] # "pending"

\* An execution that was sent is retired.
Retires(b) ==
  /\ exec[b].state = "send_authorized"
  /\ exec' = [exec EXCEPT ![b].state = "retired"]
  /\ UNCHANGED <<msg, receipt>>

LEMMA RefundedRecord ==
  ASSUME NEW r \in [state: {"none", "queued"} \cup Fates, deliveries: Nat, lease: Batches \cup {None}],
         NEW new, new = [r EXCEPT !.deliveries = IF @ > 0 THEN @ - 1 ELSE 0, !.lease = None]
  PROVE  new = [state |-> r.state, lease |-> None,
                deliveries |-> IF r.deliveries > 0 THEN r.deliveries - 1 ELSE 0]
OBVIOUS

LEMMA RefundedPointwise ==
  ASSUME TypeOK, NEW S \in SUBSET Queued, msg' = Refunded(S)
  PROVE  /\ \A m \in S :
              msg'[m] = [state |-> "queued", lease |-> None,
                         deliveries |-> IF msg[m].deliveries > 0 THEN msg[m].deliveries - 1 ELSE 0]
         /\ \A m \in Messages \ S : msg'[m] = msg[m]
<1> USE DEF TypeOK, Queued
<1>1. \A m \in Messages \ S : msg'[m] = msg[m]
  BY DEF Refunded
<1>2. ASSUME NEW m \in S
      PROVE  msg'[m] = [state |-> "queued", lease |-> None,
                        deliveries |-> IF msg[m].deliveries > 0 THEN msg[m].deliveries - 1 ELSE 0]
  <2>1. m \in Messages /\ msg[m].state = "queued"
    OBVIOUS
  <2>2. msg'[m] = [msg[m] EXCEPT !.deliveries = IF @ > 0 THEN @ - 1 ELSE 0, !.lease = None]
    BY <2>1 DEF Refunded
  <2>3. msg[m] \in [state: {"none", "queued"} \cup Fates, deliveries: Nat, lease: Batches \cup {None}]
    BY <2>1
  <2>. HIDE DEF TypeOK, Queued
  <2>4. msg'[m] = [state |-> msg[m].state, lease |-> None,
                   deliveries |-> IF msg[m].deliveries > 0 THEN msg[m].deliveries - 1 ELSE 0]
    BY <2>2, <2>3, RefundedRecord
  <2>. QED
    BY <2>1, <2>4
<1>. QED
  BY <1>1, <1>2

LEMMA GivenBackQueued ==
  ASSUME NEW S, GivesBack(S), NEW m \in Messages
  PROVE  msg'[m] = msg[m] \/ (msg'[m].state = "queued" /\ msg'[m].lease = None)
<1>1. CASE m \notin S
  BY <1>1 DEF GivesBack
<1>2. CASE m \in S
  <2>1. msg'[m] = [state |-> "queued", lease |-> None,
                   deliveries |-> IF msg[m].deliveries > 0 THEN msg[m].deliveries - 1 ELSE 0]
    BY <1>2 DEF GivesBack
  <2>. QED
    BY <2>1
<1>. QED
  BY <1>1, <1>2

LEMMA CancelledGivesBack ==
  ASSUME TypeOK, NEW b \in Batches, Cancelled(b), UNCHANGED receipt
  PROVE  GivesBack(LeasedBy(b))
<1>1. LeasedBy(b) \subseteq Queued /\ msg' = Refunded(LeasedBy(b))
  BY DEF LeasedBy, Cancelled
<1>2. /\ \A m \in LeasedBy(b) :
           msg'[m] = [state |-> "queued", lease |-> None,
                      deliveries |-> IF msg[m].deliveries > 0 THEN msg[m].deliveries - 1 ELSE 0]
      /\ \A m \in Messages \ LeasedBy(b) : msg'[m] = msg[m]
  BY <1>1, RefundedPointwise
<1>3. \A m \in LeasedBy(b) : msg[m].lease = b
  BY DEF LeasedBy
<1>4. /\ exec[b].state \in Unsent \cup {"pre_effect_refused"}
      /\ exec' = [exec EXCEPT ![b].state = "pre_effect_refused"]
  BY DEF Cancelled
<1>5. \A x \in Batches :
       /\ exec'[x].consumer = exec[x].consumer /\ exec'[x].generation = exec[x].generation
       /\ exec'[x].claims = exec[x].claims
       /\ \/ exec'[x].state = exec[x].state
          \/ exec[x].state \in Unsent /\ exec'[x].state = "pre_effect_refused"
  BY <1>4 DEF TypeOK
<1>6. exec'[b].state = "pre_effect_refused"
  BY <1>4 DEF TypeOK
<1>. QED
  BY <1>1, <1>2, <1>3, <1>4, <1>5, <1>6 DEF GivesBack

LEMMA ReapGivesBack ==
  ASSUME TypeOK, NEW m \in Messages, ReapUnsent(m) \/ ReapRefused(m)
  PROVE  GivesBack({m})
<1> DEFINE b == msg[m].lease
<1>1. /\ m \in Queued /\ b \in Batches /\ msg' = Refunded({m}) /\ UNCHANGED receipt
      /\ exec[b].state \in Unsent \cup {"pre_effect_refused"}
  BY DEF TypeOK, ReapUnsent, ReapRefused
<1>2. \/ exec' = [exec EXCEPT ![b].state = "pre_effect_refused"]
      \/ exec' = exec /\ exec[b].state = "pre_effect_refused"
  BY DEF ReapUnsent, ReapRefused
<1>3. /\ \A x \in {m} :
           msg'[x] = [state |-> "queued", lease |-> None,
                      deliveries |-> IF msg[x].deliveries > 0 THEN msg[x].deliveries - 1 ELSE 0]
      /\ \A x \in Messages \ {m} : msg'[x] = msg[x]
  BY <1>1, RefundedPointwise
<1>4. exec \in [Batches -> [state: Open \cup {"none", "pre_effect_refused", "retired"},
                           consumer: Consumers \cup {None}, generation: Generations,
                           policy: Policies \cup {None}, claims: SUBSET Messages]]
  BY DEF TypeOK
<1>. HIDE DEF b
<1>5. \A x \in Batches :
       /\ exec'[x].consumer = exec[x].consumer /\ exec'[x].generation = exec[x].generation
       /\ exec'[x].claims = exec[x].claims
       /\ \/ exec'[x].state = exec[x].state
          \/ exec[x].state \in Unsent /\ exec'[x].state = "pre_effect_refused"
  <2>1. CASE exec' = exec
    BY <2>1
  <2>2. CASE exec' = [exec EXCEPT ![b].state = "pre_effect_refused"]
    BY <2>2, <1>1, <1>4
  <2>. QED
    BY <2>1, <2>2, <1>2
<1>6. exec'[b].state = "pre_effect_refused"
  BY <1>1, <1>2, <1>4
<1>. QED
  BY <1>1, <1>3, <1>5, <1>6 DEF GivesBack, b

LEMMA OperationGivesBack ==
  ASSUME TypeOK, OpRefund \/ OpCancelUnsent
  PROVE  \E S \in SUBSET Messages : GivesBack(S)
<1>1. CASE OpRefund
  <2> DEFINE refused == {b \in Batches : /\ exec[b].consumer = consumer.uid
                                         /\ exec[b].state = "pre_effect_refused"}
             leased == UNION {LeasedBy(b) : b \in refused}
  <2>1. leased \subseteq Queued /\ leased \subseteq Messages
    BY DEF LeasedBy, Queued
  <2>2. msg' = Refunded(leased) /\ UNCHANGED <<exec, receipt>>
    BY <1>1 DEF OpRefund
  <2>3. \A m \in leased : msg[m].lease \in Batches /\ exec[msg[m].lease].state = "pre_effect_refused"
    BY DEF LeasedBy
  <2>. HIDE DEF leased
  <2>4. /\ \A m \in leased :
             msg'[m] = [state |-> "queued", lease |-> None,
                        deliveries |-> IF msg[m].deliveries > 0 THEN msg[m].deliveries - 1 ELSE 0]
        /\ \A m \in Messages \ leased : msg'[m] = msg[m]
    BY <2>1, <2>2, RefundedPointwise
  <2>5. GivesBack(leased)
    BY <2>1, <2>2, <2>3, <2>4 DEF GivesBack
  <2>. QED
    BY <2>1, <2>5
<1>2. CASE OpCancelUnsent
  <2>1. /\ UNCHANGED <<msg, receipt>>
        /\ exec' = [b \in Batches |->
                IF exec[b].consumer = consumer.uid /\ exec[b].state \in Unsent
                THEN [exec[b] EXCEPT !.state = "pre_effect_refused"] ELSE exec[b]]
    BY <1>2 DEF OpCancelUnsent
  <2>2. \A x \in Batches :
         /\ exec'[x].consumer = exec[x].consumer /\ exec'[x].generation = exec[x].generation
         /\ exec'[x].claims = exec[x].claims
         /\ \/ exec'[x].state = exec[x].state
            \/ exec[x].state \in Unsent /\ exec'[x].state = "pre_effect_refused"
    BY <2>1 DEF TypeOK
  <2>3. GivesBack({})
    BY <2>1, <2>2 DEF GivesBack
  <2>. QED
    BY <2>3
<1>. QED
  BY <1>1, <1>2

LEMMA ExpireGivesBack ==
  ASSUME TypeOK, NEW b \in Batches, ExpireReservation(b)
  PROVE  GivesBack({})
<1>1. /\ UNCHANGED <<msg, receipt>> /\ exec[b].state \in Unsent
      /\ exec' = [exec EXCEPT ![b].state = "pre_effect_refused"]
  BY DEF ExpireReservation
<1>2. \A x \in Batches :
       /\ exec'[x].consumer = exec[x].consumer /\ exec'[x].generation = exec[x].generation
       /\ exec'[x].claims = exec[x].claims
       /\ \/ exec'[x].state = exec[x].state
          \/ exec[x].state \in Unsent /\ exec'[x].state = "pre_effect_refused"
  BY <1>1 DEF TypeOK
<1>. QED
  BY <1>1, <1>2 DEF GivesBack

LEMMA RemovedRecord ==
  ASSUME NEW r \in [state: {"none", "queued"} \cup Fates, deliveries: Nat, lease: Batches \cup {None}],
         NEW fate, NEW q, q = [r EXCEPT !.state = fate], NEW new, new = [q EXCEPT !.lease = None]
  PROVE  new = [state |-> fate, deliveries |-> r.deliveries, lease |-> None]
OBVIOUS

\* How a message leaves: with its fate, or back to the Queue without its lease.
LEMMA RemovedPointwise ==
  ASSUME TypeOK, NEW m \in Messages, NEW fate, msg' = Removed(m, fate)
  PROVE  /\ msg'[m] = [state |-> fate, deliveries |-> msg[m].deliveries, lease |-> None]
         /\ \A x \in Messages \ {m} : msg'[x] = msg[x]
<1> DEFINE moved == [msg EXCEPT ![m].state = fate]
           q == [msg[m] EXCEPT !.state = fate]
           new == [q EXCEPT !.lease = None]
<1>1. msg' = [moved EXCEPT ![m].lease = None]
  BY DEF Removed
<1>2. moved = [x \in Messages |-> moved[x]] /\ moved[m] = q /\ \A x \in Messages \ {m} : moved[x] = msg[x]
  BY DEF TypeOK
<1>3. msg[m] \in [state: {"none", "queued"} \cup Fates, deliveries: Nat, lease: Batches \cup {None}]
  BY DEF TypeOK
<1>4. q = [msg[m] EXCEPT !.state = fate] /\ new = [q EXCEPT !.lease = None]
  OBVIOUS
<1>. HIDE DEF moved, q
<1>5. msg'[m] = new /\ \A x \in Messages \ {m} : msg'[x] = msg[x]
  BY <1>1, <1>2
<1>. HIDE DEF new
<1>6. new = [state |-> fate, deliveries |-> msg[m].deliveries, lease |-> None]
  BY <1>3, <1>4, RemovedRecord
<1>. QED
  BY <1>5, <1>6

LEMMA TerminalPointwise ==
  ASSUME TypeOK, NEW m \in Messages, Terminal(m)
  PROVE  /\ \/ msg'[m] = [state |-> "dead", deliveries |-> msg[m].deliveries, lease |-> None]
            \/ msg'[m] = [state |-> "dropped", deliveries |-> msg[m].deliveries, lease |-> None]
         /\ \A x \in Messages \ {m} : msg'[x] = msg[x]
<1>1. msg' = Removed(m, "dead") \/ msg' = Removed(m, "dropped")
  BY DEF Terminal
<1>2. CASE msg' = Removed(m, "dead")
  BY <1>2, RemovedPointwise
<1>3. CASE msg' = Removed(m, "dropped")
  BY <1>3, RemovedPointwise
<1>. QED
  BY <1>1, <1>2, <1>3

LEMMA RetryOrTerminalPointwise ==
  ASSUME TypeOK, NEW m \in Queued, RetryOrTerminal(m)
  PROVE  /\ msg'[m].state \in {"queued", "dead", "dropped"}
         /\ msg'[m].deliveries = msg[m].deliveries /\ msg'[m].lease = None
         /\ \A x \in Messages \ {m} : msg'[x] = msg[x]
<1>1. m \in Messages /\ msg[m].state = "queued"
  BY DEF Queued
<1>2. CASE Retried(m)
  <2>1. msg' = [msg EXCEPT ![m].lease = None]
    BY <1>2 DEF Retried
  <2>. QED
    BY <2>1, <1>1 DEF TypeOK
<1>3. CASE Terminal(m)
  <2>1. /\ \/ msg'[m] = [state |-> "dead", deliveries |-> msg[m].deliveries, lease |-> None]
           \/ msg'[m] = [state |-> "dropped", deliveries |-> msg[m].deliveries, lease |-> None]
        /\ \A x \in Messages \ {m} : msg'[x] = msg[x]
    BY <1>1, <1>3, TerminalPointwise
  <2>. QED
    BY <2>1
<1>. QED
  BY <1>2, <1>3 DEF RetryOrTerminal

LEMMA SettleLetsGo ==
  ASSUME TypeOK, NEW b \in Batches, NEW m \in Messages, NEW outcome \in {"ack", "retry"},
         Settle(b, m, outcome), UNCHANGED exec
  PROVE  LetsGo(m)
<1>1. /\ m \in Queued /\ msg[m].lease = b /\ exec[b].state \in {"send_authorized", "retired"}
      /\ receipt' = [receipt EXCEPT ![b][m] = outcome]
  BY DEF Settle, StillLeased, LeasedBy
<1>2. /\ msg'[m].state \in {"queued", "acked", "dead", "dropped"}
      /\ msg'[m].deliveries = msg[m].deliveries /\ msg'[m].lease = None
      /\ \A x \in Messages \ {m} : msg'[x] = msg[x]
  <2>1. CASE msg' = Removed(m, "acked")
    <3>1. /\ msg'[m] = [state |-> "acked", deliveries |-> msg[m].deliveries, lease |-> None]
          /\ \A x \in Messages \ {m} : msg'[x] = msg[x]
      BY <2>1, RemovedPointwise
    <3>. QED
      BY <3>1
  <2>2. CASE RetryOrTerminal(m)
    BY <1>1, <2>2, RetryOrTerminalPointwise
  <2>. QED
    BY <2>1, <2>2 DEF Settle
<1>3. /\ receipt'[b][m] # "pending"
      /\ \A c \in Batches, x \in Messages : receipt'[c][x] = receipt[c][x] \/ (c = b /\ x = m)
  BY <1>1 DEF TypeOK
<1>. QED
  BY <1>1, <1>2, <1>3 DEF LetsGo, Fates

LEMMA MessageLetsGo ==
  ASSUME TypeOK, NEW m \in Messages, ReapRetired(m) \/ Sweep(m) \/ ProgressWindow(m)
  PROVE  LetsGo(m)
<1>1. CASE ReapRetired(m)
  <2>1. /\ m \in Queued /\ msg[m].lease # None /\ exec[msg[m].lease].state = "retired"
        /\ RetryOrTerminal(m) /\ UNCHANGED <<exec, receipt>>
    BY <1>1 DEF ReapRetired, HandlerGone
  <2>2. /\ msg'[m].state \in {"queued", "dead", "dropped"}
        /\ msg'[m].deliveries = msg[m].deliveries /\ msg'[m].lease = None
        /\ \A x \in Messages \ {m} : msg'[x] = msg[x]
    BY <2>1, RetryOrTerminalPointwise
  <2>3. msg[m].lease \in Batches
    BY <2>1 DEF TypeOK
  <2>. QED
    BY <2>1, <2>2, <2>3 DEF LetsGo, Fates
<1>2. CASE Sweep(m)
  <2>1. m \in Queued /\ msg' = Removed(m, "expired") /\ UNCHANGED <<exec, receipt>>
    BY <1>2 DEF Sweep
  <2>2. /\ msg'[m] = [state |-> "expired", deliveries |-> msg[m].deliveries, lease |-> None]
        /\ \A x \in Messages \ {m} : msg'[x] = msg[x]
    BY <2>1, RemovedPointwise
  <2>. QED
    BY <2>1, <2>2 DEF LetsGo, Fates
<1>3. CASE ProgressWindow(m)
  <2>1. m \in Queued /\ msg[m].lease = None /\ Terminal(m) /\ UNCHANGED <<exec, receipt>>
    BY <1>3 DEF ProgressWindow, Unleased
  <2>2. /\ \/ msg'[m] = [state |-> "dead", deliveries |-> msg[m].deliveries, lease |-> None]
           \/ msg'[m] = [state |-> "dropped", deliveries |-> msg[m].deliveries, lease |-> None]
        /\ \A x \in Messages \ {m} : msg'[x] = msg[x]
    BY <2>1, TerminalPointwise
  <2>. QED
    BY <2>1, <2>2 DEF LetsGo, Fates
<1>. QED
  BY <1>1, <1>2, <1>3

\* What a step may do to messages, executions and receipts together.
Kinds ==
  \/ \E m \in Messages : Admit(m)
  \/ \E S \in SUBSET Messages : GivesBack(S)
  \/ \E m \in Messages : LetsGo(m)
  \/ \E b \in Batches : Reserve(b)
  \/ \E b \in Batches : \E S \in SUBSET Messages : Claim(b, S)
  \/ \E b \in Batches : Register(b)
  \/ \E b \in Batches : AuthorizeSend(b)
  \/ \E b \in Batches : Retires(b)
  \/ UNCHANGED <<msg, exec, receipt>>

LEMMA MessageKinds ==
  ASSUME TypeOK, NEW m \in Messages, MessageSteps(m)
  PROVE  Kinds
<1>1. CASE Admit(m)
  BY <1>1 DEF Kinds
<1>2. CASE ReapUnsent(m) \/ ReapRefused(m)
  BY <1>2, ReapGivesBack DEF Kinds
<1>3. CASE ReapRetired(m) \/ Sweep(m) \/ ProgressWindow(m)
  BY <1>3, MessageLetsGo DEF Kinds
<1>4. CASE TargetSettles(m)
  BY <1>4 DEF TargetSettles, Kinds
<1>. QED
  BY <1>1, <1>2, <1>3, <1>4 DEF MessageSteps

LEMMA DeliveryKinds ==
  ASSUME TypeOK, NEW b \in Batches, DeliverySteps(b)
  PROVE  Kinds
<1>1. CASE Reserve(b) \/ Register(b) \/ AuthorizeSend(b) \/ \E S \in SUBSET Messages : Claim(b, S)
  BY <1>1 DEF Kinds
<1>2. CASE ExpireReservation(b)
  BY <1>2, ExpireGivesBack DEF Kinds
<1>3. CASE CancelBeforeSend(b) \/ RefuseAtBoot(b)
  <2>1. Cancelled(b) /\ UNCHANGED receipt
    BY <1>3 DEF CancelBeforeSend, RefuseAtBoot
  <2>2. LeasedBy(b) \in SUBSET Messages
    BY DEF LeasedBy, Queued
  <2>. QED
    BY <2>1, <2>2, CancelledGivesBack DEF Kinds
<1>4. CASE Send(b) \/ Abandon(b) \/ HandlerEnds(b)
  BY <1>4 DEF Send, Abandon, HandlerEnds, Kinds
<1>5. CASE \E m \in Messages, outcome \in {"ack", "retry"} : TenantSettles(b, m, outcome)
  <2>1. PICK m \in Messages, outcome \in {"ack", "retry"} : TenantSettles(b, m, outcome)
    BY <1>5
  <2>2. Settle(b, m, outcome) /\ UNCHANGED exec
    BY <2>1 DEF TenantSettles
  <2>. QED
    BY <2>2, SettleLetsGo DEF Kinds
<1>6. CASE \E m \in Messages : DefaultSettles(b, m)
  <2>1. PICK m \in Messages : DefaultSettles(b, m)
    BY <1>6
  <2>2. Settle(b, m, driver[b]) /\ driver[b] \in {"ack", "retry"} /\ UNCHANGED exec
    BY <2>1 DEF DefaultSettles
  <2>. QED
    BY <2>2, SettleLetsGo DEF Kinds
<1>7. CASE RetireByReceipt(b) \/ RetireAbsent(b)
  <2>1. Retires(b)
    BY <1>7 DEF RetireByReceipt, RetireAbsent, Retires
  <2>. QED
    BY <2>1 DEF Kinds
<1>. QED
  BY <1>1, <1>2, <1>3, <1>4, <1>5, <1>6, <1>7 DEF DeliverySteps

LEMMA StepKinds ==
  ASSUME TypeOK, [Next]_vars
  PROVE  Kinds
<1>1. CASE UNCHANGED vars
  BY <1>1 DEF vars, Kinds
<1>2. CASE TransferSteps
  BY <1>2 DEF TransferSteps, WakeSettled, WakeSchedule, WakeDone, Kinds
<1>3. CASE ConsumerSteps
  <2>1. CASE OpRefund \/ OpCancelUnsent
    BY <2>1, OperationGivesBack DEF Kinds
  <2>2. CASE \/ \E c \in Consumers, p \in Policies : AcceptCreate(c, p)
             \/ \E p \in Policies : AcceptUpdate(p)
             \/ AcceptDelete
    BY <2>2 DEF AcceptCreate, AcceptUpdate, AcceptDelete, Accept, Kinds
  <2>3. CASE OpAttach \/ OpBegin \/ OpFinish \/ OpComplete \/ PassStops
    BY <2>3 DEF OpAttach, OpBegin, OpFinish, OpComplete, PassStops, Kinds
  <2>. QED
    BY <1>3, <2>1, <2>2, <2>3 DEF ConsumerSteps
<1>. QED
  BY <1>1, <1>2, <1>3, MessageKinds, DeliveryKinds DEF Next

-----------------------------------------------------------------------------
(* What the groups of steps leave alone.                                    *)

LEMMA RetryOrTerminalLeaves ==
  ASSUME NEW m, RetryOrTerminal(m)
  PROVE  \/ UNCHANGED <<copies, notices>>
         \/ /\ custody.policy \in DeadLetter /\ msg' = Removed(m, "dead")
            /\ copies' = copies \cup {[message |-> m, generation |-> custody.generation]}
            /\ notices' = Noticed(m)
BY DEF RetryOrTerminal, Retried, Terminal

LEMMA MessageLeaves ==
  ASSUME NEW m, MessageSteps(m)
  PROVE  UNCHANGED <<custody, receipt, driver, native, consumer, accepted, pass, wakes, seen>>
BY DEF MessageSteps, Admit, ReapUnsent, ReapRefused, ReapRetired, Sweep, ProgressWindow, TargetSettles,
       hostVars, wakeVars

LEMMA DeliveryLeaves ==
  ASSUME NEW b, DeliverySteps(b)
  PROVE  UNCHANGED <<custody, consumer, accepted, pass, wakes, seen>>
<1>1. CASE \/ Reserve(b) \/ ExpireReservation(b) \/ Register(b) \/ AuthorizeSend(b) \/ Send(b)
           \/ Abandon(b) \/ CancelBeforeSend(b) \/ RefuseAtBoot(b) \/ HandlerEnds(b)
           \/ RetireByReceipt(b) \/ RetireAbsent(b)
  BY <1>1 DEF Reserve, ExpireReservation, Register, AuthorizeSend, Send, Abandon, CancelBeforeSend,
              RefuseAtBoot, HandlerEnds, RetireByReceipt, RetireAbsent, hostVars, wakeVars
<1>2. CASE \/ \E S \in SUBSET Messages : Claim(b, S)
           \/ \E m \in Messages, outcome \in {"ack", "retry"} : TenantSettles(b, m, outcome)
           \/ \E m \in Messages : DefaultSettles(b, m)
  BY <1>2 DEF Claim, TenantSettles, DefaultSettles, hostVars, wakeVars
<1>. QED
  BY <1>1, <1>2 DEF DeliverySteps

LEMMA ConsumerLeaves ==
  ASSUME ConsumerSteps
  PROVE  UNCHANGED <<receipt, notices, copies, driver, native, wakes, seen>>
<1>1. CASE \/ \E c \in Consumers, p \in Policies : AcceptCreate(c, p)
           \/ \E p \in Policies : AcceptUpdate(p)
           \/ AcceptDelete
  BY <1>1 DEF AcceptCreate, AcceptUpdate, AcceptDelete, Accept, wakeVars
<1>2. CASE OpCancelUnsent \/ OpRefund \/ OpAttach \/ OpBegin \/ OpFinish \/ OpComplete \/ PassStops
  BY <1>2 DEF OpCancelUnsent, OpRefund, OpAttach, OpBegin, OpFinish, OpComplete, PassStops, wakeVars
<1>. QED
  BY <1>1, <1>2 DEF ConsumerSteps

LEMMA TransferLeaves ==
  ASSUME TransferSteps
  PROVE  UNCHANGED <<msg, custody, exec, receipt, driver, native, consumer, accepted, pass, copies>>
BY DEF TransferSteps, WakeSettled, WakeSchedule, WakeDone, hostVars

\* The forms a step gives the messages.
LEMMA MessageForms ==
  ASSUME [Next]_vars
  PROVE  \/ UNCHANGED msg
         \/ \E S \in SUBSET Messages : msg' = Refunded(S)
         \/ \E m \in Messages, fate \in Fates : msg' = Removed(m, fate)
         \/ \E m \in Messages : msg' = [msg EXCEPT ![m].lease = None]
         \/ \E m \in Messages : msg' = [msg EXCEPT ![m].state = "queued"]
         \/ \E S \in SUBSET Messages, b \in Batches :
              msg' = [m \in Messages |->
                        IF m \in S THEN [msg[m] EXCEPT !.deliveries = @ + 1, !.lease = b] ELSE msg[m]]
<1> DEFINE Goal ==
         \/ UNCHANGED msg
         \/ \E S \in SUBSET Messages : msg' = Refunded(S)
         \/ \E m \in Messages, fate \in Fates : msg' = Removed(m, fate)
         \/ \E m \in Messages : msg' = [msg EXCEPT ![m].lease = None]
         \/ \E m \in Messages : msg' = [msg EXCEPT ![m].state = "queued"]
         \/ \E S \in SUBSET Messages, b \in Batches :
              msg' = [m \in Messages |->
                        IF m \in S THEN [msg[m] EXCEPT !.deliveries = @ + 1, !.lease = b] ELSE msg[m]]
<1>. SUFFICES Goal
  OBVIOUS
<1>1. ASSUME NEW m \in Messages, RetryOrTerminal(m) \/ Terminal(m)
      PROVE  Goal
  BY <1>1, Zenon DEF RetryOrTerminal, Retried, Terminal, Fates
<1>2. ASSUME NEW m \in Messages, MessageSteps(m)
      PROVE  Goal
  <2>1. CASE Admit(m)
    BY <2>1 DEF Admit
  <2>2. CASE ReapUnsent(m) \/ ReapRefused(m)
    <3>1. {m} \in SUBSET Messages /\ msg' = Refunded({m})
      BY <2>2 DEF ReapUnsent, ReapRefused
    <3>. QED
      BY <3>1
  <2>3. CASE ReapRetired(m) \/ ProgressWindow(m)
    BY <1>1, <2>3 DEF ReapRetired, ProgressWindow
  <2>4. CASE Sweep(m) \/ TargetSettles(m)
    BY <2>4 DEF Sweep, TargetSettles, Fates
  <2>. QED
    BY <1>2, <2>1, <2>2, <2>3, <2>4 DEF MessageSteps
<1>3. ASSUME NEW b \in Batches, DeliverySteps(b)
      PROVE  Goal
  <2>1. ASSUME NEW m \in Messages, NEW outcome, Settle(b, m, outcome)
        PROVE  Goal
    <3>1. msg' = Removed(m, "acked") \/ RetryOrTerminal(m)
      BY <2>1 DEF Settle
    <3>2. "acked" \in Fates
      BY DEF Fates
    <3>. QED
      BY <1>1, <3>1, <3>2
  <2>2. CASE CancelBeforeSend(b) \/ RefuseAtBoot(b)
    <3>1. LeasedBy(b) \in SUBSET Messages /\ msg' = Refunded(LeasedBy(b))
      BY <2>2 DEF CancelBeforeSend, RefuseAtBoot, Cancelled, LeasedBy, Queued
    <3>. QED
      BY <3>1
  <2>3. CASE \E S \in SUBSET Messages : Claim(b, S)
    <3>1. PICK S \in SUBSET Messages :
            msg' = [m \in Messages |->
                      IF m \in S THEN [msg[m] EXCEPT !.deliveries = @ + 1, !.lease = b] ELSE msg[m]]
      BY <2>3 DEF Claim
    <3>. QED
      BY <3>1
  <2>4. CASE \/ \E m \in Messages, outcome \in {"ack", "retry"} : TenantSettles(b, m, outcome)
             \/ \E m \in Messages : DefaultSettles(b, m)
    <3>1. \E m \in Messages : \E outcome : Settle(b, m, outcome)
      BY <2>4 DEF TenantSettles, DefaultSettles
    <3>. HIDE DEF Goal
    <3>. QED
      BY <2>1, <3>1
  <2>5. CASE \/ Reserve(b) \/ ExpireReservation(b) \/ Register(b) \/ AuthorizeSend(b) \/ Send(b)
             \/ Abandon(b) \/ HandlerEnds(b) \/ RetireByReceipt(b) \/ RetireAbsent(b)
    <3>1. UNCHANGED msg
      BY <2>5 DEF Reserve, ExpireReservation, Register, AuthorizeSend, Send, Abandon, HandlerEnds,
                  RetireByReceipt, RetireAbsent
    <3>. QED
      BY <3>1
  <2>. HIDE DEF Goal
  <2>. QED
    BY <1>3, <2>2, <2>3, <2>4, <2>5 DEF DeliverySteps
<1>4. CASE ConsumerSteps
  <2>1. CASE OpRefund
    <3> DEFINE leased == UNION {LeasedBy(b) : b \in {b \in Batches : /\ exec[b].consumer = consumer.uid
                                                                    /\ exec[b].state = "pre_effect_refused"}}
    <3>1. leased \in SUBSET Messages /\ msg' = Refunded(leased)
      BY <2>1 DEF OpRefund, LeasedBy, Queued
    <3>. QED
      BY <3>1
  <2>2. CASE ~OpRefund
    <3>1. UNCHANGED msg
      BY <1>4, <2>2 DEF ConsumerSteps, AcceptCreate, AcceptUpdate, AcceptDelete, Accept, OpCancelUnsent, OpAttach,
                        OpBegin, OpFinish, OpComplete, PassStops
    <3>. QED
      BY <3>1
  <2>. QED
    BY <2>1, <2>2
<1>5. CASE TransferSteps \/ UNCHANGED vars
  <2>1. UNCHANGED msg
    BY <1>5, TransferLeaves DEF vars
  <2>. QED
    BY <2>1
<1>. HIDE DEF Goal
<1>6. (\E m \in Messages : MessageSteps(m)) => Goal
  BY <1>2
<1>7. (\E b \in Batches : DeliverySteps(b)) => Goal
  BY <1>3
<1>. QED
  BY <1>4, <1>5, <1>6, <1>7 DEF Next

-----------------------------------------------------------------------------
(* Types.                                                                   *)

LEMMA RefundTyped ==
  ASSUME NEW r \in [state: {"none", "queued"} \cup Fates, deliveries: Nat, lease: Batches \cup {None}]
  PROVE  [r EXCEPT !.deliveries = IF @ > 0 THEN @ - 1 ELSE 0, !.lease = None]
           \in [state: {"none", "queued"} \cup Fates, deliveries: Nat, lease: Batches \cup {None}]
<1> DEFINE q == [r EXCEPT !.deliveries = IF @ > 0 THEN @ - 1 ELSE 0]
<1>1. q \in [state: {"none", "queued"} \cup Fates, deliveries: Nat, lease: Batches \cup {None}]
  OBVIOUS
<1>. HIDE DEF q
<1>2. [q EXCEPT !.lease = None]
        \in [state: {"none", "queued"} \cup Fates, deliveries: Nat, lease: Batches \cup {None}]
  BY <1>1
<1>. QED
  BY <1>2 DEF q

LEMMA ClaimTyped ==
  ASSUME NEW r \in [state: {"none", "queued"} \cup Fates, deliveries: Nat, lease: Batches \cup {None}],
         NEW b \in Batches
  PROVE  [r EXCEPT !.deliveries = @ + 1, !.lease = b]
           \in [state: {"none", "queued"} \cup Fates, deliveries: Nat, lease: Batches \cup {None}]
<1> DEFINE q == [r EXCEPT !.deliveries = @ + 1]
<1>1. q \in [state: {"none", "queued"} \cup Fates, deliveries: Nat, lease: Batches \cup {None}]
  OBVIOUS
<1>. HIDE DEF q
<1>2. [q EXCEPT !.lease = b]
        \in [state: {"none", "queued"} \cup Fates, deliveries: Nat, lease: Batches \cup {None}]
  BY <1>1
<1>. QED
  BY <1>2 DEF q

LEMMA MessagesTyped ==
  ASSUME TypeOK, [Next]_vars
  PROVE  msg' \in [Messages -> [state: {"none", "queued"} \cup Fates, deliveries: Nat,
                                lease: Batches \cup {None}]]
<1>0. msg \in [Messages -> [state: {"none", "queued"} \cup Fates, deliveries: Nat,
                            lease: Batches \cup {None}]]
  BY DEF TypeOK
<1>1. CASE UNCHANGED msg
  BY <1>0, <1>1
<1>2. CASE \E S \in SUBSET Messages : msg' = Refunded(S)
  BY <1>0, <1>2, RefundTyped, Zenon DEF Refunded
<1>3. CASE \E m \in Messages, fate \in Fates : msg' = Removed(m, fate)
  <2>1. PICK m \in Messages, fate \in Fates : msg' = Removed(m, fate)
    BY <1>3
  <2> DEFINE moved == [msg EXCEPT ![m].state = fate]
  <2>2. moved \in [Messages -> [state: {"none", "queued"} \cup Fates, deliveries: Nat,
                                lease: Batches \cup {None}]]
    BY <1>0
  <2>3. msg' = [moved EXCEPT ![m].lease = None]
    BY <2>1 DEF Removed
  <2>. HIDE DEF moved
  <2>. QED
    BY <2>2, <2>3
<1>4. CASE \E m \in Messages : msg' = [msg EXCEPT ![m].lease = None]
  BY <1>0, <1>4
<1>5. CASE \E m \in Messages : msg' = [msg EXCEPT ![m].state = "queued"]
  BY <1>0, <1>5
<1>6. CASE \E S \in SUBSET Messages, b \in Batches :
             msg' = [m \in Messages |->
                       IF m \in S THEN [msg[m] EXCEPT !.deliveries = @ + 1, !.lease = b] ELSE msg[m]]
  <2>1. PICK S \in SUBSET Messages, b \in Batches :
          msg' = [m \in Messages |->
                    IF m \in S THEN [msg[m] EXCEPT !.deliveries = @ + 1, !.lease = b] ELSE msg[m]]
    BY <1>6
  <2>2. \A m \in Messages :
          [msg[m] EXCEPT !.deliveries = @ + 1, !.lease = b]
            \in [state: {"none", "queued"} \cup Fates, deliveries: Nat, lease: Batches \cup {None}]
    BY <1>0, ClaimTyped
  <2>. QED
    BY <1>0, <2>1, <2>2, Zenon
<1>. QED
  BY <1>1, <1>2, <1>3, <1>4, <1>5, <1>6, MessageForms

\* The forms a step gives the executions.
LEMMA ExecutionForms ==
  ASSUME TypeOK, ConsumerShape, [Next]_vars
  PROVE  \/ UNCHANGED exec
         \/ \E b \in Batches, s \in {"registered", "send_authorized", "retired", "pre_effect_refused"} :
              exec' = [exec EXCEPT ![b].state = s]
         \/ \E b \in Batches, S \in SUBSET Messages : exec' = [exec EXCEPT ![b].claims = S]
         \/ \E b \in Batches, c \in Consumers, p \in Policies :
              exec' = [exec EXCEPT ![b] = [state |-> "reserved", consumer |-> c, policy |-> p,
                                           generation |-> custody.generation, claims |-> {}]]
         \/ exec' = [b \in Batches |->
                IF exec[b].consumer = consumer.uid /\ exec[b].state \in Unsent
                THEN [exec[b] EXCEPT !.state = "pre_effect_refused"] ELSE exec[b]]
<1> DEFINE Goal ==
         \/ UNCHANGED exec
         \/ \E b \in Batches, s \in {"registered", "send_authorized", "retired", "pre_effect_refused"} :
              exec' = [exec EXCEPT ![b].state = s]
         \/ \E b \in Batches, S \in SUBSET Messages : exec' = [exec EXCEPT ![b].claims = S]
         \/ \E b \in Batches, c \in Consumers, p \in Policies :
              exec' = [exec EXCEPT ![b] = [state |-> "reserved", consumer |-> c, policy |-> p,
                                           generation |-> custody.generation, claims |-> {}]]
         \/ exec' = [b \in Batches |->
                IF exec[b].consumer = consumer.uid /\ exec[b].state \in Unsent
                THEN [exec[b] EXCEPT !.state = "pre_effect_refused"] ELSE exec[b]]
<1>. SUFFICES Goal
  OBVIOUS
<1>1. ASSUME NEW m \in Messages, MessageSteps(m)
      PROVE  Goal
  <2>1. CASE ReapUnsent(m)
    <3>1. msg[m].lease \in Batches
      BY <2>1 DEF TypeOK, ReapUnsent
    <3>2. exec' = [exec EXCEPT ![msg[m].lease].state = "pre_effect_refused"]
      BY <2>1 DEF ReapUnsent
    <3>. QED
      BY <3>1, <3>2
  <2>2. CASE ~ReapUnsent(m)
    <3>1. UNCHANGED exec
      BY <1>1, <2>2 DEF MessageSteps, Admit, ReapRefused, ReapRetired, Sweep, ProgressWindow, TargetSettles
    <3>. QED
      BY <3>1
  <2>. QED
    BY <2>1, <2>2
<1>2. ASSUME NEW b \in Batches, DeliverySteps(b)
      PROVE  Goal
  <2>1. CASE Reserve(b)
    <3>1. custody.consumer \in Consumers /\ custody.policy \in Policies
      BY <2>1 DEF Reserve, ConsumerShape
    <3>2. exec' = [exec EXCEPT ![b] = [state |-> "reserved", consumer |-> custody.consumer,
                                       policy |-> custody.policy,
                                       generation |-> custody.generation, claims |-> {}]]
      BY <2>1 DEF Reserve
    <3>. QED
      BY <3>1, <3>2
  <2>2. CASE \E S \in SUBSET Messages : Claim(b, S)
    BY <2>2 DEF Claim
  <2>3. CASE \/ \E m \in Messages, outcome \in {"ack", "retry"} : TenantSettles(b, m, outcome)
             \/ \E m \in Messages : DefaultSettles(b, m)
    <3>1. UNCHANGED exec
      BY <2>3 DEF TenantSettles, DefaultSettles
    <3>. QED
      BY <3>1
  <2>4. CASE Send(b) \/ Abandon(b) \/ HandlerEnds(b)
    <3>1. UNCHANGED exec
      BY <2>4 DEF Send, Abandon, HandlerEnds
    <3>. QED
      BY <3>1
  <2>5. CASE \/ ExpireReservation(b) \/ Register(b) \/ AuthorizeSend(b) \/ CancelBeforeSend(b)
             \/ RefuseAtBoot(b) \/ RetireByReceipt(b) \/ RetireAbsent(b)
    <3>1. \E s \in {"registered", "send_authorized", "retired", "pre_effect_refused"} :
            exec' = [exec EXCEPT ![b].state = s]
      BY <2>5 DEF ExpireReservation, Register, AuthorizeSend, CancelBeforeSend, RefuseAtBoot, Cancelled,
                  RetireByReceipt, RetireAbsent
    <3>. QED
      BY <3>1
  <2>. HIDE DEF Goal
  <2>. QED
    BY <1>2, <2>1, <2>2, <2>3, <2>4, <2>5 DEF DeliverySteps
<1>3. CASE ConsumerSteps
  <2>1. CASE OpCancelUnsent
    BY <2>1 DEF OpCancelUnsent
  <2>2. CASE ~OpCancelUnsent
    <3>1. UNCHANGED exec
      BY <1>3, <2>2 DEF ConsumerSteps, AcceptCreate, AcceptUpdate, AcceptDelete, Accept, OpRefund, OpAttach,
                        OpBegin, OpFinish, OpComplete, PassStops
    <3>. QED
      BY <3>1
  <2>. QED
    BY <2>1, <2>2
<1>4. CASE TransferSteps \/ UNCHANGED vars
  <2>1. UNCHANGED exec
    BY <1>4, TransferLeaves DEF vars
  <2>. QED
    BY <2>1
<1>. HIDE DEF Goal
<1>5. (\E m \in Messages : MessageSteps(m)) => Goal
  BY <1>1
<1>6. (\E b \in Batches : DeliverySteps(b)) => Goal
  BY <1>2
<1>. QED
  BY <1>3, <1>4, <1>5, <1>6 DEF Next

LEMMA ExecutionsTyped ==
  ASSUME TypeOK, ConsumerShape, [Next]_vars
  PROVE  exec' \in [Batches -> [state: Open \cup {"none", "pre_effect_refused", "retired"},
                           consumer: Consumers \cup {None}, generation: Generations,
                           policy: Policies \cup {None}, claims: SUBSET Messages]]
<1>0. /\ exec \in [Batches -> [state: Open \cup {"none", "pre_effect_refused", "retired"},
                           consumer: Consumers \cup {None}, generation: Generations,
                           policy: Policies \cup {None}, claims: SUBSET Messages]]
      /\ custody.generation \in Generations
  BY DEF TypeOK
<1>1. CASE UNCHANGED exec
  BY <1>0, <1>1
<1>2. CASE \E b \in Batches, s \in {"registered", "send_authorized", "retired", "pre_effect_refused"} :
              exec' = [exec EXCEPT ![b].state = s]
  BY <1>0, <1>2 DEF Open, Unsent
<1>3. CASE \E b \in Batches, S \in SUBSET Messages : exec' = [exec EXCEPT ![b].claims = S]
  BY <1>0, <1>3
<1>4. CASE \E b \in Batches, c \in Consumers, p \in Policies :
              exec' = [exec EXCEPT ![b] = [state |-> "reserved", consumer |-> c, policy |-> p,
                                           generation |-> custody.generation, claims |-> {}]]
  BY <1>0, <1>4 DEF Open, Unsent
<1>5. CASE exec' = [b \in Batches |->
                IF exec[b].consumer = consumer.uid /\ exec[b].state \in Unsent
                THEN [exec[b] EXCEPT !.state = "pre_effect_refused"] ELSE exec[b]]
  BY <1>0, <1>5
<1>. QED
  BY <1>1, <1>2, <1>3, <1>4, <1>5, ExecutionForms

\* The dead letter of a message of an attached Queue.
DeadLettered(m) ==
  /\ m \in Queued /\ custody.state # "none" /\ msg' = Removed(m, "dead")
  /\ copies' = copies \cup {[message |-> m, generation |-> custody.generation]}
  /\ notices' = Noticed(m)
  /\ UNCHANGED <<custody, wakes, seen>>

LEMMA TransferForms ==
  ASSUME [Next]_vars
  PROVE  \/ UNCHANGED <<copies, notices, wakes, seen>>
         \/ \E m \in Messages : DeadLettered(m)
         \/ \E m \in Messages : TargetSettles(m)
         \/ TransferSteps
<1>1. ASSUME NEW m \in Messages, MessageSteps(m)
      PROVE  UNCHANGED <<copies, notices, wakes, seen>> \/ DeadLettered(m) \/ TargetSettles(m)
  <2>1. UNCHANGED <<custody, wakes, seen>>
    BY <1>1, MessageLeaves
  <2>2. CASE ReapRetired(m)
    <3>1. m \in Queued /\ custody.state # "none" /\ RetryOrTerminal(m)
      BY <2>2 DEF ReapRetired, Reaping, OwnGeneration
    <3>. QED
      BY <2>1, <3>1, RetryOrTerminalLeaves DEF DeadLettered
  <2>3. CASE ProgressWindow(m)
    <3>1. m \in Queued /\ custody.state # "none" /\ Terminal(m)
      BY <2>3 DEF ProgressWindow, Unleased
    <3>. QED
      BY <2>1, <3>1 DEF Terminal, DeadLettered
  <2>4. CASE Admit(m) \/ ReapUnsent(m) \/ ReapRefused(m) \/ Sweep(m)
    BY <2>4 DEF Admit, ReapUnsent, ReapRefused, Sweep, wakeVars
  <2>. QED
    BY <1>1, <2>2, <2>3, <2>4 DEF MessageSteps
<1>2. ASSUME NEW b \in Batches, DeliverySteps(b)
      PROVE  UNCHANGED <<copies, notices, wakes, seen>> \/ \E m \in Messages : DeadLettered(m)
  <2>1. UNCHANGED <<custody, wakes, seen>>
    BY <1>2, DeliveryLeaves
  <2>2. ASSUME NEW m \in Messages, NEW outcome, Settle(b, m, outcome)
        PROVE  UNCHANGED <<copies, notices, wakes, seen>> \/ DeadLettered(m)
    <3>1. m \in Queued /\ custody.state # "none"
      BY <2>2 DEF Settle, StillLeased, LeasedBy, OwnGeneration
    <3>2. UNCHANGED <<copies, notices>> \/ RetryOrTerminal(m)
      BY <2>2 DEF Settle
    <3>. QED
      BY <2>1, <3>1, <3>2, RetryOrTerminalLeaves DEF DeadLettered
  <2>3. CASE \/ \E m \in Messages, outcome \in {"ack", "retry"} : TenantSettles(b, m, outcome)
             \/ \E m \in Messages : DefaultSettles(b, m)
    <3>1. \E m \in Messages : \E outcome : Settle(b, m, outcome)
      BY <2>3 DEF TenantSettles, DefaultSettles
    <3>. QED
      BY <2>2, <3>1
  <2>4. CASE \/ \E S \in SUBSET Messages : Claim(b, S)
             \/ Reserve(b) \/ ExpireReservation(b) \/ Register(b) \/ AuthorizeSend(b) \/ Send(b)
             \/ Abandon(b) \/ CancelBeforeSend(b) \/ RefuseAtBoot(b) \/ HandlerEnds(b)
             \/ RetireByReceipt(b) \/ RetireAbsent(b)
    BY <2>4 DEF Claim, Reserve, ExpireReservation, Register, AuthorizeSend, Send, Abandon, CancelBeforeSend,
                RefuseAtBoot, HandlerEnds, RetireByReceipt, RetireAbsent, wakeVars
  <2>. QED
    BY <1>2, <2>3, <2>4 DEF DeliverySteps
<1>3. CASE ConsumerSteps
  BY <1>3, ConsumerLeaves
<1>4. CASE UNCHANGED vars
  BY <1>4 DEF vars
<1>. QED
  BY <1>1, <1>2, <1>3, <1>4 DEF Next

LEMMA TransfersTyped ==
  ASSUME TypeOK, ConsumerShape, [Next]_vars
  PROVE  /\ notices' \subseteq [consumer: Consumers, generation: Generations, copy: Messages]
         /\ copies' \subseteq [message: Messages, generation: Generations]
         /\ wakes' \subseteq [consumer: Consumers, generation: Generations, copy: Messages]
         /\ seen' \subseteq Messages
<1>0. /\ notices \subseteq [consumer: Consumers, generation: Generations, copy: Messages]
      /\ copies \subseteq [message: Messages, generation: Generations]
      /\ wakes \subseteq [consumer: Consumers, generation: Generations, copy: Messages]
      /\ seen \subseteq Messages
      /\ custody.generation \in Generations
  BY DEF TypeOK
<1>1. CASE UNCHANGED <<copies, notices, wakes, seen>>
  BY <1>0, <1>1
<1>2. CASE \E m \in Messages : DeadLettered(m)
  <2>1. PICK m \in Messages : DeadLettered(m)
    BY <1>2
  <2>2. custody.consumer \in Consumers
    BY <2>1 DEF DeadLettered, ConsumerShape
  <2>3. /\ notices' = Noticed(m) /\ UNCHANGED <<wakes, seen>>
        /\ copies' = copies \cup {[message |-> m, generation |-> custody.generation]}
    BY <2>1 DEF DeadLettered
  <2>4. Noticed(m) \subseteq [consumer: Consumers, generation: Generations, copy: Messages]
    BY <1>0, <2>2 DEF Noticed
  <2>. QED
    BY <1>0, <2>3, <2>4
<1>3. CASE \E m \in Messages : TargetSettles(m)
  BY <1>0, <1>3 DEF TargetSettles
<1>4. CASE TransferSteps
  <2>1. /\ copies' = copies
        /\ notices' \subseteq notices /\ wakes' \subseteq wakes \cup notices
        /\ seen' \subseteq seen \cup {k.message : k \in copies}
    BY <1>4 DEF TransferSteps, WakeSettled, WakeSchedule, WakeDone, Acknowledge
  <2>2. {k.message : k \in copies} \subseteq Messages
    BY <1>0
  <2>. QED
    BY <1>0, <2>1, <2>2
<1>. QED
  BY <1>1, <1>2, <1>3, <1>4, TransferForms

LEMMA DeliveryTyped ==
  ASSUME TypeOK, NEW b \in Batches, DeliverySteps(b)
  PROVE  /\ receipt' \in [Batches -> [Messages -> {"none", "pending", "ack", "retry"}]]
         /\ driver' \in [Batches -> Drivers]
         /\ native' \in [Batches -> {"none", "running", "ended"}]
<1>0. /\ receipt \in [Batches -> [Messages -> {"none", "pending", "ack", "retry"}]]
      /\ driver \in [Batches -> Drivers]
      /\ native \in [Batches -> {"none", "running", "ended"}]
  BY DEF TypeOK
<1>1. UNCHANGED driver \/ \E pc \in Drivers : driver' = [driver EXCEPT ![b] = pc]
  BY DEF DeliverySteps, Reserve, ExpireReservation, Claim, Register, AuthorizeSend, Send, Abandon,
         CancelBeforeSend, RefuseAtBoot, HandlerEnds, TenantSettles, DefaultSettles, RetireByReceipt,
         RetireAbsent, Goes, Drivers
<1>2. \/ UNCHANGED native \/ native' = [native EXCEPT ![b] = "running"]
      \/ native' = [native EXCEPT ![b] = "ended"]
      \/ native' = [native EXCEPT ![b] = IF @ = "running" THEN "ended" ELSE @]
  BY DEF DeliverySteps, Reserve, ExpireReservation, Claim, Register, AuthorizeSend, Send, Abandon,
         CancelBeforeSend, RefuseAtBoot, HandlerEnds, TenantSettles, DefaultSettles, RetireByReceipt,
         RetireAbsent
<1>3. \/ UNCHANGED receipt
      \/ receipt' = [receipt EXCEPT ![b] = [m \in Messages |->
                       IF m \in exec[b].claims THEN "pending" ELSE @[m]]]
      \/ \E m \in Messages, outcome \in {"ack", "retry"} : receipt' = [receipt EXCEPT ![b][m] = outcome]
  <2>1. CASE Register(b)
    BY <2>1 DEF Register
  <2>2. CASE \/ \E m \in Messages, outcome \in {"ack", "retry"} : TenantSettles(b, m, outcome)
             \/ \E m \in Messages : DefaultSettles(b, m)
    BY <2>2 DEF TenantSettles, DefaultSettles, Settle
  <2>3. CASE \/ \E S \in SUBSET Messages : Claim(b, S)
             \/ Reserve(b) \/ ExpireReservation(b) \/ AuthorizeSend(b) \/ Send(b)
             \/ Abandon(b) \/ CancelBeforeSend(b) \/ RefuseAtBoot(b) \/ HandlerEnds(b)
             \/ RetireByReceipt(b) \/ RetireAbsent(b)
    BY <2>3 DEF Claim, Reserve, ExpireReservation, AuthorizeSend, Send, Abandon, CancelBeforeSend,
                RefuseAtBoot, HandlerEnds, RetireByReceipt, RetireAbsent
  <2>. QED
    BY <2>1, <2>2, <2>3 DEF DeliverySteps
<1>4. driver' \in [Batches -> Drivers]
  BY <1>0, <1>1
<1>5. native' \in [Batches -> {"none", "running", "ended"}]
  BY <1>0, <1>2
<1>6. receipt' \in [Batches -> [Messages -> {"none", "pending", "ack", "retry"}]]
  <2> DEFINE pending == [m \in Messages |-> IF m \in exec[b].claims THEN "pending" ELSE receipt[b][m]]
  <2>1. pending \in [Messages -> {"none", "pending", "ack", "retry"}]
    BY <1>0
  <2>2. CASE receipt' = [receipt EXCEPT ![b] = pending]
    <3>. HIDE DEF pending
    <3>. QED
      BY <1>0, <2>1, <2>2
  <2>3. CASE \E m \in Messages, outcome \in {"ack", "retry"} : receipt' = [receipt EXCEPT ![b][m] = outcome]
    BY <1>0, <2>3
  <2>. QED
    BY <1>0, <1>3, <2>2, <2>3
<1>. QED
  BY <1>4, <1>5, <1>6

-----------------------------------------------------------------------------
(* The Consumer, its Operations and the custody row.                        *)

\* What the Operations keep, apart from the types of the other variables.
HostInv ==
  /\ consumer \in [uid: Consumers \cup {None}, generation: Generations,
                   policy: Policies \cup {None}, busy: {"idle", "create", "update", "delete"}]
  /\ accepted \subseteq [uid: Consumers, generation: Generations, policy: Policies]
  /\ pass \in {"none", "cancel", "refund", "row", "reap", "final"}
  /\ custody \in [state: {"none", "active", "retiring", "tombstone"}, generation: Generations,
                  consumer: Consumers \cup {None}, policy: Policies \cup {None}]
  /\ ConsumerShape
  /\ GenerationsCounted

LEMMA AcceptHost ==
  ASSUME HostInv,
         \/ \E c \in Consumers, p \in Policies : AcceptCreate(c, p)
         \/ \E p \in Policies : AcceptUpdate(p)
         \/ AcceptDelete
  PROVE  HostInv'
<1>1. consumer.busy = "idle" /\ pass = "none" /\ UNCHANGED <<accepted, custody>>
  BY DEF AcceptCreate, AcceptUpdate, AcceptDelete, Accept, HostInv, ConsumerShape
<1>2. PICK c \in Consumers, action \in {"create", "update", "delete"}, p \in Policies, g \in Nat :
        /\ consumer' = [uid |-> c, generation |-> g, policy |-> p, busy |-> action]
        /\ Starts(action)
        /\ g <= MaxOperations /\ g <= Cardinality(accepted) + 1
        /\ \A a \in accepted : a.uid = c => a.generation < g
        /\ action \in {"create", "update"} => Cardinality(accepted) < MaxOperations
  <2>1. /\ Cardinality(accepted) \in Nat /\ MaxOperations \in Nat
        /\ Accepted = Cardinality(accepted)
    BY <1>1, QueueAssumption, FS_CardinalityType DEF Accepted, HostInv, GenerationsCounted
  <2>2. CASE \E c \in Consumers, p \in Policies : AcceptCreate(c, p)
    <3>1. PICK c \in Consumers, p \in Policies : AcceptCreate(c, p)
      BY <2>2
    <3>2. /\ consumer' = [uid |-> c, generation |-> 1, policy |-> p, busy |-> "create"]
          /\ Starts("create") /\ c \notin Used /\ Cardinality(accepted) < MaxOperations
      BY <2>1, <3>1 DEF AcceptCreate, Accept
    <3>3. \A a \in accepted : a.uid # c
      BY <3>2 DEF Used
    <3>. QED
      BY <2>1, <3>2, <3>3
  <2>3. CASE AcceptDelete \/ \E p \in Policies : AcceptUpdate(p)
    <3>1. PICK p \in Policies, action \in {"update", "delete"} :
            /\ consumer' = [uid |-> consumer.uid, generation |-> consumer.generation + 1,
                            policy |-> p, busy |-> action]
            /\ Starts(action)
            /\ consumer.uid # None
            /\ action = "update" => Cardinality(accepted) < MaxOperations
            /\ action = "delete" => consumer.generation < MaxOperations
      <4>1. CASE AcceptDelete
        BY <4>1 DEF AcceptDelete, Accept, HostInv, ConsumerShape
      <4>2. CASE \E p \in Policies : AcceptUpdate(p)
        BY <2>1, <4>2 DEF AcceptUpdate, Accept
      <4>. QED
        BY <2>3, <4>1, <4>2
    <3>2. consumer.uid \in Consumers /\ consumer.generation \in Nat
      BY <3>1 DEF HostInv, Generations
    <3>3. /\ consumer.generation <= Cardinality(accepted)
          /\ \A a \in accepted : a.uid = consumer.uid => a.generation <= consumer.generation
      BY <1>1, <2>1, <3>1 DEF HostInv, GenerationsCounted
    <3>4. \A a \in accepted : a.generation \in Nat
      BY DEF HostInv, Generations
    <3>5. \A a \in accepted : a.uid = consumer.uid => a.generation < consumer.generation + 1
      BY <3>2, <3>3, <3>4
    <3> DEFINE g == consumer.generation + 1
    <3>6. g \in Nat /\ g <= MaxOperations /\ g <= Cardinality(accepted) + 1
      BY <2>1, <3>1, <3>2, <3>3
    <3>7. \A a \in accepted : a.uid = consumer.uid => a.generation < g
      BY <3>5
    <3>8. consumer' = [uid |-> consumer.uid, generation |-> g, policy |-> p, busy |-> action]
      BY <3>1
    <3>. HIDE DEF g
    <3>. QED
      BY <3>1, <3>2, <3>6, <3>7, <3>8
  <2>. QED
    BY <2>2, <2>3
<1>3. /\ consumer'.uid = c /\ consumer'.generation = g /\ consumer'.policy = p /\ consumer'.busy = action
      /\ pass' \in {"row", "cancel"} /\ c # None
  BY <1>2, QueueAssumption DEF Starts
<1>4. ConsumerShape'
  BY <1>1, <1>2, <1>3 DEF HostInv, ConsumerShape
<1>5. GenerationsCounted'
  <2>1. /\ IsFiniteSet(accepted') /\ Cardinality(accepted') <= MaxOperations
        /\ consumer'.busy \in {"create", "update"} => Cardinality(accepted') < MaxOperations
    BY <1>1, <1>2, <1>3 DEF HostInv, GenerationsCounted
  <2>2. \A a \in accepted' : a.uid = consumer'.uid =>
          a.generation <= consumer'.generation /\ (consumer'.busy # "idle" => a.generation # consumer'.generation)
    BY <1>1, <1>2, <1>3 DEF HostInv, Generations
  <2>3. consumer'.generation <= Cardinality(accepted') + (IF consumer'.busy = "idle" THEN 0 ELSE 1)
    BY <1>1, <1>2, <1>3
  <2>4. custody'.generation <= Cardinality(accepted')
    BY <1>1 DEF HostInv, GenerationsCounted, RowWritten
  <2>. QED
    BY <2>1, <2>2, <2>3, <2>4 DEF GenerationsCounted
<1>6. g \in Generations
  BY <1>2, QueueAssumption DEF Generations
<1>. QED
  BY <1>1, <1>2, <1>3, <1>4, <1>5, <1>6 DEF HostInv

LEMMA PassHost ==
  ASSUME HostInv, OpCancelUnsent \/ OpRefund \/ PassStops
  PROVE  HostInv'
<1>1. UNCHANGED <<custody, consumer, accepted>> /\ pass # "none" /\ pass' \in {"cancel", "refund", "row"}
  BY DEF OpCancelUnsent, OpRefund, PassStops, Starts
<1>2. ConsumerShape'
  BY <1>1 DEF HostInv, ConsumerShape
<1>3. GenerationsCounted'
  BY <1>1 DEF HostInv, GenerationsCounted, RowWritten, SamePolicy
<1>. QED
  BY <1>1, <1>2, <1>3 DEF HostInv

\* A generation follows the one the row holds only when that is of a finished Operation.
LEMMA RowHost ==
  ASSUME HostInv, OpAttach \/ OpBegin \/ OpFinish
  PROVE  HostInv'
<1>0. /\ Cardinality(accepted) \in Nat /\ MaxOperations \in Nat /\ custody.generation \in Nat
      /\ Cardinality(accepted) <= MaxOperations
  BY QueueAssumption, FS_CardinalityType DEF HostInv, GenerationsCounted, Generations
<1>1. /\ UNCHANGED <<consumer, accepted>> /\ pass # "none" /\ consumer.busy # "idle" /\ consumer.uid # None
      /\ consumer.uid \in Consumers /\ consumer.policy \in Policies
      /\ consumer.busy \in {"create", "update", "delete"}
  BY DEF OpAttach, OpBegin, OpFinish, HostInv, ConsumerShape
<1>2. /\ pass' \in {"final", "reap", "cancel"}
      /\ pass' = "reap" => custody'.consumer = consumer.uid /\ consumer.busy \in {"update", "delete"}
  <2>1. CASE OpAttach
    BY <2>1 DEF OpAttach
  <2>2. CASE OpFinish
    BY <2>2 DEF OpFinish
  <2>3. CASE OpBegin
    BY <2>3 DEF OpBegin, HostInv
  <2>. QED
    BY <2>1, <2>2, <2>3
<1>3. \/ UNCHANGED custody
      \/ /\ custody'.state \in {"retiring", "tombstone"}
         /\ custody.state \in {"active", "retiring"} /\ ~RowWritten
         /\ custody' = [custody EXCEPT !.state = custody'.state]
      \/ /\ custody' = [state |-> "active", generation |-> custody.generation + 1,
                        consumer |-> consumer.uid, policy |-> consumer.policy]
         /\ ~RowWritten /\ consumer.busy \in {"create", "update"}
  <2>1. CASE OpAttach
    BY <2>1 DEF OpAttach, RowWritten
  <2>2. CASE OpFinish
    <3>1. CASE UNCHANGED custody
      BY <3>1
    <3>2. CASE /\ custody.state = "retiring"
               /\ custody' = [state |-> "active", generation |-> custody.generation + 1,
                              consumer |-> consumer.uid, policy |-> consumer.policy]
               /\ consumer.busy = "update"
      BY <3>2 DEF RowWritten
    <3>3. CASE custody.state = "retiring" /\ custody' = Tombstone
      <4>1. custody' = [custody EXCEPT !.state = "tombstone"]
        BY <3>3 DEF Tombstone
      <4>2. custody'.state = "tombstone"
        BY <4>1 DEF HostInv
      <4>. QED
        BY <3>3, <4>1, <4>2 DEF RowWritten
    <3>. QED
      BY <2>2, <3>1, <3>2, <3>3 DEF OpFinish
  <2>3. CASE OpBegin
    <3>1. CASE UNCHANGED custody
      BY <3>1
    <3>2. CASE /\ custody.state \in {"active", "retiring"}
               /\ ~(consumer.busy = "update" /\ custody.state = "active" /\ SamePolicy)
               /\ custody' = [custody EXCEPT !.state = "retiring"]
      <4>1. custody'.state = "retiring"
        BY <3>2 DEF HostInv
      <4>2. ~RowWritten
        BY <2>3, <3>2 DEF RowWritten, OpBegin
      <4>. QED
        BY <3>2, <4>1, <4>2
    <3>. QED
      BY <2>3, <3>1, <3>2 DEF OpBegin
  <2>. QED
    BY <2>1, <2>2, <2>3
<1>4. CASE UNCHANGED custody
  <2>1. ConsumerShape'
    BY <1>1, <1>2, <1>4 DEF HostInv, ConsumerShape
  <2>2. GenerationsCounted'
    BY <1>1, <1>4 DEF HostInv, GenerationsCounted, RowWritten, SamePolicy
  <2>. QED
    BY <1>1, <1>2, <1>4, <2>1, <2>2 DEF HostInv
<1>5. CASE /\ custody'.state \in {"retiring", "tombstone"}
           /\ custody.state \in {"active", "retiring"} /\ ~RowWritten
           /\ custody' = [custody EXCEPT !.state = custody'.state]
  <2>0. custody \in [state: {"none", "active", "retiring", "tombstone"}, generation: Generations,
                     consumer: Consumers \cup {None}, policy: Policies \cup {None}]
    BY DEF HostInv
  <2>1. /\ custody' \in [state: {"none", "active", "retiring", "tombstone"}, generation: Generations,
                         consumer: Consumers \cup {None}, policy: Policies \cup {None}]
        /\ custody'.generation = custody.generation /\ custody'.consumer = custody.consumer
        /\ custody'.policy = custody.policy
    BY <1>5, <2>0
  <2>2. ConsumerShape'
    BY <1>1, <1>2, <1>5, <2>1 DEF HostInv, ConsumerShape
  <2>3. custody'.generation <= Cardinality(accepted)
    BY <1>5, <2>1 DEF HostInv, GenerationsCounted
  <2>4. GenerationsCounted'
    BY <1>1, <2>3 DEF HostInv, GenerationsCounted
  <2>. QED
    BY <1>1, <1>2, <2>1, <2>2, <2>4 DEF HostInv
<1>6. CASE /\ custody' = [state |-> "active", generation |-> custody.generation + 1,
                          consumer |-> consumer.uid, policy |-> consumer.policy]
           /\ ~RowWritten /\ consumer.busy \in {"create", "update"}
  <2>1. custody.generation <= Cardinality(accepted) /\ Cardinality(accepted) < MaxOperations
    BY <1>6 DEF HostInv, GenerationsCounted
  <2>2. custody.generation + 1 \in Generations
    BY <1>0, <2>1 DEF Generations
  <2>3. /\ custody'.state = "active" /\ custody'.consumer = consumer.uid /\ custody'.policy = consumer.policy
        /\ custody'.generation = custody.generation + 1
        /\ custody' \in [state: {"none", "active", "retiring", "tombstone"}, generation: Generations,
                         consumer: Consumers \cup {None}, policy: Policies \cup {None}]
    BY <1>1, <1>6, <2>2
  <2>4. ConsumerShape'
    BY <1>1, <1>2, <2>3 DEF HostInv, ConsumerShape
  <2>5. RowWritten' /\ custody'.generation <= Cardinality(accepted) + 1
    BY <1>0, <1>1, <1>6, <2>1, <2>3 DEF RowWritten, SamePolicy
  <2>6. GenerationsCounted'
    BY <1>1, <2>5 DEF HostInv, GenerationsCounted
  <2>. QED
    BY <1>1, <1>2, <2>3, <2>4, <2>6 DEF HostInv
<1>. QED
  BY <1>3, <1>4, <1>5, <1>6

LEMMA CompleteHost ==
  ASSUME HostInv, OpComplete
  PROVE  HostInv'
<1>0. /\ Cardinality(accepted) \in Nat /\ MaxOperations \in Nat /\ custody.generation \in Nat
      /\ Cardinality(accepted) <= MaxOperations /\ IsFiniteSet(accepted) /\ consumer.generation \in Nat
  BY QueueAssumption, FS_CardinalityType DEF HostInv, GenerationsCounted, Generations
<1>1. /\ UNCHANGED custody /\ pass' = "none" /\ pass # "none" /\ consumer.busy # "idle"
      /\ consumer.uid \in Consumers /\ consumer.policy \in Policies
  BY DEF OpComplete, HostInv, ConsumerShape
<1>2. CASE consumer.busy = "delete"
  <2>1. consumer' = NoConsumer /\ UNCHANGED accepted
    BY <1>2 DEF OpComplete
  <2>2. /\ consumer'.uid = None /\ consumer'.busy = "idle" /\ consumer'.generation = 0
        /\ consumer' \in [uid: Consumers \cup {None}, generation: Generations,
                          policy: Policies \cup {None}, busy: {"idle", "create", "update", "delete"}]
    BY <1>0, <2>1 DEF NoConsumer, Generations
  <2>3. ConsumerShape'
    BY <1>1, <2>2 DEF HostInv, ConsumerShape
  <2>4. custody.generation <= Cardinality(accepted)
    BY <1>2 DEF HostInv, GenerationsCounted, RowWritten
  <2>5. \A a \in accepted : a.uid # None
    BY QueueAssumption DEF HostInv
  <2>6. GenerationsCounted'
    BY <1>0, <1>1, <2>1, <2>2, <2>4, <2>5 DEF HostInv, GenerationsCounted
  <2>. QED
    BY <1>1, <2>1, <2>2, <2>3, <2>6 DEF HostInv
<1>3. CASE consumer.busy # "delete"
  <2> DEFINE new == [uid |-> consumer.uid, generation |-> consumer.generation, policy |-> consumer.policy]
  <2>1. /\ consumer' = [consumer EXCEPT !.busy = "idle"] /\ accepted' = accepted \cup {new}
    BY <1>3 DEF OpComplete
  <2>2. /\ consumer'.uid = consumer.uid /\ consumer'.busy = "idle"
        /\ consumer'.generation = consumer.generation /\ consumer'.policy = consumer.policy
        /\ consumer' \in [uid: Consumers \cup {None}, generation: Generations,
                          policy: Policies \cup {None}, busy: {"idle", "create", "update", "delete"}]
    BY <2>1 DEF HostInv
  <2>3. /\ new \in [uid: Consumers, generation: Generations, policy: Policies]
        /\ new.uid = consumer.uid /\ new.generation = consumer.generation
    BY <1>1 DEF HostInv
  <2>4. new \notin accepted
    BY <1>1, <2>3 DEF HostInv, GenerationsCounted
  <2>. HIDE DEF new
  <2>5. IsFiniteSet(accepted') /\ Cardinality(accepted') = Cardinality(accepted) + 1
    BY <1>0, <2>1, <2>4, FS_AddElement
  <2>6. ConsumerShape'
    BY <1>1, <2>2 DEF HostInv, ConsumerShape
  <2>7. consumer.busy \in {"create", "update"}
    BY <1>1, <1>3 DEF HostInv
  <2>8. /\ Cardinality(accepted) + 1 <= MaxOperations
        /\ consumer.generation <= Cardinality(accepted) + 1
        /\ custody.generation <= Cardinality(accepted) + 1
    BY <1>0, <1>1, <2>7, QueueAssumption DEF HostInv, GenerationsCounted
  <2>9. \A a \in accepted' : a.uid = consumer.uid => a.generation <= consumer.generation
    BY <1>0, <2>1, <2>3 DEF HostInv, GenerationsCounted
  <2>10. GenerationsCounted'
    BY <1>0, <1>1, <2>2, <2>5, <2>8, <2>9 DEF GenerationsCounted
  <2>. QED
    BY <1>1, <2>1, <2>2, <2>3, <2>6, <2>10 DEF HostInv
<1>. QED
  BY <1>2, <1>3

LEMMA HostStep ==
  ASSUME HostInv, ConsumerSteps
  PROVE  HostInv'
BY AcceptHost, PassHost, RowHost, CompleteHost DEF ConsumerSteps

LEMMA TypeStep ==
  ASSUME TypeOK, ConsumerShape, GenerationsCounted, [Next]_vars
  PROVE  TypeOK' /\ ConsumerShape' /\ GenerationsCounted'
<1>1. HostInv'
  <2>1. HostInv
    BY DEF HostInv, TypeOK
  <2>2. CASE ConsumerSteps
    BY <2>1, <2>2, HostStep
  <2>3. CASE UNCHANGED <<custody, consumer, accepted, pass>>
    <3>1. ConsumerShape'
      BY <2>3 DEF ConsumerShape
    <3>2. GenerationsCounted'
      BY <2>3 DEF GenerationsCounted, RowWritten, SamePolicy
    <3>. QED
      BY <2>1, <2>3, <3>1, <3>2 DEF HostInv
  <2>. QED
    BY <2>2, <2>3, MessageLeaves, DeliveryLeaves, TransferLeaves DEF Next, vars
<1>2. /\ receipt' \in [Batches -> [Messages -> {"none", "pending", "ack", "retry"}]]
      /\ driver' \in [Batches -> Drivers]
      /\ native' \in [Batches -> {"none", "running", "ended"}]
  <2>1. CASE \E b \in Batches : DeliverySteps(b)
    BY <2>1, DeliveryTyped
  <2>2. CASE UNCHANGED <<receipt, driver, native>>
    BY <2>2 DEF TypeOK
  <2>. QED
    BY <2>1, <2>2, MessageLeaves, ConsumerLeaves, TransferLeaves DEF Next, vars
<1>3. TypeOK'
  BY <1>1, <1>2, MessagesTyped, ExecutionsTyped, TransfersTyped DEF TypeOK, HostInv
<1>. QED
  BY <1>1, <1>3 DEF HostInv

-----------------------------------------------------------------------------
(* Executions, leases and attempts.                                         *)

LEMMA RefusalsKeepBatchShape ==
  ASSUME TypeOK, BatchShape, NEW S \in SUBSET Messages, GivesBack(S), UNCHANGED native,
         \A b \in Batches : driver'[b] = driver[b] \/ (driver'[b] = "done" /\ driver[b] # "idle")
  PROVE  BatchShape'
<1> SUFFICES ASSUME NEW b \in Batches
             PROVE  /\ driver'[b] = "idle" => exec'[b].state = "none"
                    /\ exec'[b].state = "none" => exec'[b].claims = {}
                    /\ driver'[b] \in {"authorized", "sent"} => exec'[b].state = "send_authorized"
                    /\ driver'[b] \in {"ack", "retry"} => native'[b] = "ended"
                    /\ native'[b] = "running" => exec'[b].state = "send_authorized"
                    /\ native'[b] # "none" => exec'[b].state \in {"send_authorized", "retired"}
  BY DEF BatchShape
<1>1. /\ exec'[b].claims = exec[b].claims
      /\ \/ exec'[b].state = exec[b].state
         \/ exec[b].state \in Unsent /\ exec'[b].state = "pre_effect_refused"
  BY DEF GivesBack
<1>2. UNCHANGED native /\ (driver'[b] = driver[b] \/ driver'[b] = "done")
  OBVIOUS
<1>. QED
  BY <1>1, <1>2 DEF BatchShape, Unsent

LEMMA DeliveryKeepsBatchShape ==
  ASSUME TypeOK, BatchShape, NEW b \in Batches, DeliverySteps(b)
  PROVE  BatchShape'
<1>0. /\ exec \in [Batches -> [state: Open \cup {"none", "pre_effect_refused", "retired"},
                              consumer: Consumers \cup {None}, generation: Generations,
                              policy: Policies \cup {None}, claims: SUBSET Messages]]
      /\ driver \in [Batches -> Drivers] /\ native \in [Batches -> {"none", "running", "ended"}]
  BY DEF TypeOK
<1>1. ASSUME UNCHANGED <<driver, exec, native>>
      PROVE  BatchShape'
  BY <1>1 DEF BatchShape
<1>2. CASE ExpireReservation(b) \/ CancelBeforeSend(b) \/ RefuseAtBoot(b)
  <2>1. GivesBack(LeasedBy(b)) \/ GivesBack({})
    BY <1>2, CancelledGivesBack, ExpireGivesBack DEF CancelBeforeSend, RefuseAtBoot
  <2>2. LeasedBy(b) \in SUBSET Messages /\ {} \in SUBSET Messages
    BY DEF LeasedBy, Queued
  <2>3. UNCHANGED native /\ (UNCHANGED driver \/ (driver' = [driver EXCEPT ![b] = "done"] /\ driver[b] # "idle"))
    BY <1>2 DEF ExpireReservation, CancelBeforeSend, RefuseAtBoot, Goes
  <2>4. \A x \in Batches : driver'[x] = driver[x] \/ (driver'[x] = "done" /\ driver[x] # "idle")
    BY <1>0, <2>3
  <2>. QED
    BY <2>1, <2>2, <2>3, <2>4, RefusalsKeepBatchShape
<1>3. CASE Reserve(b)
  <2>1. /\ exec' = [exec EXCEPT ![b] = [state |-> "reserved", consumer |-> custody.consumer,
                                  generation |-> custody.generation, policy |-> custody.policy,
                                  claims |-> {}]]
        /\ driver[b] = "idle" /\ driver' = [driver EXCEPT ![b] = "reserved"] /\ native' = native
    BY <1>3 DEF Reserve, Goes
  <2>2. /\ exec'[b].state = "reserved" /\ driver'[b] = "reserved"
        /\ \A x \in Batches \ {b} : exec'[x] = exec[x] /\ driver'[x] = driver[x]
    BY <1>0, <2>1
  <2>3. native[b] = "none"
    BY <1>0, <2>1 DEF BatchShape
  <2>. QED
    BY <2>1, <2>2, <2>3 DEF BatchShape
<1>4. CASE \E S \in SUBSET Messages : Claim(b, S)
  <2>1. PICK S \in SUBSET Messages : Claim(b, S)
    BY <1>4
  <2>2. /\ exec' = [exec EXCEPT ![b].claims = S] /\ driver[b] = "reserved" /\ exec[b].state = "reserved"
        /\ \E pc \in {"claimed", "reserved"} : driver' = [driver EXCEPT ![b] = pc]
        /\ native' = native
    BY <2>1 DEF Claim, Goes
  <2>3. /\ exec'[b].state = "reserved" /\ driver'[b] \in {"claimed", "reserved"}
        /\ \A x \in Batches \ {b} : exec'[x] = exec[x] /\ driver'[x] = driver[x]
    BY <1>0, <2>2
  <2>. QED
    BY <2>2, <2>3 DEF BatchShape
<1>5. CASE Register(b)
  <2>1. /\ exec' = [exec EXCEPT ![b].state = "registered"] /\ driver[b] = "claimed"
        /\ exec[b].state = "reserved" /\ UNCHANGED <<driver, native>>
    BY <1>5 DEF Register
  <2>2. exec'[b].state = "registered" /\ \A x \in Batches \ {b} : exec'[x] = exec[x]
    BY <1>0, <2>1
  <2>. QED
    BY <2>1, <2>2 DEF BatchShape
<1>6. CASE AuthorizeSend(b)
  <2>1. /\ exec' = [exec EXCEPT ![b].state = "send_authorized"]
        /\ exec[b].state = "registered" /\ UNCHANGED native
        /\ \E pc \in {"authorized", "done"} : driver' = [driver EXCEPT ![b] = pc]
    BY <1>6 DEF AuthorizeSend, Goes
  <2>2. /\ exec'[b].state = "send_authorized" /\ driver'[b] \in {"authorized", "done"}
        /\ \A x \in Batches \ {b} : exec'[x] = exec[x] /\ driver'[x] = driver[x]
    BY <1>0, <2>1
  <2>. QED
    BY <2>1, <2>2 DEF BatchShape
<1>7. CASE Send(b) \/ Abandon(b) \/ HandlerEnds(b)
  <2>1. exec' = exec /\ (driver[b] = "idle" => native[b] = "running")
    BY <1>7 DEF Send, Abandon, HandlerEnds
  <2>2. \/ native' = [native EXCEPT ![b] = "running"] /\ driver[b] = "authorized" /\ driver' = [driver EXCEPT ![b] = "sent"]
        \/ native' = native /\ driver' = [driver EXCEPT ![b] = "done"]
        \/ /\ native[b] = "running" /\ native' = [native EXCEPT ![b] = "ended"]
           /\ driver' = driver \/ \E pc \in {"ack", "retry"} : driver' = [driver EXCEPT ![b] = pc]
    BY <1>7 DEF Send, Abandon, HandlerEnds, Goes
  <2>3. \A x \in Batches \ {b} : native'[x] = native[x] /\ driver'[x] = driver[x]
    BY <1>0, <2>2
  <2>4. \/ native'[b] = "running" /\ driver'[b] = "sent" /\ driver[b] = "authorized"
        \/ native'[b] = native[b] /\ driver'[b] = "done"
        \/ native[b] = "running" /\ native'[b] = "ended" /\ driver'[b] \in {driver[b], "ack", "retry"}
    BY <1>0, <2>2
  <2>. QED
    BY <2>1, <2>3, <2>4 DEF BatchShape
<1>8. CASE RetireByReceipt(b) \/ RetireAbsent(b)
  <2>1. /\ exec' = [exec EXCEPT ![b].state = "retired"] /\ exec[b].state = "send_authorized"
        /\ \/ driver[b] \in {"ack", "retry"} /\ UNCHANGED <<driver, native>>
           \/ /\ driver' = [driver EXCEPT ![b] = "done"]
              /\ native' = [native EXCEPT ![b] = IF @ = "running" THEN "ended" ELSE @]
    BY <1>8 DEF RetireByReceipt, RetireAbsent, Goes
  <2>2. /\ exec'[b].state = "retired"
        /\ \A x \in Batches \ {b} : exec'[x] = exec[x] /\ driver'[x] = driver[x] /\ native'[x] = native[x]
    BY <1>0, <2>1
  <2>3. \/ driver[b] \in {"ack", "retry"} /\ UNCHANGED <<driver, native>>
        \/ driver'[b] = "done" /\ native'[b] # "running"
    BY <1>0, <2>1
  <2>. QED
    BY <2>1, <2>2, <2>3 DEF BatchShape
<1>9. CASE \/ \E m \in Messages, outcome \in {"ack", "retry"} : TenantSettles(b, m, outcome)
           \/ \E m \in Messages : DefaultSettles(b, m)
  BY <1>1, <1>9 DEF TenantSettles, DefaultSettles
<1>. QED
  BY <1>2, <1>3, <1>4, <1>5, <1>6, <1>7, <1>8, <1>9 DEF DeliverySteps

LEMMA BatchStep ==
  ASSUME TypeOK, BatchShape, [Next]_vars
  PROVE  BatchShape'
<1>1. CASE UNCHANGED <<exec, driver, native>>
  BY <1>1 DEF BatchShape
<1>2. CASE \E m \in Messages : ReapUnsent(m) \/ ReapRefused(m)
  <2>1. PICK m \in Messages : ReapUnsent(m) \/ ReapRefused(m)
    BY <1>2
  <2>2. {m} \in SUBSET Messages /\ GivesBack({m}) /\ UNCHANGED <<native, driver>>
    BY <2>1, ReapGivesBack DEF ReapUnsent, ReapRefused
  <2>. QED
    BY <2>2, RefusalsKeepBatchShape
<1>3. CASE OpRefund \/ OpCancelUnsent
  <2>1. UNCHANGED <<native, driver>>
    BY <1>3 DEF OpRefund, OpCancelUnsent
  <2>. QED
    BY <1>3, <2>1, OperationGivesBack, RefusalsKeepBatchShape
<1>4. ASSUME NEW m \in Messages, MessageSteps(m), ~(ReapUnsent(m) \/ ReapRefused(m))
      PROVE  UNCHANGED <<exec, driver, native>>
  BY <1>4 DEF MessageSteps, Admit, ReapRetired, Sweep, ProgressWindow, TargetSettles
<1>5. ASSUME ConsumerSteps, ~(OpRefund \/ OpCancelUnsent)
      PROVE  UNCHANGED <<exec, driver, native>>
  BY <1>5 DEF ConsumerSteps, AcceptCreate, AcceptUpdate, AcceptDelete, Accept, OpAttach,
              OpBegin, OpFinish, OpComplete, PassStops
<1>6. (TransferSteps \/ UNCHANGED vars) => UNCHANGED <<exec, driver, native>>
  BY TransferLeaves DEF vars
<1>. QED
  BY <1>1, <1>2, <1>3, <1>4, <1>5, <1>6, DeliveryKeepsBatchShape DEF Next

\* Pointwise forms of the kinds that change one execution.
LEMMA KindsPointwise ==
  ASSUME TypeOK, BatchShape, NEW b \in Batches
  PROVE  /\ Reserve(b) =>
              /\ UNCHANGED <<msg, receipt, custody>> /\ exec[b].state = "none" /\ exec'[b].state = "reserved"
              /\ \A x \in Batches \ {b} : exec'[x] = exec[x]
              /\ \A x \in Batches : exec'[x].claims = exec[x].claims
         /\ \A S \in SUBSET Messages : Claim(b, S) =>
              /\ UNCHANGED <<receipt, custody>> /\ exec[b].claims = {} /\ S \subseteq Unleased
              /\ exec[b].state = "reserved" /\ exec'[b].state = "reserved" /\ exec'[b].claims = S
              /\ \A x \in Batches \ {b} : exec'[x] = exec[x]
              /\ \A m \in S : /\ msg'[m].state = "queued" /\ msg'[m].lease = b
                              /\ msg'[m].deliveries = msg[m].deliveries + 1
              /\ \A m \in Messages \ S : msg'[m] = msg[m]
         /\ Register(b) =>
              /\ UNCHANGED <<msg, custody>> /\ exec[b].state = "reserved" /\ exec'[b].state = "registered"
              /\ \A x \in Batches \ {b} : exec'[x] = exec[x] /\ receipt'[x] = receipt[x]
              /\ exec'[b].claims = exec[b].claims /\ exec[b].claims \subseteq LeasedBy(b)
         /\ AuthorizeSend(b) =>
              /\ UNCHANGED <<msg, receipt, custody>>
              /\ exec[b].state = "registered" /\ exec'[b].state = "send_authorized"
              /\ \A x \in Batches \ {b} : exec'[x] = exec[x]
              /\ exec'[b].claims = exec[b].claims
         /\ Retires(b) =>
              /\ UNCHANGED <<msg, receipt>>
              /\ exec[b].state = "send_authorized" /\ exec'[b].state = "retired"
              /\ \A x \in Batches \ {b} : exec'[x] = exec[x]
              /\ exec'[b].claims = exec[b].claims
<1>0. /\ exec \in [Batches -> [state: Open \cup {"none", "pre_effect_refused", "retired"},
                              consumer: Consumers \cup {None}, generation: Generations,
                              policy: Policies \cup {None}, claims: SUBSET Messages]]
      /\ msg \in [Messages -> [state: {"none", "queued"} \cup Fates, deliveries: Nat,
                               lease: Batches \cup {None}]]
      /\ receipt \in [Batches -> [Messages -> {"none", "pending", "ack", "retry"}]]
  BY DEF TypeOK
<1>1. ASSUME Reserve(b)
      PROVE  /\ UNCHANGED <<msg, receipt, custody>> /\ exec[b].state = "none" /\ exec'[b].state = "reserved"
             /\ \A x \in Batches \ {b} : exec'[x] = exec[x]
             /\ \A x \in Batches : exec'[x].claims = exec[x].claims
  <2>1. /\ UNCHANGED <<msg, receipt, custody>> /\ driver[b] = "idle"
        /\ exec' = [exec EXCEPT ![b] = [state |-> "reserved", consumer |-> custody.consumer,
                                  generation |-> custody.generation, policy |-> custody.policy,
                                  claims |-> {}]]
    BY <1>1 DEF Reserve
  <2>2. exec[b].state = "none" /\ exec[b].claims = {}
    BY <2>1 DEF BatchShape
  <2>. QED
    BY <1>0, <2>1, <2>2
<1>2. ASSUME NEW S \in SUBSET Messages, Claim(b, S)
      PROVE  /\ UNCHANGED <<receipt, custody>> /\ exec[b].claims = {} /\ S \subseteq Unleased
             /\ exec[b].state = "reserved" /\ exec'[b].state = "reserved" /\ exec'[b].claims = S
             /\ \A x \in Batches \ {b} : exec'[x] = exec[x]
             /\ \A m \in S : /\ msg'[m].state = "queued" /\ msg'[m].lease = b
                             /\ msg'[m].deliveries = msg[m].deliveries + 1
             /\ \A m \in Messages \ S : msg'[m] = msg[m]
  <2>1. /\ UNCHANGED <<receipt, custody>> /\ exec[b].claims = {} /\ S \subseteq Unleased
        /\ exec[b].state = "reserved" /\ exec' = [exec EXCEPT ![b].claims = S]
        /\ msg' = [m \in Messages |->
               IF m \in S THEN [msg[m] EXCEPT !.deliveries = @ + 1, !.lease = b] ELSE msg[m]]
    BY <1>2 DEF Claim
  <2>2. exec'[b].state = "reserved" /\ exec'[b].claims = S /\ \A x \in Batches \ {b} : exec'[x] = exec[x]
    BY <1>0, <2>1
  <2>3. \A m \in Messages \ S : msg'[m] = msg[m]
    BY <2>1
  <2>4. ASSUME NEW m \in S
        PROVE  /\ msg'[m].state = "queued" /\ msg'[m].lease = b
               /\ msg'[m].deliveries = msg[m].deliveries + 1
    <3>1. m \in Messages /\ msg[m].state = "queued"
      BY <2>1 DEF Unleased, Queued
    <3>2. msg'[m] = [msg[m] EXCEPT !.deliveries = @ + 1, !.lease = b]
      BY <2>1, <3>1
    <3>3. msg[m] \in [state: {"none", "queued"} \cup Fates, deliveries: Nat, lease: Batches \cup {None}]
      BY <1>0, <3>1
    <3>. QED
      BY <3>1, <3>2, <3>3
  <2>. QED
    BY <2>1, <2>2, <2>3, <2>4
<1>3. ASSUME Register(b)
      PROVE  /\ UNCHANGED <<msg, custody>> /\ exec[b].state = "reserved" /\ exec'[b].state = "registered"
             /\ \A x \in Batches \ {b} : exec'[x] = exec[x] /\ receipt'[x] = receipt[x]
             /\ exec'[b].claims = exec[b].claims /\ exec[b].claims \subseteq LeasedBy(b)
  <2>1. /\ UNCHANGED <<msg, custody>> /\ exec[b].state = "reserved" /\ exec[b].claims \subseteq LeasedBy(b)
        /\ exec' = [exec EXCEPT ![b].state = "registered"]
    BY <1>3 DEF Register
  <2>2. \A x \in Batches \ {b} : receipt'[x] = receipt[x]
    BY <1>0, <1>3 DEF Register
  <2>. QED
    BY <1>0, <2>1, <2>2
<1>4. ASSUME AuthorizeSend(b)
      PROVE  /\ UNCHANGED <<msg, receipt, custody>>
             /\ exec[b].state = "registered" /\ exec'[b].state = "send_authorized"
             /\ \A x \in Batches \ {b} : exec'[x] = exec[x]
             /\ exec'[b].claims = exec[b].claims
  <2>1. /\ UNCHANGED <<msg, receipt, custody>> /\ exec[b].state = "registered"
        /\ exec' = [exec EXCEPT ![b].state = "send_authorized"]
    BY <1>4 DEF AuthorizeSend
  <2>. QED
    BY <1>0, <2>1
<1>5. ASSUME Retires(b)
      PROVE  /\ UNCHANGED <<msg, receipt>>
             /\ exec[b].state = "send_authorized" /\ exec'[b].state = "retired"
             /\ \A x \in Batches \ {b} : exec'[x] = exec[x]
             /\ exec'[b].claims = exec[b].claims
  BY <1>0, <1>5 DEF Retires
<1>. QED
  BY <1>1, <1>2, <1>3, <1>4, <1>5

LEMMA AdmitPointwise ==
  ASSUME TypeOK, NEW m \in Messages, Admit(m)
  PROVE  /\ UNCHANGED <<exec, receipt>> /\ msg[m].state = "none"
         /\ msg'[m].state = "queued" /\ msg'[m].lease = msg[m].lease
         /\ msg'[m].deliveries = msg[m].deliveries
         /\ \A x \in Messages \ {m} : msg'[x] = msg[x]
<1>1. UNCHANGED <<exec, receipt>> /\ msg[m].state = "none" /\ msg' = [msg EXCEPT ![m].state = "queued"]
  BY DEF Admit
<1>. QED
  BY <1>1 DEF TypeOK

LEMMA LeaseStep ==
  ASSUME TypeOK, BatchShape, LeaseShape, Kinds
  PROVE  LeaseShape'
<1>0. \A m \in Messages : msg[m].lease \in Batches \cup {None}
  BY DEF TypeOK
<1>1. ASSUME \A b \in Batches : exec'[b].claims = exec[b].claims,
             \A m \in Messages :
               \/ msg'[m] = msg[m]
               \/ msg[m].state = "none" /\ msg'[m].state = "queued" /\ msg'[m].lease = msg[m].lease
               \/ msg'[m].state # "none" /\ msg'[m].lease = None
      PROVE  LeaseShape'
  BY <1>0, <1>1 DEF LeaseShape
<1>2. CASE \E m \in Messages : Admit(m)
  BY <1>1, <1>2, AdmitPointwise
<1>3. CASE \E S \in SUBSET Messages : GivesBack(S)
  <2>1. PICK S \in SUBSET Messages : GivesBack(S)
    BY <1>3
  <2>2. \A b \in Batches : exec'[b].claims = exec[b].claims
    BY <2>1 DEF GivesBack
  <2>3. \A m \in Messages : msg'[m] = msg[m] \/ (msg'[m].state # "none" /\ msg'[m].lease = None)
    BY <2>1, GivenBackQueued
  <2>. QED
    BY <1>1, <2>2, <2>3
<1>4. CASE \E m \in Messages : LetsGo(m)
  <2>1. PICK m \in Messages : LetsGo(m)
    BY <1>4
  <2>2. \A x \in Messages : msg'[x] = msg[x] \/ (msg'[x].state # "none" /\ msg'[x].lease = None)
    BY <2>1 DEF LetsGo, Fates
  <2>3. UNCHANGED exec
    BY <2>1 DEF LetsGo
  <2>. QED
    BY <1>1, <2>2, <2>3
<1>5. CASE \E b \in Batches : \E S \in SUBSET Messages : Claim(b, S)
  <2>1. PICK b \in Batches, S \in SUBSET Messages : Claim(b, S)
    BY <1>5
  <2>2. /\ exec[b].claims = {} /\ S \subseteq Unleased /\ exec'[b].claims = S
        /\ \A x \in Batches \ {b} : exec'[x] = exec[x]
        /\ \A m \in S : msg'[m].state = "queued" /\ msg'[m].lease = b
        /\ \A m \in Messages \ S : msg'[m] = msg[m]
    BY <2>1, KindsPointwise
  <2>. QED
    BY <1>0, <2>2 DEF LeaseShape, Unleased, Queued
<1>6. CASE \/ \E b \in Batches : Reserve(b) \/ Register(b) \/ AuthorizeSend(b) \/ Retires(b)
           \/ UNCHANGED <<msg, exec, receipt>>
  <2>1. UNCHANGED msg /\ \A b \in Batches : exec'[b].claims = exec[b].claims
    BY <1>6, KindsPointwise
  <2>. QED
    BY <1>1, <2>1
<1>. QED
  BY <1>2, <1>3, <1>4, <1>5, <1>6 DEF Kinds

LEMMA ClaimsStep ==
  ASSUME TypeOK, BatchShape, LeaseShape, ClaimsLeased, Kinds
  PROVE  ClaimsLeased'
<1>0. /\ \A m \in Messages : msg[m].lease \in Batches \cup {None}
      /\ \A b \in Batches : exec[b].claims \subseteq Messages
      /\ None \notin Batches
  BY QueueAssumption DEF TypeOK
<1>1. CASE \E m \in Messages : Admit(m)
  <2>1. PICK m \in Messages : Admit(m)
    BY <1>1
  <2>2. /\ UNCHANGED <<exec, receipt>> /\ msg[m].state = "none"
        /\ \A x \in Messages \ {m} : msg'[x] = msg[x]
    BY <2>1, AdmitPointwise
  <2>3. \A b \in Batches : m \notin exec[b].claims
    BY <2>2 DEF LeaseShape
  <2>. QED
    BY <1>0, <2>2, <2>3 DEF ClaimsLeased, LeasedBy, Queued
<1>2. CASE \E S \in SUBSET Messages : GivesBack(S)
  <2>1. PICK S \in SUBSET Messages : GivesBack(S)
    BY <1>2
  <2> SUFFICES ASSUME NEW b \in Batches, NEW m \in exec'[b].claims,
                      \/ exec'[b].state = "registered"
                      \/ exec'[b].state = "send_authorized" /\ receipt'[b][m] = "pending"
               PROVE  m \in LeasedBy(b)' \/ msg'[m].state = "expired"
    BY DEF ClaimsLeased
  <2>2. exec'[b].claims = exec[b].claims /\ exec'[b].state = exec[b].state /\ receipt' = receipt
    BY <2>1 DEF GivesBack
  <2>3. m \in Messages /\ (m \in LeasedBy(b) \/ msg[m].state = "expired")
    BY <1>0, <2>2 DEF ClaimsLeased
  <2>4. m \notin S
    BY <2>1, <2>2, <2>3 DEF GivesBack, LeasedBy, Queued, Unsent
  <2>5. msg'[m] = msg[m]
    BY <2>1, <2>3, <2>4 DEF GivesBack
  <2>. QED
    BY <2>3, <2>5 DEF LeasedBy, Queued
<1>3. CASE \E m \in Messages : LetsGo(m)
  <2>1. PICK m \in Messages : LetsGo(m)
    BY <1>3
  <2> SUFFICES ASSUME NEW b \in Batches, NEW x \in exec'[b].claims,
                      \/ exec'[b].state = "registered"
                      \/ exec'[b].state = "send_authorized" /\ receipt'[b][x] = "pending"
               PROVE  x \in LeasedBy(b)' \/ msg'[x].state = "expired"
    BY DEF ClaimsLeased
  <2>2. UNCHANGED exec /\ x \in Messages /\ m \in Queued
    BY <1>0, <2>1 DEF LetsGo
  <2>3. CASE x # m
    <3>1. receipt'[b][x] = receipt[b][x] /\ msg'[x] = msg[x]
      BY <2>1, <2>2, <2>3 DEF LetsGo
    <3>. QED
      BY <2>2, <3>1 DEF ClaimsLeased, LeasedBy, Queued
  <2>4. CASE x = m /\ b = msg[m].lease
    BY <1>0, <2>1, <2>2, <2>4 DEF LetsGo
  <2>5. CASE x = m /\ b # msg[m].lease
    <3>1. receipt'[b][x] = receipt[b][x]
      BY <2>1, <2>2, <2>5 DEF LetsGo
    <3>2. x \in LeasedBy(b) \/ msg[x].state = "expired"
      BY <2>2, <3>1 DEF ClaimsLeased
    <3>. QED
      BY <2>2, <2>5, <3>2 DEF LeasedBy, Queued
  <2>. QED
    BY <2>3, <2>4, <2>5
<1>4. CASE \E b \in Batches : Reserve(b)
  <2>1. PICK b \in Batches : Reserve(b)
    BY <1>4
  <2>2. /\ UNCHANGED <<msg, receipt>> /\ exec'[b].state = "reserved"
        /\ \A x \in Batches \ {b} : exec'[x] = exec[x]
    BY <2>1, KindsPointwise
  <2>. QED
    BY <2>2 DEF ClaimsLeased, LeasedBy, Queued
<1>5. CASE \E b \in Batches : \E S \in SUBSET Messages : Claim(b, S)
  <2>1. PICK b \in Batches, S \in SUBSET Messages : Claim(b, S)
    BY <1>5
  <2>2. /\ UNCHANGED receipt /\ S \subseteq Unleased /\ exec'[b].state = "reserved"
        /\ \A x \in Batches \ {b} : exec'[x] = exec[x]
        /\ \A m \in Messages \ S : msg'[m] = msg[m]
    BY <2>1, KindsPointwise
  <2> SUFFICES ASSUME NEW x \in Batches, NEW m \in exec'[x].claims,
                      \/ exec'[x].state = "registered"
                      \/ exec'[x].state = "send_authorized" /\ receipt'[x][m] = "pending"
               PROVE  m \in LeasedBy(x)' \/ msg'[m].state = "expired"
    BY DEF ClaimsLeased
  <2>3. x # b /\ exec'[x] = exec[x] /\ m \in Messages
    BY <1>0, <2>2
  <2>4. m \in LeasedBy(x) \/ msg[m].state = "expired"
    BY <2>2, <2>3 DEF ClaimsLeased
  <2>5. m \notin S
    BY <1>0, <2>2, <2>4 DEF LeasedBy, Unleased, Queued
  <2>. QED
    BY <2>2, <2>3, <2>4, <2>5 DEF LeasedBy, Queued
<1>6. CASE \E b \in Batches : Register(b)
  <2>1. PICK b \in Batches : Register(b)
    BY <1>6
  <2>2. /\ UNCHANGED msg /\ exec'[b].state = "registered"
        /\ \A x \in Batches \ {b} : exec'[x] = exec[x] /\ receipt'[x] = receipt[x]
        /\ exec'[b].claims = exec[b].claims /\ exec[b].claims \subseteq LeasedBy(b)
    BY <2>1, KindsPointwise
  <2>. QED
    BY <2>2 DEF ClaimsLeased, LeasedBy, Queued
<1>7. CASE \E b \in Batches : AuthorizeSend(b)
  <2>1. PICK b \in Batches : AuthorizeSend(b)
    BY <1>7
  <2>2. /\ UNCHANGED <<msg, receipt>> /\ exec[b].state = "registered"
        /\ \A x \in Batches \ {b} : exec'[x] = exec[x]
        /\ exec'[b].claims = exec[b].claims
    BY <2>1, KindsPointwise
  <2>. QED
    BY <2>2 DEF ClaimsLeased, LeasedBy, Queued
<1>8. CASE \E b \in Batches : Retires(b)
  <2>1. PICK b \in Batches : Retires(b)
    BY <1>8
  <2>2. /\ UNCHANGED <<msg, receipt>> /\ exec'[b].state = "retired"
        /\ \A x \in Batches \ {b} : exec'[x] = exec[x]
    BY <2>1, KindsPointwise
  <2>. QED
    BY <2>2 DEF ClaimsLeased, LeasedBy, Queued
<1>9. CASE UNCHANGED <<msg, exec, receipt>>
  BY <1>9 DEF ClaimsLeased, LeasedBy, Queued
<1>. QED
  BY <1>1, <1>2, <1>3, <1>4, <1>5, <1>6, <1>7, <1>8, <1>9 DEF Kinds

\* Only the authorization of a send makes an attempt one that may have been delivered.
LEMMA DeliveredKept ==
  ASSUME TypeOK, BatchShape, Kinds, \A b \in Batches : ~AuthorizeSend(b)
  PROVE  \A m \in Messages : Delivered(m)' = Delivered(m)
<1> DEFINE Sent == {"send_authorized", "retired"}
<1>1. ASSUME \A b \in Batches : /\ exec'[b].state \in Sent <=> exec[b].state \in Sent
                                /\ exec[b].state \in Sent => exec'[b].claims = exec[b].claims
      PROVE  \A m \in Messages : Delivered(m)' = Delivered(m)
  BY <1>1 DEF Delivered
<1>2. CASE \E S \in SUBSET Messages : GivesBack(S)
  <2>1. \A b \in Batches :
          /\ exec'[b].claims = exec[b].claims
          /\ \/ exec'[b].state = exec[b].state
             \/ exec[b].state \in Unsent /\ exec'[b].state = "pre_effect_refused"
    BY <1>2 DEF GivesBack
  <2>. QED
    BY <1>1, <2>1 DEF Unsent
<1>3. CASE \E b \in Batches : Reserve(b)
  <2>1. PICK b \in Batches : Reserve(b)
    BY <1>3
  <2>2. /\ exec[b].state = "none" /\ exec'[b].state = "reserved"
        /\ \A x \in Batches \ {b} : exec'[x] = exec[x]
    BY <2>1, KindsPointwise
  <2>. QED
    BY <1>1, <2>2
<1>4. CASE \E b \in Batches : \E S \in SUBSET Messages : Claim(b, S)
  <2>1. PICK b \in Batches, S \in SUBSET Messages : Claim(b, S)
    BY <1>4
  <2>2. /\ exec[b].state = "reserved" /\ exec'[b].state = "reserved"
        /\ \A x \in Batches \ {b} : exec'[x] = exec[x]
    BY <2>1, KindsPointwise
  <2>. QED
    BY <1>1, <2>2
<1>5. CASE \E b \in Batches : Register(b)
  <2>1. PICK b \in Batches : Register(b)
    BY <1>5
  <2>2. /\ exec[b].state = "reserved" /\ exec'[b].state = "registered"
        /\ \A x \in Batches \ {b} : exec'[x] = exec[x]
    BY <2>1, KindsPointwise
  <2>. QED
    BY <1>1, <2>2
<1>6. CASE \E b \in Batches : Retires(b)
  <2>1. PICK b \in Batches : Retires(b)
    BY <1>6
  <2>2. /\ exec[b].state = "send_authorized" /\ exec'[b].state = "retired"
        /\ \A x \in Batches \ {b} : exec'[x] = exec[x] /\ exec'[b].claims = exec[b].claims
    BY <2>1, KindsPointwise
  <2>3. exec'[b].claims = exec[b].claims
    BY <2>1, KindsPointwise
  <2>. QED
    BY <1>1, <2>2, <2>3
<1>7. CASE (\E m \in Messages : Admit(m) \/ LetsGo(m)) \/ UNCHANGED <<msg, exec, receipt>>
  <2>1. UNCHANGED exec
    BY <1>7, AdmitPointwise DEF LetsGo
  <2>. QED
    BY <1>1, <2>1
<1>. QED
  BY <1>2, <1>3, <1>4, <1>5, <1>6, <1>7 DEF Kinds

\* The authorization counts the attempt its batch holds on each message it claimed.
LEMMA DeliveredAuthorized ==
  ASSUME TypeOK, BatchShape, NEW b \in Batches, AuthorizeSend(b), NEW m \in Messages
  PROVE  /\ b \notin Delivered(m)
         /\ Delivered(m)' = IF m \in exec[b].claims THEN Delivered(m) \cup {b} ELSE Delivered(m)
<1>1. /\ exec[b].state = "registered" /\ exec'[b].state = "send_authorized"
      /\ \A x \in Batches \ {b} : exec'[x] = exec[x]
      /\ exec'[b].claims = exec[b].claims
  BY KindsPointwise
<1>. QED
  BY <1>1 DEF Delivered

LEMMA FiniteStep ==
  ASSUME TypeOK, BatchShape, DeliveredFinite, Kinds
  PROVE  DeliveredFinite'
<1>1. CASE \E b \in Batches : AuthorizeSend(b)
  <2>1. PICK b \in Batches : AuthorizeSend(b)
    BY <1>1
  <2> SUFFICES ASSUME NEW m \in Messages
               PROVE  IsFiniteSet(Delivered(m)')
    BY DEF DeliveredFinite
  <2>2. IsFiniteSet(Delivered(m)) /\ IsFiniteSet(Delivered(m) \cup {b})
    BY FS_AddElement DEF DeliveredFinite
  <2>. QED
    BY <2>1, <2>2, DeliveredAuthorized
<1>2. CASE \A b \in Batches : ~AuthorizeSend(b)
  BY <1>2, DeliveredKept DEF DeliveredFinite
<1>. QED
  BY <1>1, <1>2

\* A lease of a sent batch is counted among what was delivered.
LEMMA LeaseDelivered ==
  ASSUME LeaseShape, NEW m \in Queued, msg[m].lease \in Batches, msg[m].lease # None
  PROVE  msg[m].lease \in Delivered(m) <=> exec[msg[m].lease].state \in {"send_authorized", "retired"}
BY DEF LeaseShape, Delivered, Queued

LEMMA AttemptsStep ==
  ASSUME TypeOK, BatchShape, LeaseShape, ClaimsLeased, DeliveredFinite, AttemptsAccounted, Kinds
  PROVE  AttemptsAccounted'
<1> SUFFICES ASSUME NEW m \in Messages, msg'[m].state = "queued"
             PROVE  msg'[m].deliveries =
                      Cardinality(Delivered(m)')
                        + (IF msg'[m].lease # None /\ msg'[m].lease \notin Delivered(m)' THEN 1 ELSE 0)
  BY DEF AttemptsAccounted, Queued
<1>0. /\ msg[m].deliveries \in Nat /\ msg[m].lease \in Batches \cup {None} /\ None \notin Batches
      /\ Cardinality(Delivered(m)) \in Nat
  BY QueueAssumption, FS_CardinalityType DEF TypeOK, DeliveredFinite
<1>1. ASSUME msg[m].state = "queued"
      PROVE  /\ m \in Queued
             /\ msg[m].deliveries = Cardinality(Delivered(m))
                  + (IF msg[m].lease # None /\ msg[m].lease \notin Delivered(m) THEN 1 ELSE 0)
  BY <1>1 DEF AttemptsAccounted, Queued
<1>2. ASSUME msg'[m] = msg[m], Delivered(m)' = Delivered(m)
      PROVE  msg'[m].deliveries =
               Cardinality(Delivered(m)')
                 + (IF msg'[m].lease # None /\ msg'[m].lease \notin Delivered(m)' THEN 1 ELSE 0)
  BY <1>1, <1>2
<1>3. CASE \E b \in Batches : AuthorizeSend(b)
  <2>1. PICK b \in Batches : AuthorizeSend(b)
    BY <1>3
  <2>2. UNCHANGED msg /\ exec[b].state = "registered"
    BY <2>1, KindsPointwise
  <2>3. CASE m \notin exec[b].claims
    <3>1. Delivered(m)' = Delivered(m)
      BY <2>1, <2>3, DeliveredAuthorized
    <3>. QED
      BY <1>2, <2>2, <3>1
  <2>4. CASE m \in exec[b].claims
    <3>1. msg[m].state = "queued" /\ msg[m].lease = b
      BY <2>2, <2>4 DEF ClaimsLeased, LeasedBy, Queued
    <3>2. b \notin Delivered(m) /\ Delivered(m)' = Delivered(m) \cup {b}
      BY <2>1, <2>4, DeliveredAuthorized
    <3>3. Cardinality(Delivered(m)') = Cardinality(Delivered(m)) + 1
      BY <3>2, FS_AddElement DEF DeliveredFinite
    <3>4. msg[m].deliveries = Cardinality(Delivered(m)) + 1
      BY <1>0, <1>1, <3>1, <3>2
    <3>. QED
      BY <1>0, <2>2, <3>1, <3>2, <3>3, <3>4
  <2>. QED
    BY <2>3, <2>4
<1>4. CASE \A b \in Batches : ~AuthorizeSend(b)
  <2>0. Delivered(m)' = Delivered(m)
    BY <1>4, DeliveredKept
  <2>1. CASE \E x \in Messages : Admit(x)
    <3>1. PICK x \in Messages : Admit(x)
      BY <2>1
    <3>2. /\ msg[x].state = "none" /\ msg'[x].lease = msg[x].lease
          /\ msg'[x].deliveries = msg[x].deliveries
          /\ \A y \in Messages \ {x} : msg'[y] = msg[y]
      BY <3>1, AdmitPointwise
    <3>3. CASE m = x
      <4>1. msg[m].lease = None /\ msg[m].deliveries = 0 /\ Delivered(m) = {}
        BY <3>2, <3>3 DEF LeaseShape, Delivered
      <4>2. Cardinality({}) = 0
        BY FS_EmptySet
      <4>. QED
        BY <2>0, <3>2, <3>3, <4>1, <4>2
    <3>. QED
      BY <1>2, <2>0, <3>2, <3>3
  <2>2. CASE \E S \in SUBSET Messages : GivesBack(S)
    <3>1. PICK S \in SUBSET Messages : GivesBack(S)
      BY <2>2
    <3>2. CASE m \notin S
      <4>1. msg'[m] = msg[m]
        BY <3>1, <3>2 DEF GivesBack
      <4>. QED
        BY <1>2, <2>0, <4>1
    <3>3. CASE m \in S
      <4>1. /\ m \in Queued /\ msg[m].lease \in Batches
            /\ exec[msg[m].lease].state \in Unsent \cup {"pre_effect_refused"}
            /\ msg'[m] = [state |-> "queued", lease |-> None,
                          deliveries |-> IF msg[m].deliveries > 0 THEN msg[m].deliveries - 1 ELSE 0]
        BY <3>1, <3>3 DEF GivesBack
      <4>2. msg[m].lease # None /\ msg[m].lease \notin Delivered(m)
        BY <1>0, <4>1 DEF Delivered, Unsent
      <4>3. msg[m].deliveries = Cardinality(Delivered(m)) + 1
        BY <1>0, <1>1, <4>1, <4>2 DEF Queued
      <4>4. msg'[m].lease = None
            /\ msg'[m].deliveries = IF msg[m].deliveries > 0 THEN msg[m].deliveries - 1 ELSE 0
        BY <4>1
      <4>. QED
        BY <1>0, <2>0, <4>3, <4>4
    <3>. QED
      BY <3>2, <3>3
  <2>3. CASE \E x \in Messages : LetsGo(x)
    <3>1. PICK x \in Messages : LetsGo(x)
      BY <2>3
    <3>2. CASE m # x
      <4>1. msg'[m] = msg[m]
        BY <3>1, <3>2 DEF LetsGo
      <4>. QED
        BY <1>2, <2>0, <4>1
    <3>3. CASE m = x
      <4>1. /\ m \in Queued /\ msg'[m].lease = None /\ msg'[m].deliveries = msg[m].deliveries
            /\ \/ msg[m].lease = None
               \/ /\ msg[m].lease \in Batches
                  /\ exec[msg[m].lease].state \in {"send_authorized", "retired"}
        BY <3>1, <3>3 DEF LetsGo
      <4>2. msg[m].lease = None \/ msg[m].lease \in Delivered(m)
        BY <1>0, <4>1, LeaseDelivered
      <4>3. msg[m].deliveries = Cardinality(Delivered(m))
        BY <1>0, <1>1, <4>1, <4>2 DEF Queued
      <4>. QED
        BY <1>0, <2>0, <4>1, <4>3
    <3>. QED
      BY <3>2, <3>3
  <2>4. CASE \E b \in Batches : \E S \in SUBSET Messages : Claim(b, S)
    <3>1. PICK b \in Batches, S \in SUBSET Messages : Claim(b, S)
      BY <2>4
    <3>2. /\ S \subseteq Unleased /\ exec[b].state = "reserved"
          /\ \A x \in S : /\ msg'[x].state = "queued" /\ msg'[x].lease = b
                          /\ msg'[x].deliveries = msg[x].deliveries + 1
          /\ \A x \in Messages \ S : msg'[x] = msg[x]
      BY <3>1, KindsPointwise
    <3>3. CASE m \in S
      <4>1. msg[m].state = "queued" /\ msg[m].lease = None /\ b \notin Delivered(m)
        BY <3>2, <3>3 DEF Unleased, Queued, Delivered
      <4>2. msg[m].deliveries = Cardinality(Delivered(m))
        BY <1>0, <1>1, <4>1
      <4>. QED
        BY <1>0, <2>0, <3>2, <3>3, <4>1, <4>2
    <3>. QED
      BY <1>2, <2>0, <3>2, <3>3
  <2>5. CASE \/ \E b \in Batches : Reserve(b) \/ Register(b) \/ Retires(b)
             \/ UNCHANGED <<msg, exec, receipt>>
    <3>1. UNCHANGED msg
      BY <2>5, KindsPointwise
    <3>. QED
      BY <1>2, <2>0, <3>1
  <2>. QED
    BY <1>4, <2>1, <2>2, <2>3, <2>4, <2>5 DEF Kinds
<1>. QED
  BY <1>3, <1>4

-----------------------------------------------------------------------------
(* Generations.                                                             *)

LEMMA ReservedIdentity ==
  ASSUME TypeOK, Kinds, NEW b \in Batches, ~Reserve(b)
  PROVE  exec'[b].consumer = exec[b].consumer /\ exec'[b].generation = exec[b].generation
<1>0. exec \in [Batches -> [state: Open \cup {"none", "pre_effect_refused", "retired"},
                              consumer: Consumers \cup {None}, generation: Generations,
                              policy: Policies \cup {None}, claims: SUBSET Messages]]
  BY DEF TypeOK
<1>1. CASE \E S \in SUBSET Messages : GivesBack(S)
  BY <1>1 DEF GivesBack
<1>2. CASE (\E m \in Messages : Admit(m) \/ LetsGo(m)) \/ UNCHANGED <<msg, exec, receipt>>
  BY <1>2 DEF Admit, LetsGo
<1>3. CASE \E x \in Batches : Reserve(x)
  <2>1. PICK x \in Batches : Reserve(x)
    BY <1>3
  <2>2. x # b /\ exec' = [exec EXCEPT ![x] = [state |-> "reserved", consumer |-> custody.consumer,
                                  generation |-> custody.generation, policy |-> custody.policy,
                                  claims |-> {}]]
    BY <2>1 DEF Reserve
  <2>. QED
    BY <1>0, <2>2
<1>4. CASE \E x \in Batches : \E S \in SUBSET Messages : Claim(x, S)
  <2>1. PICK x \in Batches, S \in SUBSET Messages : exec' = [exec EXCEPT ![x].claims = S]
    BY <1>4 DEF Claim
  <2>. QED
    BY <1>0, <2>1
<1>5. CASE \E x \in Batches : Register(x) \/ AuthorizeSend(x) \/ Retires(x)
  <2>1. PICK x \in Batches, s \in {"registered", "send_authorized", "retired"} :
          exec' = [exec EXCEPT ![x].state = s]
    BY <1>5 DEF Register, AuthorizeSend, Retires
  <2>. QED
    BY <1>0, <2>1
<1>. QED
  BY <1>1, <1>2, <1>3, <1>4, <1>5 DEF Kinds

\* Nothing but a reservation starts the work of a batch.
LEMMA WorkStarts ==
  ASSUME TypeOK, BatchShape, LeaseShape, Kinds, NEW b \in Batches, ~Reserve(b),
         exec'[b].state \in Open \/ LeasedBy(b)' # {}
  PROVE  exec[b].state \in Open \/ LeasedBy(b) # {}
<1>0. None \notin Batches /\ \A m \in Messages : msg[m].lease \in Batches \cup {None}
  BY QueueAssumption DEF TypeOK
<1>1. ASSUME exec'[b].state \in Open => exec[b].state \in Open,
             \A m \in Messages : msg'[m] = msg[m] \/ msg'[m].lease # b \/ exec[b].state \in Open
      PROVE  exec[b].state \in Open \/ LeasedBy(b) # {}
  BY <1>1 DEF LeasedBy, Queued
<1>2. CASE \E m \in Messages : Admit(m)
  <2>1. PICK m \in Messages : Admit(m)
    BY <1>2
  <2>2. /\ UNCHANGED exec /\ msg[m].state = "none" /\ msg'[m].lease = msg[m].lease
        /\ \A x \in Messages \ {m} : msg'[x] = msg[x]
    BY <2>1, AdmitPointwise
  <2>3. msg'[m].lease # b
    BY <1>0, <2>2 DEF LeaseShape
  <2>. QED
    BY <1>1, <2>2, <2>3
<1>3. CASE \E S \in SUBSET Messages : GivesBack(S)
  <2>1. PICK S \in SUBSET Messages : GivesBack(S)
    BY <1>3
  <2>2. exec'[b].state \in Open => exec[b].state \in Open
    BY <2>1 DEF GivesBack, Open, Unsent
  <2>3. \A m \in Messages \ S : msg'[m] = msg[m]
    BY <2>1 DEF GivesBack
  <2>4. ASSUME NEW m \in S
        PROVE  msg'[m].lease # b
    <3>1. msg'[m] = [state |-> "queued", lease |-> None,
                     deliveries |-> IF msg[m].deliveries > 0 THEN msg[m].deliveries - 1 ELSE 0]
      BY <2>1 DEF GivesBack
    <3>. QED
      BY <1>0, <3>1
  <2>. QED
    BY <1>1, <2>2, <2>3, <2>4
<1>4. CASE \E m \in Messages : LetsGo(m)
  <2>1. PICK m \in Messages : LetsGo(m)
    BY <1>4
  <2>2. UNCHANGED exec /\ msg'[m].lease = None /\ \A x \in Messages \ {m} : msg'[x] = msg[x]
    BY <2>1 DEF LetsGo
  <2>. QED
    BY <1>0, <1>1, <2>2
<1>5. CASE \E x \in Batches : Reserve(x)
  <2>1. PICK x \in Batches : Reserve(x)
    BY <1>5
  <2>2. x # b /\ UNCHANGED msg /\ exec'[b] = exec[b]
    BY <2>1, KindsPointwise
  <2>. QED
    BY <1>1, <2>2
<1>6. CASE \E x \in Batches : \E S \in SUBSET Messages : Claim(x, S)
  <2>1. PICK x \in Batches, S \in SUBSET Messages : Claim(x, S)
    BY <1>6
  <2>2. /\ exec[x].state = "reserved" /\ exec'[x].state = "reserved"
        /\ \A y \in Batches \ {x} : exec'[y] = exec[y]
        /\ \A m \in S : msg'[m].lease = x
        /\ \A m \in Messages \ S : msg'[m] = msg[m]
    BY <2>1, KindsPointwise
  <2>. QED
    BY <1>1, <2>2 DEF Open, Unsent
<1>7. CASE \E x \in Batches : Register(x) \/ AuthorizeSend(x) \/ Retires(x)
  <2>1. PICK x \in Batches : Register(x) \/ AuthorizeSend(x) \/ Retires(x)
    BY <1>7
  <2>2. /\ UNCHANGED msg /\ exec[x].state \in {"reserved", "registered", "send_authorized"}
        /\ \A y \in Batches \ {x} : exec'[y] = exec[y]
    BY <2>1, KindsPointwise
  <2>. QED
    BY <1>1, <2>2 DEF Open, Unsent
<1>8. CASE UNCHANGED <<msg, exec, receipt>>
  BY <1>1, <1>8
<1>. QED
  BY <1>2, <1>3, <1>4, <1>5, <1>6, <1>7, <1>8 DEF Kinds

\* Only a batch whose send is authorized is given a handler.
LEMMA NativeStarts ==
  ASSUME TypeOK, BatchShape, [Next]_vars, NEW b \in Batches, native'[b] = "running"
  PROVE  exec[b].state = "send_authorized"
<1>0. native \in [Batches -> {"none", "running", "ended"}]
  BY DEF TypeOK
<1>1. CASE native'[b] = native[b]
  BY <1>1 DEF BatchShape
<1>2. CASE \E x \in Batches : DeliverySteps(x)
  <2>1. PICK x \in Batches : DeliverySteps(x)
    BY <1>2
  <2>2. CASE Send(x)
    <3>1. driver[x] = "authorized" /\ native' = [native EXCEPT ![x] = "running"]
      BY <2>2 DEF Send
    <3>. QED
      BY <1>0, <1>1, <3>1 DEF BatchShape
  <2>3. CASE HandlerEnds(x) \/ RetireAbsent(x)
    <3>1. \/ native' = [native EXCEPT ![x] = "ended"]
          \/ native' = [native EXCEPT ![x] = IF @ = "running" THEN "ended" ELSE @]
      BY <2>3 DEF HandlerEnds, RetireAbsent
    <3>. QED
      BY <1>0, <1>1, <3>1
  <2>4. CASE ~(Send(x) \/ HandlerEnds(x) \/ RetireAbsent(x))
    <3>1. UNCHANGED native
      BY <2>1, <2>4 DEF DeliverySteps, Reserve, ExpireReservation, Claim, Register, AuthorizeSend, Abandon,
         CancelBeforeSend, RefuseAtBoot, TenantSettles, DefaultSettles, RetireByReceipt
    <3>. QED
      BY <1>1, <3>1
  <2>. QED
    BY <2>2, <2>3, <2>4
<1>3. CASE UNCHANGED native
  BY <1>1, <1>3
<1>. QED
  BY <1>2, <1>3, MessageLeaves, ConsumerLeaves, TransferLeaves DEF Next, vars

\* What a step does to the custody row.
LEMMA CustodyForms ==
  ASSUME [Next]_vars
  PROVE  UNCHANGED custody \/ OpAttach \/ OpBegin \/ OpFinish
<1>1. CASE ConsumerSteps
  BY <1>1 DEF ConsumerSteps, AcceptCreate, AcceptUpdate, AcceptDelete, Accept, OpCancelUnsent, OpRefund,
              OpComplete, PassStops
<1>. QED
  BY <1>1, MessageLeaves, DeliveryLeaves, TransferLeaves DEF Next, vars

LEMMA GenerationsStep ==
  ASSUME TypeOK, ConsumerShape, BatchShape, LeaseShape, OldGenerationsIdle, [Next]_vars
  PROVE  OldGenerationsIdle'
<1>0. Kinds
  BY StepKinds
<1> DEFINE Works(b) == native[b] = "running" \/ exec[b].state \in Open \/ LeasedBy(b) # {}
<1> SUFFICES ASSUME NEW b \in Batches, Works(b)'
             PROVE  OwnGeneration(b, {"active", "retiring"})'
  BY DEF OldGenerationsIdle
<1>1. CASE UNCHANGED custody
  <2>1. CASE Reserve(b)
    <3>1. /\ custody.state = "active"
          /\ exec' = [exec EXCEPT ![b] = [state |-> "reserved", consumer |-> custody.consumer,
                                  generation |-> custody.generation, policy |-> custody.policy,
                                  claims |-> {}]]
      BY <2>1 DEF Reserve
    <3>2. exec'[b].consumer = custody.consumer /\ exec'[b].generation = custody.generation
      BY <3>1 DEF TypeOK
    <3>. QED
      BY <1>1, <3>1, <3>2 DEF OwnGeneration
  <2>2. CASE ~Reserve(b)
    <3>1. exec'[b].consumer = exec[b].consumer /\ exec'[b].generation = exec[b].generation
      BY <1>0, <2>2, ReservedIdentity
    <3>2. exec[b].state \in Open \/ LeasedBy(b) # {}
      <4>1. CASE native'[b] = "running"
        BY <4>1, NativeStarts DEF Open
      <4>2. CASE exec'[b].state \in Open \/ LeasedBy(b)' # {}
        BY <1>0, <2>2, <4>2, WorkStarts
      <4>. QED
        BY <4>1, <4>2
    <3>3. OwnGeneration(b, {"active", "retiring"})
      BY <3>2 DEF OldGenerationsIdle
    <3>. QED
      BY <1>1, <3>1, <3>3 DEF OwnGeneration
  <2>. QED
    BY <2>1, <2>2
<1>2. CASE ~UNCHANGED custody
  <2>1. OpAttach \/ OpBegin \/ OpFinish
    BY <1>2, CustodyForms
  <2>2. UNCHANGED <<msg, exec, native>>
    BY <2>1 DEF OpAttach, OpBegin, OpFinish
  <2>3. Works(b)
    BY <2>2 DEF LeasedBy, Queued
  <2>4. OwnGeneration(b, {"active", "retiring"})
    BY <2>3 DEF OldGenerationsIdle
  <2>5. exec[b].state \in Open \/ LeasedBy(b) # {}
    BY <2>3 DEF BatchShape, Open
  <2>6. ~OpAttach
    BY <1>2, <2>4 DEF OpAttach, OwnGeneration
  <2>7. ~OpFinish
    <3>1. SUFFICES ASSUME OpFinish
                   PROVE  FALSE
      OBVIOUS
    <3>2. custody.state = "retiring" /\ Drained /\ pass = "reap"
      BY <1>2, <3>1 DEF OpFinish
    <3>3. exec[b].consumer = consumer.uid /\ OwnGeneration(b, {"retiring"})
      BY <2>4, <3>2 DEF ConsumerShape, OwnGeneration
    <3>4. exec[b].state \notin Open
      BY <3>2, <3>3 DEF Drained, OpenOf
    <3>5. LeasedBy(b) = {}
      <4>1. SUFFICES ASSUME NEW m \in LeasedBy(b)
                     PROVE  FALSE
        OBVIOUS
      <4>2. m \in Queued /\ msg[m].lease = b /\ b # None
        BY QueueAssumption DEF LeasedBy
      <4>. QED
        BY <3>2, <3>3, <4>2 DEF Drained, NoLeaseOrNotice
    <3>. QED
      BY <2>5, <3>4, <3>5
  <2>8. OpBegin
    BY <2>1, <2>6, <2>7
  <2>9. custody' = [custody EXCEPT !.state = "retiring"]
    BY <1>2, <2>8 DEF OpBegin
  <2>10. /\ custody'.state = "retiring" /\ custody'.consumer = custody.consumer
         /\ custody'.generation = custody.generation
    BY <2>9 DEF TypeOK
  <2>. QED
    BY <2>2, <2>4, <2>10 DEF OwnGeneration
<1>. QED
  BY <1>1, <1>2

-----------------------------------------------------------------------------
(* Dead letters and their notices.                                          *)

LEMMA DeadStaysDead ==
  ASSUME TypeOK, BatchShape, Kinds, NEW m \in Messages, msg[m].state = "dead"
  PROVE  msg'[m].state = "dead"
<1>1. CASE \E x \in Messages : Admit(x)
  <2>1. PICK x \in Messages : Admit(x)
    BY <1>1
  <2>2. msg[x].state = "none" /\ \A y \in Messages \ {x} : msg'[y] = msg[y]
    BY <2>1, AdmitPointwise
  <2>. QED
    BY <2>2
<1>2. CASE \E S \in SUBSET Messages : GivesBack(S)
  BY <1>2 DEF GivesBack, Queued
<1>3. CASE \E x \in Messages : LetsGo(x)
  BY <1>3 DEF LetsGo, Queued
<1>4. CASE \E b \in Batches : \E S \in SUBSET Messages : Claim(b, S)
  <2>1. PICK b \in Batches, S \in SUBSET Messages : Claim(b, S)
    BY <1>4
  <2>2. S \subseteq Unleased /\ \A x \in Messages \ S : msg'[x] = msg[x]
    BY <2>1, KindsPointwise
  <2>. QED
    BY <2>2 DEF Unleased, Queued
<1>5. CASE \/ \E b \in Batches : Reserve(b) \/ Register(b) \/ AuthorizeSend(b) \/ Retires(b)
           \/ UNCHANGED <<msg, exec, receipt>>
  <2>1. UNCHANGED msg
    BY <1>5, KindsPointwise
  <2>. QED
    BY <2>1
<1>. QED
  BY <1>1, <1>2, <1>3, <1>4, <1>5 DEF Kinds

LEMMA CopiesStep ==
  ASSUME CopiesNoticed, NoticesKept, [Next]_vars
  PROVE  CopiesNoticed'
<1>1. CASE UNCHANGED <<copies, notices, wakes, seen>>
  BY <1>1 DEF CopiesNoticed
<1>2. CASE \E m \in Messages : DeadLettered(m)
  <2>1. PICK m \in Messages : DeadLettered(m)
    BY <1>2
  <2> DEFINE new == [consumer |-> custody.consumer, generation |-> custody.generation, copy |-> m]
             copy == [message |-> m, generation |-> custody.generation]
  <2>2. /\ new \in notices' /\ new.generation = custody.generation /\ UNCHANGED seen
        /\ copies' = copies \cup {copy} /\ copy.generation = custody.generation
        /\ \A n \in notices : n \in notices' \/ n.generation = custody.generation
    BY <2>1 DEF DeadLettered, Noticed
  <2>. HIDE DEF new, copy
  <2>. QED
    BY <2>2 DEF CopiesNoticed
<1>3. CASE \E m \in Messages : TargetSettles(m)
  BY <1>3 DEF TargetSettles, CopiesNoticed
<1>4. CASE TransferSteps
  <2>1. CASE \E n \in notices : WakeSettled(n)
    BY <2>1 DEF WakeSettled, CopiesNoticed
  <2>2. CASE \E n \in notices : WakeSchedule(n)
    BY <2>2 DEF WakeSchedule, CopiesNoticed
  <2>3. CASE \E n \in wakes : WakeDone(n)
    BY <2>3 DEF WakeDone, Acknowledge, CopiesNoticed, NoticesKept
  <2>. QED
    BY <1>4, <2>1, <2>2, <2>3 DEF TransferSteps
<1>. QED
  BY <1>1, <1>2, <1>3, <1>4, TransferForms

LEMMA NoticesStep ==
  ASSUME TypeOK, BatchShape, NoticesKept, [Next]_vars
  PROVE  NoticesKept'
<1>0. /\ notices \subseteq [consumer: Consumers, generation: Generations, copy: Messages]
      /\ wakes \subseteq [consumer: Consumers, generation: Generations, copy: Messages]
      /\ custody \in [state: {"none", "active", "retiring", "tombstone"}, generation: Generations,
                      consumer: Consumers \cup {None}, policy: Policies \cup {None}]
  BY DEF TypeOK
<1>1. \A m \in Messages : msg[m].state = "dead" => msg'[m].state = "dead"
  BY StepKinds, DeadStaysDead
<1>2. \A n \in notices \cup wakes : msg'[n.copy].state = "dead"
  BY <1>0, <1>1 DEF NoticesKept
<1>3. \A n \in notices \cup wakes :
        /\ n.generation <= custody'.generation
        /\ n.generation = custody'.generation => n.consumer = custody'.consumer
  <2>1. CASE custody'.generation = custody.generation /\ custody'.consumer = custody.consumer
    BY <2>1 DEF NoticesKept
  <2>2. CASE custody'.generation = custody.generation + 1
    <3>1. custody.generation \in Nat /\ \A n \in notices \cup wakes : n.generation \in Nat
      BY <1>0, QueueAssumption DEF Generations
    <3>. QED
      BY <2>2, <3>1 DEF NoticesKept
  <2>3. CASE OpAttach \/ OpFinish \/ OpBegin
    <3>1. \/ UNCHANGED custody
          \/ custody' = [custody EXCEPT !.state = "retiring"]
          \/ custody' = [custody EXCEPT !.state = "tombstone"]
          \/ custody' = [state |-> "active", generation |-> custody.generation + 1,
                         consumer |-> consumer.uid, policy |-> consumer.policy]
      BY <2>3 DEF OpAttach, OpFinish, OpBegin, Tombstone
    <3>. QED
      BY <1>0, <2>1, <2>2, <3>1
  <2>. QED
    BY <2>1, <2>3, CustodyForms
<1>4. CASE UNCHANGED <<copies, notices, wakes, seen>>
  BY <1>2, <1>3, <1>4 DEF NoticesKept
<1>5. CASE \E m \in Messages : DeadLettered(m)
  <2>1. PICK m \in Messages : DeadLettered(m)
    BY <1>5
  <2> DEFINE new == [consumer |-> custody.consumer, generation |-> custody.generation, copy |-> m]
             copy == [message |-> m, generation |-> custody.generation]
  <2>2. /\ UNCHANGED <<custody, wakes, seen>> /\ copies' = copies \cup {copy} /\ copy.generation = custody.generation
        /\ m \in Queued
    BY <2>1 DEF DeadLettered
  <2>3. msg'[m].state = "dead"
    <3>1. msg' = Removed(m, "dead")
      BY <2>1 DEF DeadLettered
    <3>2. msg'[m] = [state |-> "dead", deliveries |-> msg[m].deliveries, lease |-> None]
      BY <3>1, RemovedPointwise
    <3>. QED
      BY <3>2
  <2>4. /\ new.copy = m /\ new.generation = custody.generation /\ new.consumer = custody.consumer
        /\ \A n \in notices' : n = new \/
             (n \in notices /\ ~(n.consumer = custody.consumer /\ n.generation = custody.generation))
    BY <2>1 DEF DeadLettered, Noticed
  <2>5. new \notin wakes
    BY <2>2, <2>4 DEF NoticesKept, Queued
  <2>. HIDE DEF new, copy
  <2>6. custody.generation \in Nat
    BY <1>0, QueueAssumption DEF Generations
  <2>7. \A n \in notices' \cup wakes' :
          /\ msg'[n.copy].state = "dead"
          /\ n.generation <= custody'.generation
          /\ n.generation = custody'.generation => n.consumer = custody'.consumer
    BY <1>2, <1>3, <2>2, <2>3, <2>4, <2>6
  <2>8. \A n \in notices' \cap wakes' : n \in notices \cap wakes /\ n.generation # custody.generation
    BY <2>2, <2>4, <2>5 DEF NoticesKept
  <2>9. \A n \in notices' \cap wakes' : \A k \in copies' : k.generation = n.generation => k.message \in seen'
    BY <2>2, <2>8 DEF NoticesKept
  <2>. QED
    BY <2>7, <2>9 DEF NoticesKept
<1>6. CASE \E m \in Messages : TargetSettles(m)
  <2>1. UNCHANGED <<notices, wakes, seen>> /\ copies' \subseteq copies
    BY <1>6 DEF TargetSettles
  <2>. QED
    BY <1>2, <1>3, <2>1 DEF NoticesKept
<1>7. CASE TransferSteps
  <2>1. CASE \E n \in notices : WakeSettled(n)
    BY <1>2, <1>3, <2>1 DEF WakeSettled, NoticesKept
  <2>2. CASE \E n \in notices : WakeSchedule(n)
    BY <1>2, <1>3, <2>2 DEF WakeSchedule, NoticesKept
  <2>3. CASE \E n \in wakes : WakeDone(n)
    BY <1>2, <1>3, <2>3 DEF WakeDone, Acknowledge, NoticesKept
  <2>. QED
    BY <1>7, <2>1, <2>2, <2>3 DEF TransferSteps
<1>. QED
  BY <1>4, <1>5, <1>6, <1>7, TransferForms

-----------------------------------------------------------------------------
(* The invariant and what follows from it.                                  *)

LEMMA InitInv ==
  ASSUME Init
  PROVE  QueueInv
<1>0. 0 \in Generations /\ Cardinality({}) = 0 /\ IsFiniteSet({}) /\ MaxOperations \in Nat
  BY QueueAssumption, FS_EmptySet DEF Generations
<1>1. TypeOK
  BY <1>0 DEF Init, TypeOK, NoConsumer, Drivers
<1>2. ConsumerShape
  BY DEF Init, ConsumerShape, NoConsumer
<1>3. GenerationsCounted
  BY <1>0 DEF Init, GenerationsCounted, NoConsumer
<1>4. BatchShape /\ LeaseShape
  BY DEF Init, BatchShape, LeaseShape
<1>5. ClaimsLeased /\ AttemptsAccounted
  BY DEF Init, ClaimsLeased, AttemptsAccounted, Queued
<1>6. DeliveredFinite
  <2>1. \A m \in Messages : Delivered(m) = {}
    BY DEF Init, Delivered
  <2>. QED
    BY <1>0, <2>1 DEF DeliveredFinite
<1>7. OldGenerationsIdle
  BY DEF Init, OldGenerationsIdle, Open, Unsent, LeasedBy, Queued
<1>8. CopiesNoticed /\ NoticesKept
  BY DEF Init, CopiesNoticed, NoticesKept
<1>. QED
  BY <1>1, <1>2, <1>3, <1>4, <1>5, <1>6, <1>7, <1>8 DEF QueueInv

LEMMA InvStep ==
  ASSUME QueueInv, [Next]_vars
  PROVE  QueueInv'
BY StepKinds, TypeStep, BatchStep, LeaseStep, ClaimsStep, FiniteStep, AttemptsStep, GenerationsStep,
   CopiesStep, NoticesStep DEF QueueInv

LEMMA Invariance == Spec => []QueueInv
<1>1. Init => QueueInv
  BY InitInv
<1>2. QueueInv /\ [Next]_vars => QueueInv'
  BY InvStep
<1>. QED
  BY <1>1, <1>2, PTL DEF Spec

\* A message is given up only in its last permitted delivery, and its lease, if it still has
\* one, is of a batch that was sent.
LEMMA GivenUp ==
  ASSUME QueueInv, [Next]_vars, NEW m \in Messages,
         msg[m].state = "queued", msg'[m].state \in {"dead", "dropped"}
  PROVE  Cardinality(Delivered(m)) > MaxRetries[custody.policy]
<1>0. TypeOK /\ BatchShape /\ LeaseShape /\ ConsumerShape /\ AttemptsAccounted /\ DeliveredFinite
  BY DEF QueueInv
<1>1. m \in Queued
  BY DEF Queued
<1>2. /\ msg[m].deliveries \in Nat /\ msg[m].lease \in Batches \cup {None} /\ None \notin Batches
      /\ Cardinality(Delivered(m)) \in Nat
  BY <1>0, QueueAssumption, FS_CardinalityType DEF TypeOK, DeliveredFinite
<1>3. ASSUME msg[m].lease = None \/ exec[msg[m].lease].state \in {"send_authorized", "retired"},
             custody.state # "none", msg[m].deliveries >= Limit(custody.policy)
      PROVE  Cardinality(Delivered(m)) > MaxRetries[custody.policy]
  <2>1. custody.policy \in Policies /\ MaxRetries[custody.policy] \in Nat
    BY <1>0, <1>3, QueueAssumption DEF ConsumerShape
  <2>2. msg[m].lease = None \/ msg[m].lease \in Delivered(m)
    BY <1>0, <1>1, <1>2, <1>3, LeaseDelivered
  <2>3. msg[m].deliveries = Cardinality(Delivered(m))
    BY <1>0, <1>1, <1>2, <2>2 DEF AttemptsAccounted
  <2>. QED
    BY <1>2, <1>3, <2>1, <2>3 DEF Limit
<1>4. ASSUME NEW x \in Messages, x # m, \A y \in Messages \ {x} : msg'[y] = msg[y]
      PROVE  FALSE
  BY <1>4
<1>5. ASSUME NEW x \in Messages, MessageSteps(x)
      PROVE  Cardinality(Delivered(m)) > MaxRetries[custody.policy]
  <2>1. CASE Admit(x)
    <3>1. msg'[x].state = "queued" /\ \A y \in Messages \ {x} : msg'[y] = msg[y]
      BY <1>0, <2>1, AdmitPointwise
    <3>. QED
      BY <3>1
  <2>2. CASE ReapUnsent(x) \/ ReapRefused(x)
    <3>1. GivesBack({x})
      BY <1>0, <2>2, ReapGivesBack
    <3>2. /\ \A y \in Messages \ {x} : msg'[y] = msg[y]
          /\ msg'[x] = [state |-> "queued", lease |-> None,
                        deliveries |-> IF msg[x].deliveries > 0 THEN msg[x].deliveries - 1 ELSE 0]
      BY <3>1 DEF GivesBack
    <3>3. msg'[x].state = "queued"
      BY <3>2
    <3>. QED
      BY <3>2, <3>3
  <2>3. CASE ReapRetired(x)
    <3>1. /\ x \in Queued /\ exec[msg[x].lease].state = "retired" /\ custody.state # "none"
          /\ RetryOrTerminal(x)
      BY <2>3 DEF ReapRetired, HandlerGone, Reaping, OwnGeneration
    <3>2. \A y \in Messages \ {x} : msg'[y] = msg[y]
      BY <1>0, <3>1, RetryOrTerminalPointwise
    <3>3. x = m
      BY <1>4, <3>2
    <3>4. ~Retried(x)
      <4>1. SUFFICES ASSUME msg' = [msg EXCEPT ![m].lease = None]
                     PROVE  FALSE
        BY <3>3 DEF Retried
      <4>2. msg'[m].state = msg[m].state
        BY <1>0, <4>1 DEF TypeOK
      <4>. QED
        BY <4>2
    <3>5. ~(msg[m].deliveries < Limit(custody.policy))
      BY <3>1, <3>3, <3>4 DEF RetryOrTerminal
    <3>6. Limit(custody.policy) \in Nat
      BY <1>0, <3>1, QueueAssumption DEF ConsumerShape, Limit
    <3>. QED
      BY <1>2, <1>3, <3>1, <3>3, <3>5, <3>6
  <2>4. CASE Sweep(x)
    <3>1. msg' = Removed(x, "expired")
      BY <2>4 DEF Sweep
    <3>2. /\ msg'[x] = [state |-> "expired", deliveries |-> msg[x].deliveries, lease |-> None]
          /\ \A y \in Messages \ {x} : msg'[y] = msg[y]
      BY <1>0, <3>1, RemovedPointwise
    <3>3. msg'[x].state = "expired"
      BY <3>2
    <3>. QED
      BY <3>2, <3>3
  <2>5. CASE ProgressWindow(x)
    <3>1. /\ x \in Queued /\ msg[x].lease = None /\ custody.state # "none" /\ Terminal(x)
          /\ msg[x].deliveries >= Limit(custody.policy)
      BY <2>5 DEF ProgressWindow, Unleased
    <3>2. \A y \in Messages \ {x} : msg'[y] = msg[y]
      BY <1>0, <3>1, TerminalPointwise
    <3>3. x = m
      BY <1>4, <3>2
    <3>. QED
      BY <1>3, <3>1, <3>3
  <2>6. CASE TargetSettles(x)
    BY <2>6 DEF TargetSettles
  <2>. QED
    BY <1>5, <2>1, <2>2, <2>3, <2>4, <2>5, <2>6 DEF MessageSteps
<1>6. ASSUME NEW b \in Batches, NEW x \in Messages, NEW outcome \in {"ack", "retry"}, Settle(b, x, outcome)
      PROVE  Cardinality(Delivered(m)) > MaxRetries[custody.policy]
  <2>1. /\ x \in Queued /\ msg[x].lease = b /\ exec[b].state \in {"send_authorized", "retired"}
        /\ custody.state # "none"
        /\ msg' = Removed(x, "acked") \/ RetryOrTerminal(x)
    BY <1>6 DEF Settle, StillLeased, LeasedBy, OwnGeneration
  <2>2. CASE msg' = Removed(x, "acked")
    <3>1. /\ msg'[x] = [state |-> "acked", deliveries |-> msg[x].deliveries, lease |-> None]
          /\ \A y \in Messages \ {x} : msg'[y] = msg[y]
      BY <1>0, <2>2, RemovedPointwise
    <3>2. msg'[x].state = "acked"
      BY <3>1
    <3>. QED
      BY <3>1, <3>2
  <2>3. CASE RetryOrTerminal(x)
    <3>1. \A y \in Messages \ {x} : msg'[y] = msg[y]
      BY <1>0, <2>1, <2>3, RetryOrTerminalPointwise
    <3>2. x = m
      BY <1>4, <3>1
    <3>3. ~Retried(x)
      <4>1. SUFFICES ASSUME msg' = [msg EXCEPT ![m].lease = None]
                     PROVE  FALSE
        BY <3>2 DEF Retried
      <4>2. msg'[m].state = msg[m].state
        BY <1>0, <4>1 DEF TypeOK
      <4>. QED
        BY <4>2
    <3>4. ~(msg[m].deliveries < Limit(custody.policy))
      BY <2>3, <3>2, <3>3 DEF RetryOrTerminal
    <3>5. Limit(custody.policy) \in Nat
      BY <1>0, <2>1, QueueAssumption DEF ConsumerShape, Limit
    <3>. QED
      BY <1>2, <1>3, <2>1, <3>2, <3>4, <3>5
  <2>. QED
    BY <2>1, <2>2, <2>3
<1>7. ASSUME \A y \in Messages : msg'[y].state = msg[y].state \/ msg'[y].state = "queued"
      PROVE  FALSE
  BY <1>7
<1>8. ASSUME NEW b \in Batches, DeliverySteps(b)
      PROVE  Cardinality(Delivered(m)) > MaxRetries[custody.policy]
  <2>1. CASE \/ \E x \in Messages, outcome \in {"ack", "retry"} : TenantSettles(b, x, outcome)
             \/ \E x \in Messages : DefaultSettles(b, x)
    <3>1. \E x \in Messages, outcome \in {"ack", "retry"} : Settle(b, x, outcome)
      BY <2>1 DEF TenantSettles, DefaultSettles
    <3>. QED
      BY <1>6, <3>1
  <2>2. CASE \E S \in SUBSET Messages : Claim(b, S)
    <3>1. PICK S \in SUBSET Messages : Claim(b, S)
      BY <2>2
    <3>2. /\ \A x \in S : msg'[x].state = "queued" 
          /\ \A x \in Messages \ S : msg'[x] = msg[x]
      BY <1>0, <3>1, KindsPointwise
    <3>. QED
      BY <1>7, <3>2
  <2>3. CASE CancelBeforeSend(b) \/ RefuseAtBoot(b)
    <3>1. GivesBack(LeasedBy(b))
      BY <1>0, <2>3, CancelledGivesBack DEF CancelBeforeSend, RefuseAtBoot
    <3>2. \A x \in Messages : msg'[x] = msg[x] \/ msg'[x].state = "queued"
      BY <3>1, GivenBackQueued
    <3>. QED
      BY <1>7, <3>2
  <2>4. CASE \/ Reserve(b) \/ ExpireReservation(b) \/ Register(b) \/ AuthorizeSend(b) \/ Send(b)
             \/ Abandon(b) \/ HandlerEnds(b) \/ RetireByReceipt(b) \/ RetireAbsent(b)
    <3>1. UNCHANGED msg
      BY <2>4 DEF Reserve, ExpireReservation, Register, AuthorizeSend, Send, Abandon, HandlerEnds,
                  RetireByReceipt, RetireAbsent
    <3>. QED
      BY <1>7, <3>1
  <2>. QED
    BY <1>8, <2>1, <2>2, <2>3, <2>4 DEF DeliverySteps
<1>9. CASE ConsumerSteps
  <2>1. CASE OpRefund
    <3>1. PICK S \in SUBSET Messages : GivesBack(S)
      BY <1>0, <2>1, OperationGivesBack
    <3>2. \A x \in Messages : msg'[x] = msg[x] \/ msg'[x].state = "queued"
      BY <3>1, GivenBackQueued
    <3>. QED
      BY <1>7, <3>2
  <2>2. CASE ~OpRefund
    <3>1. UNCHANGED msg
      BY <1>9, <2>2 DEF ConsumerSteps, AcceptCreate, AcceptUpdate, AcceptDelete, Accept, OpCancelUnsent, OpAttach,
                        OpBegin, OpFinish, OpComplete, PassStops
    <3>. QED
      BY <1>7, <3>1
  <2>. QED
    BY <2>1, <2>2
<1>10. CASE TransferSteps \/ UNCHANGED vars
  <2>1. UNCHANGED msg
    BY <1>10, TransferLeaves DEF vars
  <2>. QED
    BY <1>7, <2>1
<1>. QED
  BY <1>5, <1>8, <1>9, <1>10 DEF Next

\* Every value keeps its type, whatever the interleaving; no generation passes MaxOperations.
THEOREM TypeCorrect == Spec => []TypeOK
<1>1. QueueInv => TypeOK
  BY DEF QueueInv
<1>. QED
  BY <1>1, Invariance, PTL

\* deliveries counts the attempts that may have reached the tenant and the one under way,
\* through cancels, boots, reapers and retirements: none is given back twice, or after a send.
THEOREM AttemptsAccountedHolds == Spec => []AttemptsAccounted
<1>1. QueueInv => AttemptsAccounted
  BY DEF QueueInv
<1>. QED
  BY <1>1, Invariance, PTL

\* A message that a running handler has not settled is not handed to another batch, however
\* late leases are reaped or earlier batches settled.
THEOREM HandlerKeepsMessagesHolds == Spec => []HandlerKeepsMessages
<1>1. QueueInv => HandlerKeepsMessages
  <2> SUFFICES ASSUME QueueInv, NEW b \in Batches, native[b] = "running", NEW m \in exec[b].claims,
                      receipt[b][m] = "pending"
               PROVE  m \in LeasedBy(b) \/ msg[m].state = "expired"
    BY DEF HandlerKeepsMessages
  <2>1. exec[b].state = "send_authorized"
    BY DEF QueueInv, BatchShape
  <2>. QED
    BY <2>1 DEF QueueInv, ClaimsLeased
<1>. QED
  BY <1>1, Invariance, PTL

\* An update or delete of a Consumer ends only when nothing of its generation runs, is open or
\* holds a lease.
THEOREM OldGenerationsIdleHolds == Spec => []OldGenerationsIdle
<1>1. QueueInv => OldGenerationsIdle
  BY DEF QueueInv
<1>. QED
  BY <1>1, Invariance, PTL

\* A message is given up only after all the deliveries its policy permits, and no unseen
\* dead-letter copy loses the notice that wakes its Queue.
THEOREM GivenUpAfterRetriesHolds == Spec => GivenUpAfterRetries
<1>1. QueueInv => \A k \in copies : k.message \notin seen => \E n \in notices : n.generation = k.generation
  BY DEF QueueInv, CopiesNoticed
<1>2. QueueInv /\ [Next]_vars =>
        [\A m \in Messages :
           msg[m].state = "queued" /\ msg'[m].state \in {"dead", "dropped"} =>
             Cardinality(Delivered(m)) > MaxRetries[custody.policy]]_vars
  BY GivenUp
<1>. QED
  BY <1>1, <1>2, Invariance, PTL DEF Spec, GivenUpAfterRetries

=============================================================================

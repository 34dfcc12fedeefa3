------------------------------- MODULE Wallet -------------------------------
(***************************************************************************)
(* The prepaid wallet of one organization (src/ledger.ts) and the refunds  *)
(* that take credit back from it (src/stripe-billing-store.ts).            *)
(*                                                                         *)
(* Credit arrives in lots.  A hold or a usage debit allocates parts of     *)
(* lots in consumption order; a capture or a release takes the hold's      *)
(* allocations apart again.  Every operation reads, plans, and writes in   *)
(* one SQL batch whose statements and guards re-check the plan, so other   *)
(* callers may commit between the reads and the batch.                     *)
(***************************************************************************)
EXTENDS Integers, FiniteSetsExt, Functions

CONSTANTS
  Lots,             \* funding references, numbered in consumption order
  Refs,             \* references of the operations that spend
  Callers,          \* calls in flight at the same time
  LotAmount,        \* credit of each lot
  Consideration,    \* what was paid for each lot
  Expiring,         \* lots with an expiry instant
  Refundable,       \* lots bought through the payment processor
  Price,            \* what the operation behind each reference costs
  MaxFreezes        \* bound on the fence generation of a lot

ASSUME WalletAssumption ==
  /\ Lots \subseteq Nat /\ IsFiniteSet(Lots) /\ IsFiniteSet(Refs)
  /\ LotAmount \in [Lots -> Nat \ {0}]
  /\ Consideration \in [Lots -> Nat \ {0}]
  /\ Price \in [Refs -> Nat \ {0}]
  /\ Expiring \subseteq Lots /\ Refundable \subseteq Lots
  /\ MaxFreezes \in Nat

VARIABLES
  lot,       \* wallet_credit_lots, and whether the lot's expiry has passed
  fence,     \* stripe_billing_fences
  refunds,   \* the sums over the refund receipts of each lot
  alloc,     \* wallet_credit_allocations; 0 where there is no row
  entry,     \* amounts of the ledger's entries; 0 where there is no entry
  call,      \* what each call in flight has read
  overtaken  \* history, not code: references with a batch that overtook another of them

vars == <<lot, fence, refunds, alloc, entry, call, overtaken>>

Debits == {"hold", "capture", "usage_debit"}
Entries == Debits \cup {"release"}

Idle == [kind |-> "idle"]

Planned == [Lots -> Nat]

Calls ==
  {Idle}
    \cup [kind: {"hold", "usage_debit"}, ref: Refs, gone: SUBSET Lots, plan: Planned \cup {<<>>}]
    \cup [kind: {"capture", "release"}, ref: Refs, amount: Nat, previous: Planned,
          captured: Nat]
    \cup [kind: {"freeze"}, lot: Lots, generation: Nat]
    \cup [kind: {"refund"}, lot: Lots, generation: Nat, amount: Nat, closing: [Refs -> Nat],
          before: Nat, spent: Nat, gone: BOOLEAN]

TypeOK ==
  /\ lot \in [Lots -> {"unfunded", "live", "expired"}]
  /\ fence \in [Lots -> [generation: 0..MaxFreezes, active: BOOLEAN]]
  /\ refunds \in [Lots -> [refunded: Nat, target: Nat, debit: Nat, expired: Nat, receivable: Nat]]
  /\ alloc \in [Debits -> [Refs -> Planned]]
  /\ entry \in [Entries -> [Refs -> Nat]]
  /\ call \in [Callers -> Calls]
  /\ overtaken \subseteq Refs

Init ==
  /\ lot = [l \in Lots |-> "unfunded"]
  /\ fence = [l \in Lots |-> [generation |-> 0, active |-> FALSE]]
  /\ refunds = [l \in Lots |-> [refunded |-> 0, target |-> 0, debit |-> 0, expired |-> 0,
                                receivable |-> 0]]
  /\ alloc = [d \in Debits |-> [r \in Refs |-> [l \in Lots |-> 0]]]
  /\ entry = [e \in Entries |-> [r \in Refs |-> 0]]
  /\ call = [c \in Callers |-> Idle]
  /\ overtaken = {}

-----------------------------------------------------------------------------
(* The sums the statements compute.                                         *)

TakenFrom(l, d) == SumFunction([r \in Refs |-> alloc[d][r][l]])

AllocatedFrom(l, debits) == SumFunction([d \in debits |-> TakenFrom(l, d)])

AllocatedTo(d, r) == SumFunction(alloc[d][r])

Spent(l) == AllocatedFrom(l, {"capture", "usage_debit"})

\* remainingSql
Remaining(l) == LotAmount[l] - AllocatedFrom(l, Debits) - refunds[l].debit

\* What the ledger says is still held under a reference.
HeldFor(r) == entry["hold"][r] - entry["capture"][r] - entry["release"][r]

Held == SumFunction([r \in Refs |-> HeldFor(r)])

AllocatedHeld == SumFunction([r \in Refs |-> AllocatedTo("hold", r)])

\* An unexpired lot counts with what is not spent or taken back, an expired one only with
\* what a hold still protects.
Settled ==
  LET worth(l) == IF lot[l] = "live"
                  THEN LotAmount[l] - Spent(l) - refunds[l].debit
                  ELSE AllocatedFrom(l, {"hold"})
  IN  SumFunction([l \in {k \in Lots : lot[k] # "unfunded"} |-> worth(l)])

Frozen ==
  SumFunction([l \in {k \in Lots : fence[k].active /\ lot[k] = "live"} |->
                 Max({0, Remaining(l)})])

\* receivableClear
DebtFree == \A l \in Lots : refunds[l].receivable = 0

(* Nothing keeps two calls of one reference apart.  Most of what a call in flight has read *)
(* its batch compares again; two things it does not: that no other hold of the reference    *)
(* was made meanwhile, and that a hold to be captured was not released.  A batch that       *)
(* commits past such a call marks the reference as overtaken.                               *)

InFlight(d, c, r) == \E b \in Callers \ {c} : call[b].kind = d /\ call[b].ref = r

-----------------------------------------------------------------------------
(* Lots.                                                                    *)

\* The guard of the funding batch, over the balance with the new lot in it.
BalancedWith(l) ==
  /\ Held >= 0
  /\ Settled + LotAmount[l] - refunds[l].debit - Held >= 0
  /\ AllocatedHeld = Held

\* fund; a replay inserts nothing.
Fund(l) ==
  /\ lot[l] = "unfunded"
  /\ BalancedWith(l)
  /\ lot' = [lot EXCEPT ![l] = "live"]
  /\ UNCHANGED <<fence, refunds, alloc, entry, call, overtaken>>

Expire(l) ==
  /\ l \in Expiring /\ lot[l] = "live"
  /\ lot' = [lot EXCEPT ![l] = "expired"]
  /\ UNCHANGED <<fence, refunds, alloc, entry, call, overtaken>>

-----------------------------------------------------------------------------
(* hold and debitUsage.                                                     *)

\* Greedily from what each lot offers, in consumption order.
Take(amount, offer) ==
  [l \in Lots |->
     LET before == SumFunctionOnSet(offer, {k \in Lots : k < l})
     IN  Min({offer[l], Max({0, amount - before})})]

\* lotPredicate; the batch compares expiry with the instant of the call, not its own.
Eligible(l, gone) == lot[l] # "unfunded" /\ l \notin gone /\ ~fence[l].active

\* The call finds no entry under its reference and fixes its instant.
Begin(c, d, r) ==
  /\ call[c] = Idle
  /\ entry[d][r] = 0
  /\ call' = [call EXCEPT ![c] = [kind |-> d, ref |-> r, plan |-> <<>>,
                                  gone |-> {l \in Lots : lot[l] = "expired"}]]
  /\ UNCHANGED <<lot, fence, refunds, alloc, entry, overtaken>>

\* The reads of prepareLedgerAllocation; it refuses in debt and when the offer is too small.
PlanAllocation(c) ==
  /\ call[c].kind \in {"hold", "usage_debit"} /\ call[c].plan = <<>>
  /\ DebtFree
  /\ LET offer == [l \in Lots |-> IF Eligible(l, call[c].gone) THEN Max({0, Remaining(l)}) ELSE 0]
     IN  /\ SumFunction(offer) >= Price[call[c].ref]
         /\ call' = [call EXCEPT ![c].plan = Take(Price[call[c].ref], offer)]
  /\ UNCHANGED <<lot, fence, refunds, alloc, entry, overtaken>>

\* Faulty variant: the rows are inserted as planned.
AllocationsStale(d, r, gone, plan) ==
  [l \in Lots |-> IF alloc[d][r][l] = 0 THEN plan[l] ELSE alloc[d][r][l]]

\* INSERT OR IGNORE of each planned row where the lot still offers that much.
AllocationsAfter(d, r, gone, plan) ==
  [l \in Lots |->
     IF alloc[d][r][l] = 0 /\ Eligible(l, gone) /\ Remaining(l) >= plan[l]
     THEN plan[l] ELSE alloc[d][r][l]]

\* Faulty variant: without the guard on receivables.
AllocationHoldsInDebt(r, after) == SumFunction(after) = Price[r]

\* The guards of the batch: no receivable, and rows for the whole price.
AllocationHolds(r, after) == DebtFree /\ SumFunction(after) = Price[r]

\* The batch: the rows, the guards, INSERT OR IGNORE of the entry.  When a guard fails the
\* whole batch does (Abandon).
CommitAllocation(c) ==
  LET d == call[c].kind
      r == call[c].ref
      after == AllocationsAfter(d, r, call[c].gone, call[c].plan)
  IN  /\ d \in {"hold", "usage_debit"} /\ call[c].plan # <<>>
      /\ AllocationHolds(r, after)
      /\ alloc' = [alloc EXCEPT ![d][r] = after]
      /\ entry' = [entry EXCEPT ![d][r] = IF @ = 0 THEN Price[r] ELSE @]
      /\ call' = [call EXCEPT ![c] = Idle]
      /\ overtaken' = overtaken \cup {q \in {r} : d = "hold" /\ InFlight("hold", c, q)}
      /\ UNCHANGED <<lot, fence, refunds>>

-----------------------------------------------------------------------------
(* capture and release.  The reads are one step: the plan refuses what it   *)
(* would read across another settlement, held and allocated then differ.    *)

HeldOnFence(r) == \E l \in Lots : alloc["hold"][r][l] > 0 /\ fence[l].active

PlanSettlement(c, d, r, amount) ==
  /\ call[c] = Idle
  /\ entry[d][r] = 0
  /\ HeldFor(r) >= amount
  /\ d = "capture" => ~HeldOnFence(r)
  /\ AllocatedTo("hold", r) = HeldFor(r)
  /\ d = "release" => HeldFor(r) = amount
  /\ call' = [call EXCEPT ![c] = [kind |-> d, ref |-> r, amount |-> amount,
                                  previous |-> alloc["hold"][r],
                                  captured |-> AllocatedTo("capture", r)]]
  /\ UNCHANGED <<lot, fence, refunds, alloc, entry, overtaken>>

\* DELETE or UPDATE of each planned row that still has the amount that was read.
HoldAfter(r, previous, moved) ==
  [l \in Lots |-> IF alloc["hold"][r][l] = previous[l] THEN previous[l] - moved[l]
                  ELSE alloc["hold"][r][l]]

\* Faulty variant: what was captured meanwhile is not compared.
SettlementHoldsUncompared(c, moved) ==
  LET s == call[c] IN
  /\ s.kind = "capture" => /\ ~HeldOnFence(s.ref)
                           /\ \A l \in Lots : moved[l] > 0 => alloc["capture"][s.ref][l] = 0
  /\ SumFunction(HoldAfter(s.ref, s.previous, moved)) = SumFunction(s.previous) - s.amount
  /\ entry[s.kind][s.ref] = 0

\* The guards of the batch; the plain INSERTs abort on an existing row or entry.
SettlementHolds(c, moved) ==
  LET s == call[c] IN
  /\ s.kind = "capture" => /\ ~HeldOnFence(s.ref)
                           /\ \A l \in Lots : moved[l] > 0 => alloc["capture"][s.ref][l] = 0
  /\ SumFunction(HoldAfter(s.ref, s.previous, moved)) = SumFunction(s.previous) - s.amount
  /\ AllocatedTo("capture", s.ref) = s.captured
  /\ entry[s.kind][s.ref] = 0

CommitSettlement(c) ==
  LET s == call[c]
      moved == Take(s.amount, s.previous)
      hold == HoldAfter(s.ref, s.previous, moved)
      capture == IF s.kind = "capture"
                 THEN [l \in Lots |-> alloc["capture"][s.ref][l] + moved[l]]
                 ELSE alloc["capture"][s.ref]
  IN  /\ s.kind \in {"capture", "release"}
      /\ SettlementHolds(c, moved)
      /\ alloc' = [alloc EXCEPT !["hold"][s.ref] = hold, !["capture"][s.ref] = capture]
      /\ entry' = [entry EXCEPT ![s.kind][s.ref] = s.amount]
      /\ call' = [call EXCEPT ![c] = Idle]
      /\ overtaken' = overtaken
           \cup {r \in {s.ref} : s.kind = "release" /\ InFlight("capture", c, r)}
      /\ UNCHANGED <<lot, fence, refunds>>

-----------------------------------------------------------------------------
(* Refunds: freezeFunding, refund for each of them, unfreezeFunding.        *)
(* The reads of refund are one step, its batch compares them all.           *)

\* A freeze may precede the funding of its lot.
FreezeFunding(c, l) ==
  /\ call[c] = Idle
  /\ fence[l].generation < MaxFreezes
  /\ fence' = [fence EXCEPT ![l] = [generation |-> @.generation + 1, active |-> TRUE]]
  /\ call' = [call EXCEPT ![c] = [kind |-> "freeze", lot |-> l,
                                  generation |-> fence[l].generation + 1]]
  /\ UNCHANGED <<lot, refunds, alloc, entry, overtaken>>

\* The reads of refund, for the next refund the processor lists.
PlanRefund(c, amount) ==
  LET l == call[c].lot
      closing == [r \in Refs |-> IF alloc["hold"][r][l] > 0 THEN HeldFor(r) ELSE 0]
  IN  /\ call[c].kind = "freeze"
      /\ lot[l] # "unfunded"
      /\ refunds[l].refunded + amount <= Consideration[l]
      /\ \A r \in Refs : alloc["hold"][r][l] > 0 =>
           closing[r] > 0 /\ closing[r] = AllocatedTo("hold", r)
      /\ LotAmount[l] - Spent(l) - refunds[l].debit - refunds[l].expired >= 0
      /\ call' = [call EXCEPT ![c] = [kind |-> "refund", lot |-> l, generation |-> @.generation,
                                      amount |-> amount, closing |-> closing,
                                      before |-> refunds[l].refunded, spent |-> Spent(l),
                                      gone |-> lot[l] = "expired"]]
      /\ UNCHANGED <<lot, fence, refunds, alloc, entry, overtaken>>

\* The credit revoked once the refunds total before + amount.
Target(l, before, amount) ==
  IF before + amount = Consideration[l] THEN LotAmount[l]
  ELSE (LotAmount[l] * (before + amount)) \div Consideration[l]

\* Faulty variant: more is taken back than was refunded.
ReceiptUncapped(l, f) ==
  LET target == Target(l, f.before, f.amount)
      delta == target - refunds[l].target
      unused == LotAmount[l] - f.spent - refunds[l].debit - refunds[l].expired
  IN  [refunded |-> f.before + f.amount,
       target |-> target,
       debit |-> refunds[l].debit + (IF f.gone THEN 0 ELSE unused),
       expired |-> refunds[l].expired + (IF f.gone THEN unused ELSE 0),
       receivable |-> refunds[l].receivable + delta - unused]

\* The receipt: unused credit is debited or was lost to expiry, used credit is owed.
Receipt(l, f) ==
  LET target == Target(l, f.before, f.amount)
      delta == target - refunds[l].target
      unused == Min({delta, LotAmount[l] - f.spent - refunds[l].debit - refunds[l].expired})
  IN  [refunded |-> f.before + f.amount,
       target |-> target,
       debit |-> refunds[l].debit + (IF f.gone THEN 0 ELSE unused),
       expired |-> refunds[l].expired + (IF f.gone THEN unused ELSE 0),
       receivable |-> refunds[l].receivable + delta - unused]

\* The guards of the batch.
RefundHolds(f) ==
  /\ fence[f.lot] = [generation |-> f.generation, active |-> TRUE]
  /\ refunds[f.lot].refunded = f.before
  /\ \A r \in Refs : IF f.closing[r] > 0
                     THEN AllocatedTo("hold", r) = f.closing[r] /\ HeldFor(r) = f.closing[r]
                          /\ entry["release"][r] = 0
                     ELSE alloc["hold"][r][f.lot] = 0
  /\ Spent(f.lot) = f.spent

\* Faulty variant: only the rows on the refunded lot are deleted.
HoldsAfterClosingLot(f) ==
  [r \in Refs |-> [alloc["hold"][r] EXCEPT ![f.lot] = 0]]

\* A hold with a part on the lot is closed as a whole.
HoldsAfterClosing(f) ==
  [r \in Refs |-> IF f.closing[r] > 0 THEN [l \in Lots |-> 0] ELSE alloc["hold"][r]]

\* Closes every hold on the lot, records the receipt, and clears the fence unless more
\* refunds follow.
CommitRefund(c, last) ==
  LET f == call[c]
      Closed(r) == f.closing[r] > 0
  IN  /\ f.kind = "refund"
      /\ RefundHolds(f)
      /\ alloc' = [alloc EXCEPT !["hold"] = HoldsAfterClosing(f)]
      /\ entry' = [entry EXCEPT !["release"] =
                     [r \in Refs |-> IF Closed(r) THEN f.closing[r] ELSE @[r]]]
      /\ refunds' = [refunds EXCEPT ![f.lot] = Receipt(f.lot, f)]
      /\ fence' = [fence EXCEPT ![f.lot].active = ~last]
      /\ call' = [call EXCEPT ![c] =
                    IF last THEN Idle
                    ELSE [kind |-> "freeze", lot |-> f.lot, generation |-> f.generation]]
      /\ overtaken' = overtaken \cup {r \in Refs : Closed(r) /\ InFlight("capture", c, r)}
      /\ UNCHANGED lot

\* Faulty variant: an older call clears a newer freeze.
UnfreezeFundingAny(c) ==
  /\ call[c].kind = "freeze"
  /\ fence' = [fence EXCEPT ![call[c].lot].active = FALSE]
  /\ call' = [call EXCEPT ![c] = Idle]
  /\ UNCHANGED <<lot, refunds, alloc, entry, overtaken>>

\* All refunds the processor lists are applied; only the freeze of this call is cleared.
UnfreezeFunding(c) ==
  /\ call[c].kind = "freeze"
  /\ fence[call[c].lot] = [generation |-> call[c].generation, active |-> TRUE]
  /\ fence' = [fence EXCEPT ![call[c].lot].active = FALSE]
  /\ call' = [call EXCEPT ![c] = Idle]
  /\ UNCHANGED <<lot, refunds, alloc, entry, overtaken>>

\* The call is refused, its batch aborts on a guard, or its process dies.
Abandon(c) ==
  /\ call[c] # Idle
  /\ call' = [call EXCEPT ![c] = Idle]
  /\ UNCHANGED <<lot, fence, refunds, alloc, entry, overtaken>>

-----------------------------------------------------------------------------

CallStep(c) ==
  \/ \E d \in {"hold", "usage_debit"}, r \in Refs : Begin(c, d, r)
  \/ PlanAllocation(c)
  \/ CommitAllocation(c)
  \/ \E d \in {"capture", "release"}, r \in Refs :
       \E amount \in 1..Price[r] : PlanSettlement(c, d, r, amount)
  \/ CommitSettlement(c)
  \/ \E l \in Refundable : FreezeFunding(c, l)
  \/ call[c].kind = "freeze" /\ \E amount \in 1..Consideration[call[c].lot] : PlanRefund(c, amount)
  \/ \E last \in BOOLEAN : CommitRefund(c, last)
  \/ UnfreezeFunding(c)
  \/ Abandon(c)

Next ==
  \/ \E l \in Lots : Fund(l) \/ Expire(l)
  \/ \E c \in Callers : CallStep(c)

Spec == Init /\ [][Next]_vars

-----------------------------------------------------------------------------
(* Properties.                                                              *)

\* No credit is used twice: what holds, captures and usage debits take from a lot and what
\* refunds debit from it never exceed the lot, however stale the plans of concurrent calls.
NotOverdrawn == \A l \in Lots : Remaining(l) >= 0

\* The guards of the batches keep every lot covered, but for one case: a capture of a hold
\* that a release or a refund ended first.  A lot that is overdrawn has such a capture on it.
LotsCovered ==
  \A l \in Lots : Remaining(l) >= 0 \/ \E r \in overtaken : alloc["capture"][r][l] > 0

\* The check of wallet(): held equals what is allocated to holds, and nothing is negative.
\* A wallet that fails it can neither be read nor funded any more.
WalletReadable ==
  /\ AllocatedHeld = Held
  /\ Held >= 0 /\ Settled >= 0
  /\ Settled - Held - Frozen >= 0

\* wallet() fails only after one of the two races that the batches do not guard against:
\* whatever else overlaps, what is held and frozen is within what the lots are worth.
ReadableUntilOvertaken == overtaken = {} => WalletReadable

\* A reference has allocations for exactly what its entries say, unless one of its calls was
\* overtaken: a hold is captured or released at most for what it holds, by one of any number
\* of captures and releases in flight.  A replayed debit is allocated once, always.  Each
\* refund receipt moves exactly its share of the lot, so a lot refunded in any number of
\* parts is revoked as far as one refund of the total would have revoked it.
EntriesBacked ==
  /\ \A r \in Refs : AllocatedTo("usage_debit", r) = entry["usage_debit"][r]
  /\ \A r \in Refs \ overtaken :
       /\ AllocatedTo("hold", r) = HeldFor(r)
       /\ AllocatedTo("capture", r) = entry["capture"][r]
  /\ \A l \in Lots :
       LET f == refunds[l] IN
       /\ f.debit + f.expired + f.receivable = f.target
       /\ f.target = IF f.refunded = Consideration[l] THEN LotAmount[l]
                     ELSE (LotAmount[l] * f.refunded) \div Consideration[l]

\* While a refund investigates a lot nothing more is taken from it: no step of any call
\* adds a hold, a usage debit or, unless it was overtaken, a capture to a lot whose fence is
\* active.  And a refund concludes the investigation of its own call only: a lot that a
\* later call froze stays frozen until that call, or one after it, is done.
FrozenUntouched ==
  [][\A l \in Lots : fence[l].active =>
       /\ \A d \in Debits, r \in Refs :
            (d = "capture" => r \notin overtaken) => alloc'[d][r][l] <= alloc[d][r][l]
       /\ fence'[l].active \/
            \E c \in Callers : /\ call[c].kind \in {"freeze", "refund"}
                               /\ call[c].lot = l /\ call[c].generation = fence[l].generation
                               /\ call'[c] # call[c]]_vars

\* An organization that owes a refund spends nothing new, not even with a plan it made
\* before the debt.
DebtStopsSpending ==
  [][~DebtFree =>
       \A d \in {"hold", "usage_debit"}, r \in Refs :
         entry'[d][r] = entry[d][r] /\ AllocatedTo(d, r)' <= AllocatedTo(d, r)]_vars

\* expired_micros records unused credit: the assertion of refund, that what was spent,
\* debited and lost to expiry never exceeds the lot.
ExpiredCreditUnused ==
  \A l \in Lots : LotAmount[l] - Spent(l) - refunds[l].debit - refunds[l].expired >= 0

=============================================================================

---------------------------- MODULE WalletProofs ----------------------------
(***************************************************************************)
(* Proofs about Wallet, for any lots, references, prices and calls.        *)
(*                                                                         *)
(* RefundInv has the types and the accounts of refunds.  WalletInv adds    *)
(* what the guards of the batches keep of the plans of calls in flight,    *)
(* except for references that a batch overtook.                            *)
(***************************************************************************)
EXTENDS Wallet, SumTheorems

-----------------------------------------------------------------------------
(* Sums and bounds.                                                         *)

Allocations == [Debits -> [Refs -> Planned]]

\* TakenFrom and AllocatedFrom, of given allocations.
Taken(a, l, d) == SumFunction([r \in Refs |-> a[d][r][l]])

TakenBy(a, l, debits) == SumFunction([d \in debits |-> Taken(a, l, d)])

LEMMA MaxOfTwo ==
  ASSUME NEW i \in Int, NEW j \in Int
  PROVE  /\ Max({i, j}) \in Int
         /\ Max({i, j}) >= i /\ Max({i, j}) >= j
         /\ Max({i, j}) = i \/ Max({i, j}) = j
<1>1. \E x \in {i, j} : \A y \in {i, j} : x >= y
  OBVIOUS
<1>2. Max({i, j}) \in {i, j} /\ \A y \in {i, j} : Max({i, j}) >= y
  BY <1>1 DEF Max
<1> QED BY <1>2

LEMMA MaxWithZero ==
  ASSUME NEW i \in Int
  PROVE  Max({0, i}) \in Nat /\ (i >= 0 => Max({0, i}) = i)
<1>1. \E x \in {0, i} : \A y \in {0, i} : x >= y
  OBVIOUS
<1>2. Max({0, i}) \in {0, i} /\ \A y \in {0, i} : Max({0, i}) >= y
  BY <1>1 DEF Max
<1> QED BY <1>2

LEMMA MinOfTwo ==
  ASSUME NEW i \in Int, NEW j \in Int
  PROVE  /\ Min({i, j}) \in Int
         /\ Min({i, j}) <= i /\ Min({i, j}) <= j
         /\ Min({i, j}) = i \/ Min({i, j}) = j
<1>1. \E x \in {i, j} : \A y \in {i, j} : x =< y
  OBVIOUS
<1>2. Min({i, j}) \in {i, j} /\ \A y \in {i, j} : Min({i, j}) =< y
  BY <1>1 DEF Min
<1> QED BY <1>2

\* A plan takes from each lot no more than it offers.
LEMMA TakeBounds ==
  ASSUME NEW amount \in Int, NEW offer \in Planned
  PROVE  /\ Take(amount, offer) \in Planned
         /\ \A l \in Lots : Take(amount, offer)[l] <= offer[l]
<1> DEFINE before(l) == SumFunctionOnSet(offer, {k \in Lots : k < l})
           rest(l) == Max({0, amount - before(l)})
           part(l) == Min({offer[l], rest(l)})
<1>1. ASSUME NEW l \in Lots
      PROVE  part(l) \in Nat /\ part(l) <= offer[l]
  <2>1. Summable(offer, {k \in Lots : k < l})
    BY WalletAssumption, FS_Subset DEF Summable, Planned
  <2>2. before(l) \in Int
    BY <2>1, SumIsInt
  <2> HIDE DEF before
  <2> DEFINE n == amount - before(l)
             o == offer[l]
  <2>3. n \in Int /\ rest(l) = Max({0, n}) /\ part(l) = Min({o, rest(l)})
    BY <2>2
  <2>4. o \in Nat /\ o \in Int
    BY DEF Planned
  <2> HIDE DEF n, o, rest, part
  <2>5. rest(l) \in Int /\ rest(l) >= 0
    BY <2>3, MaxOfTwo
  <2>6. part(l) \in Int /\ part(l) <= o /\ (part(l) = o \/ part(l) = rest(l))
    BY <2>3, <2>4, <2>5, MinOfTwo
  <2> QED BY <2>4, <2>5, <2>6 DEF o
<1>2. Take(amount, offer) = [l \in Lots |-> part(l)]
  BY DEF Take
<1> HIDE DEF part
<1> QED BY <1>1, <1>2 DEF Planned

LEMMA SumOfPlan ==
  ASSUME NEW p \in Planned
  PROVE  /\ SumFunction(p) = SumFunctionOnSet(p, Lots)
         /\ SumFunction(p) \in Nat
         /\ Summable(p, Lots)
<1>1. SumFunction(p) = SumFunctionOnSet(p, Lots)
  BY DEF SumFunction, Planned
<1>2. IsFiniteSet(Lots) /\ \A l \in Lots : p[l] \in Nat /\ p[l] \in Int
  BY WalletAssumption DEF Planned
<1>3. SumFunctionOnSet(p, Lots) \in Nat
  BY <1>2, SumOfNaturals
<1> QED BY <1>1, <1>2, <1>3 DEF Summable

LEMMA TakenIs ==
  ASSUME NEW a \in Allocations, NEW l \in Lots, NEW d \in Debits
  PROVE  /\ Taken(a, l, d) = SumFunctionOnSet([r \in Refs |-> a[d][r][l]], Refs)
         /\ Summable([r \in Refs |-> a[d][r][l]], Refs)
         /\ Taken(a, l, d) \in Nat
         /\ \A r \in Refs : a[d][r][l] \in Nat /\ a[d][r][l] <= Taken(a, l, d)
<1> DEFINE f == [r \in Refs |-> a[d][r][l]]
<1>1. \A r \in Refs : f[r] = a[d][r][l] /\ f[r] \in Nat /\ f[r] \in Int
  BY DEF Allocations, Planned
<1>2. DOMAIN f = Refs /\ IsFiniteSet(Refs)
  BY WalletAssumption
<1>3. Taken(a, l, d) = SumFunction(f)
  BY DEF Taken
<1> HIDE DEF f
<1>4. SumFunction(f) = SumFunctionOnSet(f, Refs)
  BY <1>2 DEF SumFunction
<1>5. SumFunctionOnSet(f, Refs) \in Nat /\ \A r \in Refs : f[r] <= SumFunctionOnSet(f, Refs)
  BY <1>1, <1>2, SumOfNaturals
<1>6. Summable(f, Refs)
  BY <1>1, <1>2 DEF Summable
<1>7. Taken(a, l, d) = SumFunctionOnSet(f, Refs)
  BY <1>3, <1>4
<1>8. \A r \in Refs : a[d][r][l] \in Nat /\ a[d][r][l] <= Taken(a, l, d)
  BY <1>1, <1>5, <1>7
<1>9. Taken(a, l, d) \in Nat
  BY <1>5, <1>7
<1> QED BY <1>6, <1>7, <1>8, <1>9 DEF f

LEMMA TakenNat ==
  ASSUME NEW a \in Allocations, NEW l \in Lots, NEW d \in Debits
  PROVE  Taken(a, l, d) \in Nat /\ Taken(a, l, d) \in Int
<1>1. Taken(a, l, d) \in Nat
  BY TakenIs
<1> QED BY <1>1

LEMMA TakenByIs ==
  ASSUME NEW a \in Allocations, NEW l \in Lots
  PROVE  /\ TakenBy(a, l, {"hold"}) = Taken(a, l, "hold")
         /\ TakenBy(a, l, {"capture", "usage_debit"})
              = Taken(a, l, "capture") + Taken(a, l, "usage_debit")
         /\ TakenBy(a, l, Debits)
              = Taken(a, l, "hold") + Taken(a, l, "capture") + Taken(a, l, "usage_debit")
<1>1. \A d \in Debits : Taken(a, l, d) \in Nat /\ Taken(a, l, d) \in Int
  BY TakenNat
<1>2. ASSUME NEW D \in SUBSET Debits
      PROVE  /\ Summable([d \in D |-> Taken(a, l, d)], D)
             /\ TakenBy(a, l, D) = SumFunctionOnSet([d \in D |-> Taken(a, l, d)], D)
  <2>1. IsFiniteSet(Debits)
    <3>1. IsFiniteSet({"hold"})
      BY FS_Singleton
    <3>2. IsFiniteSet({"hold"} \cup {"capture"})
      BY <3>1, FS_AddElement
    <3>3. IsFiniteSet(({"hold"} \cup {"capture"}) \cup {"usage_debit"})
      BY <3>2, FS_AddElement
    <3>4. Debits = ({"hold"} \cup {"capture"}) \cup {"usage_debit"}
      BY DEF Debits
    <3> QED BY <3>3, <3>4
  <2>2. IsFiniteSet(D)
    BY <2>1, FS_Subset
  <2>3. Summable([d \in D |-> Taken(a, l, d)], D)
    BY <1>1, <2>2 DEF Summable
  <2> QED BY <2>3 DEF TakenBy, SumFunction
<1>3. ASSUME NEW D \in SUBSET Debits, NEW x \in D
      PROVE  TakenBy(a, l, D) = Taken(a, l, x) + TakenBy(a, l, D \ {x})
  <2> DEFINE f == [d \in D |-> Taken(a, l, d)]
             g == [d \in D \ {x} |-> Taken(a, l, d)]
             E == D \ {x}
  <2>1. Summable(f, D) /\ TakenBy(a, l, D) = SumFunctionOnSet(f, D)
    BY <1>2
  <2>2. E \in SUBSET Debits
    OBVIOUS
  <2>3. Summable(g, E) /\ TakenBy(a, l, E) = SumFunctionOnSet(g, E)
    BY <1>2, <2>2
  <2>4. f[x] = Taken(a, l, x) /\ \A y \in E : f[y] = g[y]
    OBVIOUS
  <2> HIDE DEF f, g
  <2>5. SumFunctionOnSet(f, D) = f[x] + SumFunctionOnSet(f, E)
    BY <2>1, SumTakesAny
  <2> HIDE DEF E
  <2>6. SumFunctionOnSet(f, E) = SumFunctionOnSet(g, E)
    BY <2>3, <2>4, SumAgrees DEF Summable
  <2> QED BY <2>1, <2>3, <2>4, <2>5, <2>6 DEF E
<1>4. TakenBy(a, l, {}) = 0
  BY <1>2, SumOverNone
<1>5. ASSUME NEW d \in Debits PROVE TakenBy(a, l, {d}) = Taken(a, l, d)
  <2>1. TakenBy(a, l, {d}) = Taken(a, l, d) + TakenBy(a, l, {d} \ {d})
    BY <1>3
  <2>2. {d} \ {d} = {}
    OBVIOUS
  <2>3. TakenBy(a, l, {d}) = Taken(a, l, d) + 0
    BY <1>4, <2>1, <2>2
  <2> QED BY <1>1, <2>3
<1>6. TakenBy(a, l, {"capture", "usage_debit"}) = Taken(a, l, "capture") + Taken(a, l, "usage_debit")
  <2>1. {"capture", "usage_debit"} \ {"capture"} = {"usage_debit"}
    OBVIOUS
  <2>2. {"capture", "usage_debit"} \in SUBSET Debits /\ "usage_debit" \in Debits
    BY DEF Debits
  <2>3. TakenBy(a, l, {"capture", "usage_debit"})
          = Taken(a, l, "capture") + TakenBy(a, l, {"capture", "usage_debit"} \ {"capture"})
    BY <1>3, <2>2
  <2>4. TakenBy(a, l, {"usage_debit"}) = Taken(a, l, "usage_debit")
    BY <1>5, <2>2
  <2> QED BY <2>1, <2>3, <2>4
<1>7. TakenBy(a, l, Debits)
        = Taken(a, l, "hold") + Taken(a, l, "capture") + Taken(a, l, "usage_debit")
  <2>1. Debits \ {"hold"} = {"capture", "usage_debit"} /\ "hold" \in Debits
    BY DEF Debits
  <2>2. TakenBy(a, l, Debits) = Taken(a, l, "hold") + TakenBy(a, l, Debits \ {"hold"})
    BY <1>3, <2>1
  <2>3. Taken(a, l, "hold") \in Int /\ Taken(a, l, "capture") \in Int /\ Taken(a, l, "usage_debit") \in Int
    BY <1>1 DEF Debits
  <2>4. TakenBy(a, l, Debits)
          = Taken(a, l, "hold") + (Taken(a, l, "capture") + Taken(a, l, "usage_debit"))
    BY <1>6, <2>1, <2>2
  <2> QED BY <2>3, <2>4
<1>8. "hold" \in Debits
  BY DEF Debits
<1> QED BY <1>5, <1>6, <1>7, <1>8

-----------------------------------------------------------------------------
(* The share of a lot that refunds revoke.                                  *)

LEMMA DivFacts ==
  ASSUME NEW p \in Nat, NEW c \in Nat \ {0}
  PROVE  /\ p \div c \in Nat
         /\ c * (p \div c) <= p
         /\ p < c * (p \div c) + c
OBVIOUS

LEMMA DivMonotone ==
  ASSUME NEW p \in Nat, NEW q \in Nat, NEW c \in Nat \ {0}, p <= q
  PROVE  p \div c <= q \div c
<1>1. PICK i \in Nat : i = p \div c
  BY DivFacts
<1>2. PICK j \in Nat : j = q \div c
  BY DivFacts
<1>3. c * i <= p /\ q < c * j + c
  BY <1>1, <1>2, DivFacts
<1>4. c * i < c * (j + 1)
  BY <1>3
<1>5. ASSUME j + 1 <= i PROVE FALSE
  <2>1. c * (j + 1) <= c * i
    BY <1>5
  <2> QED BY <1>4, <2>1
<1> QED BY <1>1, <1>2, <1>5

LEMMA DivOfProduct ==
  ASSUME NEW a \in Nat, NEW c \in Nat \ {0}
  PROVE  (a * c) \div c = a
<1>1. a * c \in Nat
  OBVIOUS
<1>2. PICK i \in Nat : i = (a * c) \div c
  BY <1>1, DivFacts
<1>3. c * i <= a * c /\ a * c < c * i + c
  BY <1>1, <1>2, DivFacts
<1>4. ASSUME i < a PROVE FALSE
  <2>1. c * (i + 1) <= c * a
    BY <1>4
  <2> QED BY <1>3, <2>1
<1>5. ASSUME a < i PROVE FALSE
  <2>1. c * (a + 1) <= c * i
    BY <1>5
  <2> QED BY <1>3, <2>1
<1> QED BY <1>2, <1>4, <1>5

\* The more is refunded, the more is revoked.
LEMMA TargetGrows ==
  ASSUME NEW l \in Lots, NEW i \in Nat, NEW j \in Nat, i <= j, j <= Consideration[l]
  PROVE  /\ Target(l, 0, i) \in Nat /\ Target(l, 0, j) \in Nat
         /\ Target(l, 0, i) <= Target(l, 0, j)
<1> DEFINE A == LotAmount[l]
           C == Consideration[l]
<1>1. A \in Nat /\ C \in Nat \ {0}
  BY WalletAssumption
<1>2. \A k \in Nat : Target(l, 0, k) = IF k = C THEN A ELSE (A * k) \div C
  BY DEF Target
<1> HIDE DEF A, C
<1>3. \A k \in Nat : A * k \in Nat
  BY <1>1
<1>4. A * i <= A * j /\ A * j <= A * C
  BY <1>1 DEF C
<1>5. \A k \in Nat : (A * k) \div C \in Nat
  BY <1>1, <1>3, DivFacts
<1>6. (A * i) \div C <= (A * j) \div C /\ (A * j) \div C <= (A * C) \div C
  BY <1>1, <1>3, <1>4, DivMonotone
<1>7. (A * C) \div C = A
  BY <1>1, DivOfProduct
<1>8. \A k \in Nat : Target(l, 0, k) \in Nat
  BY <1>1, <1>2, <1>5
<1>9. Target(l, 0, i) <= Target(l, 0, j)
  <2>1. CASE i = C
    <3>1. i = j
      BY <1>1, <2>1 DEF C
    <3> QED BY <1>8, <3>1
  <2>2. CASE i # C /\ j = C
    <3>1. (A * i) \div C <= A
      BY <1>6, <1>7, <2>2
    <3> QED BY <1>2, <2>2, <3>1
  <2>3. CASE i # C /\ j # C
    BY <1>2, <1>6, <2>3
  <2> QED BY <2>1, <2>2, <2>3
<1> QED BY <1>8, <1>9

-----------------------------------------------------------------------------
(* The invariant of types and refunds.                                      *)

\* Every receipt revokes its share: what was debited, was lost to expiry or is owed adds up.
RefundsAccounted ==
  \A l \in Lots :
    /\ refunds[l].refunded <= Consideration[l]
    /\ refunds[l].debit + refunds[l].expired + refunds[l].receivable = refunds[l].target
    /\ refunds[l].target = Target(l, 0, refunds[l].refunded)

\* What the call read of its lot is current, or a later receipt shows that it is not.
RefundPlan(f) ==
  /\ f.amount > 0 /\ f.before + f.amount <= Consideration[f.lot]
  /\ lot[f.lot] # "unfunded"
  /\ f.before <= refunds[f.lot].refunded
  /\ f.before = refunds[f.lot].refunded =>
       f.spent + refunds[f.lot].debit + refunds[f.lot].expired <= LotAmount[f.lot]

RefundPlansSound == \A c \in Callers : call[c].kind = "refund" => RefundPlan(call[c])

RefundInv == TypeOK /\ RefundsAccounted /\ RefundPlansSound

LEMMA SpendingCall ==
  ASSUME NEW s \in Calls, s.kind \in {"hold", "usage_debit"}
  PROVE  s.ref \in Refs /\ s.gone \in SUBSET Lots /\ s.plan \in Planned \cup {<<>>}
BY DEF Calls, Idle

LEMMA SettlingCall ==
  ASSUME NEW s \in Calls, s.kind \in {"capture", "release"}
  PROVE  s.ref \in Refs /\ s.amount \in Nat /\ s.previous \in Planned /\ s.captured \in Nat
BY DEF Calls, Idle

LEMMA FreezingCall ==
  ASSUME NEW s \in Calls, s.kind = "freeze"
  PROVE  s.lot \in Lots /\ s.generation \in Nat
BY DEF Calls, Idle

LEMMA RefundingCall ==
  ASSUME NEW s \in Calls, s.kind = "refund"
  PROVE  /\ s.lot \in Lots /\ s.generation \in Nat /\ s.amount \in Nat
         /\ s.closing \in [Refs -> Nat] /\ s.before \in Nat /\ s.spent \in Nat
         /\ s.gone \in BOOLEAN
BY DEF Calls, Idle

LEMMA IdleCall == Idle \in Calls /\ Idle.kind = "idle"
BY DEF Calls, Idle

LEMMA RemainingIs ==
  ASSUME TypeOK, NEW l \in Lots
  PROVE  /\ Remaining(l) = LotAmount[l]
              - (Taken(alloc, l, "hold") + Taken(alloc, l, "capture") + Taken(alloc, l, "usage_debit"))
              - refunds[l].debit
         /\ Remaining(l) \in Int
         /\ Spent(l) = Taken(alloc, l, "capture") + Taken(alloc, l, "usage_debit")
         /\ Spent(l) \in Nat
         /\ AllocatedFrom(l, {"hold"}) = Taken(alloc, l, "hold")
<1>1. alloc \in Allocations
  BY DEF TypeOK, Allocations
<1>2. /\ AllocatedFrom(l, Debits) = TakenBy(alloc, l, Debits)
      /\ AllocatedFrom(l, {"hold"}) = TakenBy(alloc, l, {"hold"})
      /\ Spent(l) = TakenBy(alloc, l, {"capture", "usage_debit"})
  BY DEF AllocatedFrom, TakenBy, TakenFrom, Taken, Spent
<1>3. Remaining(l) = LotAmount[l] - TakenBy(alloc, l, Debits) - refunds[l].debit
  BY <1>2 DEF Remaining
<1>4. /\ Taken(alloc, l, "hold") \in Nat
      /\ Taken(alloc, l, "capture") \in Nat
      /\ Taken(alloc, l, "usage_debit") \in Nat
  BY <1>1, TakenNat DEF Debits
<1>5. LotAmount[l] \in Nat /\ refunds[l].debit \in Nat
  BY WalletAssumption DEF TypeOK
<1> QED BY <1>1, <1>2, <1>3, <1>4, <1>5, TakenByIs

LEMMA RemainingIsNext ==
  ASSUME TypeOK', NEW l \in Lots
  PROVE  /\ Remaining(l)' = LotAmount[l]
              - (Taken(alloc', l, "hold") + Taken(alloc', l, "capture")
                   + Taken(alloc', l, "usage_debit"))
              - refunds'[l].debit
         /\ Remaining(l)' \in Int
         /\ Spent(l)' = Taken(alloc', l, "capture") + Taken(alloc', l, "usage_debit")
         /\ Spent(l)' \in Nat
         /\ AllocatedFrom(l, {"hold"})' = Taken(alloc', l, "hold")
<1>1. alloc' \in Allocations
  BY DEF TypeOK, Allocations
<1>2. /\ AllocatedFrom(l, Debits)' = TakenBy(alloc', l, Debits)
      /\ AllocatedFrom(l, {"hold"})' = TakenBy(alloc', l, {"hold"})
      /\ Spent(l)' = TakenBy(alloc', l, {"capture", "usage_debit"})
  BY DEF AllocatedFrom, TakenBy, TakenFrom, Taken, Spent
<1>3. Remaining(l)' = LotAmount[l] - TakenBy(alloc', l, Debits) - refunds'[l].debit
  BY <1>2 DEF Remaining
<1>4. /\ Taken(alloc', l, "hold") \in Nat
      /\ Taken(alloc', l, "capture") \in Nat
      /\ Taken(alloc', l, "usage_debit") \in Nat
  BY <1>1, TakenNat DEF Debits
<1>5. LotAmount[l] \in Nat /\ refunds'[l].debit \in Nat
  BY WalletAssumption DEF TypeOK
<1> QED BY <1>1, <1>2, <1>3, <1>4, <1>5, TakenByIs

\* Only refunds change the accounts of refunds.
LEMMA RefundsKept ==
  ASSUME RefundInv, TypeOK', refunds' = refunds,
         \A l \in Lots : lot[l] # "unfunded" => lot'[l] # "unfunded",
         \A c \in Callers : call'[c].kind = "refund" => call'[c] = call[c] \/ RefundPlan(call[c])'
  PROVE  RefundInv'
<1>1. RefundsAccounted'
  BY DEF RefundInv, RefundsAccounted
<1>2. ASSUME NEW c \in Callers, call'[c].kind = "refund"
      PROVE  RefundPlan(call[c])'
  <2>1. CASE call'[c] = call[c]
    <3>1. RefundPlan(call[c])
      BY <1>2, <2>1 DEF RefundInv, RefundPlansSound
    <3>2. call[c].lot \in Lots
      BY <1>2, <2>1, RefundingCall DEF RefundInv, TypeOK
    <3> QED BY <2>1, <3>1, <3>2 DEF RefundPlan
  <2>2. CASE RefundPlan(call[c])'
    BY <2>2
  <2> QED BY <1>2, <2>1, <2>2
<1> QED BY <1>1, <1>2 DEF RefundInv, RefundPlansSound

\* A step that only records a call.
LEMMA CallKept ==
  ASSUME RefundInv, NEW c \in Callers, NEW s \in Calls, s.kind # "refund",
         call' = [call EXCEPT ![c] = s], UNCHANGED <<lot, refunds>>,
         fence' \in [Lots -> [generation: 0..MaxFreezes, active: BOOLEAN]],
         alloc' \in Allocations, entry' \in [Entries -> [Refs -> Nat]],
         overtaken' \subseteq Refs
  PROVE  RefundInv'
<1>1. TypeOK'
  BY DEF RefundInv, TypeOK, Allocations
<1>2. \A b \in Callers : call'[b].kind = "refund" => call'[b] = call[b]
  BY DEF RefundInv, TypeOK
<1>3. \A l \in Lots : lot[l] # "unfunded" => lot'[l] # "unfunded"
  OBVIOUS
<1> QED BY <1>1, <1>2, <1>3, RefundsKept

LEMMA BeginKeepsRefunds ==
  ASSUME RefundInv, NEW c \in Callers, NEW d \in {"hold", "usage_debit"}, NEW r \in Refs,
         Begin(c, d, r)
  PROVE  RefundInv'
<1> DEFINE s == [kind |-> d, ref |-> r, plan |-> <<>>, gone |-> {l \in Lots : lot[l] = "expired"}]
<1>1. s \in Calls /\ s.kind # "refund"
  BY DEF Calls
<1>2. call' = [call EXCEPT ![c] = s] /\ UNCHANGED <<lot, refunds, fence, alloc, entry, overtaken>>
  BY DEF Begin
<1> HIDE DEF s
<1> QED BY <1>1, <1>2, CallKept DEF RefundInv, TypeOK, Allocations

\* What lots offer, and what a call plans to take of it.
LEMMA PlanAllocationKeepsRefunds ==
  ASSUME RefundInv, NEW c \in Callers, PlanAllocation(c)
  PROVE  RefundInv'
<1> DEFINE offer == [l \in Lots |-> IF Eligible(l, call[c].gone) THEN Max({0, Remaining(l)}) ELSE 0]
           p == Take(Price[call[c].ref], offer)
           s == [call[c] EXCEPT !.plan = p]
<1>1. call[c] \in Calls /\ call[c].kind \in {"hold", "usage_debit"}
  BY DEF PlanAllocation, RefundInv, TypeOK
<1>2. call[c].ref \in Refs /\ Price[call[c].ref] \in Int
  BY <1>1, SpendingCall, WalletAssumption
<1>3. offer \in Planned
  <2>1. ASSUME NEW l \in Lots PROVE Max({0, Remaining(l)}) \in Nat
    <3>1. Remaining(l) \in Int
      BY RemainingIs DEF RefundInv
    <3> QED BY <3>1, MaxWithZero
  <2> QED BY <2>1 DEF Planned
<1> HIDE DEF offer
<1>4. p \in Planned
  BY <1>2, <1>3, TakeBounds
<1> HIDE DEF p
<1>5. s \in Calls /\ s.kind # "refund"
  BY <1>1, <1>4 DEF Calls, Idle
<1>6. call' = [call EXCEPT ![c] = s] /\ UNCHANGED <<lot, refunds, fence, alloc, entry, overtaken>>
  BY DEF PlanAllocation, p, offer
<1> HIDE DEF s
<1> QED BY <1>5, <1>6, CallKept DEF RefundInv, TypeOK, Allocations

\* The rows a batch would leave are amounts.
LEMMA AllocationsAfterTyped ==
  ASSUME TypeOK, NEW d \in Debits, NEW r \in Refs, NEW gone, NEW plan \in Planned
  PROVE  AllocationsAfter(d, r, gone, plan) \in Planned
BY DEF TypeOK, AllocationsAfter, Planned

LEMMA CommitAllocationKeepsRefunds ==
  ASSUME RefundInv, NEW c \in Callers, CommitAllocation(c)
  PROVE  RefundInv'
<1> DEFINE d == call[c].kind
           r == call[c].ref
           after == AllocationsAfter(d, r, call[c].gone, call[c].plan)
           new == IF entry[d][r] = 0 THEN Price[r] ELSE entry[d][r]
<1>1. /\ call[c] \in Calls /\ d \in {"hold", "usage_debit"} /\ call[c].plan # <<>>
      /\ alloc' = [alloc EXCEPT ![d][r] = after]
      /\ entry' = [entry EXCEPT ![d][r] = new]
      /\ call' = [call EXCEPT ![c] = Idle]
      /\ overtaken' \subseteq overtaken \cup {r}
      /\ UNCHANGED <<lot, fence, refunds>>
  BY DEF CommitAllocation, RefundInv, TypeOK
<1>2. r \in Refs /\ call[c].plan \in Planned /\ d \in Debits /\ d \in Entries
  BY <1>1, SpendingCall DEF Debits, Entries
<1>3. after \in Planned
  BY <1>2, AllocationsAfterTyped DEF RefundInv
<1>4. new \in Nat
  BY <1>2, WalletAssumption DEF RefundInv, TypeOK
<1> HIDE DEF d, r, after, new
<1>5. alloc' \in Allocations /\ entry' \in [Entries -> [Refs -> Nat]] /\ overtaken' \subseteq Refs
  BY <1>1, <1>2, <1>3, <1>4 DEF RefundInv, TypeOK, Allocations
<1> QED BY <1>1, <1>5, IdleCall, CallKept DEF RefundInv, TypeOK

LEMMA HeldForInt ==
  ASSUME TypeOK, NEW r \in Refs
  PROVE  /\ HeldFor(r) \in Int
         /\ HeldFor(r) = entry["hold"][r] - entry["capture"][r] - entry["release"][r]
         /\ entry["hold"][r] \in Nat /\ entry["capture"][r] \in Nat /\ entry["release"][r] \in Nat
BY DEF TypeOK, HeldFor, Entries, Debits

LEMMA PlanSettlementKeepsRefunds ==
  ASSUME RefundInv, NEW c \in Callers, NEW d \in {"capture", "release"}, NEW r \in Refs,
         NEW amount \in 1..Price[r], PlanSettlement(c, d, r, amount)
  PROVE  RefundInv'
<1> DEFINE prev == alloc["hold"][r]
           taken == AllocatedTo("capture", r)
           s == [kind |-> d, ref |-> r, amount |-> amount, previous |-> prev, captured |-> taken]
<1>1. prev \in Planned /\ alloc["capture"][r] \in Planned
  BY DEF RefundInv, TypeOK, Debits
<1>2. taken \in Nat
  BY <1>1, SumOfPlan DEF AllocatedTo
<1>3. amount \in Nat
  BY WalletAssumption
<1>4. call' = [call EXCEPT ![c] = s] /\ UNCHANGED <<lot, refunds, fence, alloc, entry, overtaken>>
  BY DEF PlanSettlement
<1> HIDE DEF prev, taken
<1>5. s \in Calls /\ s.kind # "refund"
  BY <1>1, <1>2, <1>3 DEF Calls
<1> HIDE DEF s
<1> QED BY <1>4, <1>5, CallKept DEF RefundInv, TypeOK, Allocations

\* What a settlement moves, and what it leaves.
LEMMA MovedBounds ==
  ASSUME TypeOK, NEW r \in Refs, NEW previous \in Planned, NEW amount \in Nat
  PROVE  /\ Take(amount, previous) \in Planned
         /\ \A l \in Lots : Take(amount, previous)[l] <= previous[l]
         /\ HoldAfter(r, previous, Take(amount, previous)) \in Planned
         /\ \A l \in Lots : HoldAfter(r, previous, Take(amount, previous))[l] <= alloc["hold"][r][l]
<1> DEFINE m == Take(amount, previous)
<1>1. m \in Planned /\ \A l \in Lots : m[l] <= previous[l]
  <2>1. amount \in Int
    OBVIOUS
  <2> QED BY <2>1, TakeBounds
<1> HIDE DEF m
<1>2. \A l \in Lots : m[l] \in Nat /\ previous[l] \in Nat /\ alloc["hold"][r][l] \in Nat
  BY <1>1 DEF Planned, TypeOK, Debits
<1>3. HoldAfter(r, previous, m) \in Planned
      /\ \A l \in Lots : HoldAfter(r, previous, m)[l] <= alloc["hold"][r][l]
  BY <1>1, <1>2 DEF HoldAfter, Planned
<1> QED BY <1>1, <1>3 DEF m

LEMMA CommitSettlementKeepsRefunds ==
  ASSUME RefundInv, NEW c \in Callers, CommitSettlement(c)
  PROVE  RefundInv'
<1> DEFINE s == call[c]
           moved == Take(s.amount, s.previous)
           hold == HoldAfter(s.ref, s.previous, moved)
           capture == IF s.kind = "capture"
                      THEN [l \in Lots |-> alloc["capture"][s.ref][l] + moved[l]]
                      ELSE alloc["capture"][s.ref]
<1>1. /\ s \in Calls /\ s.kind \in {"capture", "release"}
      /\ alloc' = [alloc EXCEPT !["hold"][s.ref] = hold, !["capture"][s.ref] = capture]
      /\ entry' = [entry EXCEPT ![s.kind][s.ref] = s.amount]
      /\ call' = [call EXCEPT ![c] = Idle]
      /\ overtaken' \subseteq overtaken \cup {s.ref}
      /\ UNCHANGED <<lot, fence, refunds>>
  BY DEF CommitSettlement, RefundInv, TypeOK
<1>2. s.ref \in Refs /\ s.amount \in Nat /\ s.previous \in Planned
  BY <1>1, SettlingCall
<1>3. moved \in Planned /\ hold \in Planned
  BY <1>2, MovedBounds DEF RefundInv
<1>4. capture \in Planned
  <2>1. alloc["capture"][s.ref] \in Planned
    BY <1>2 DEF RefundInv, TypeOK, Debits
  <2> HIDE DEF moved, s
  <2> QED BY <1>3, <2>1 DEF Planned
<1> HIDE DEF s, moved, hold, capture
<1>5. s.kind \in Entries /\ "hold" \in Debits /\ "capture" \in Debits
  BY <1>1 DEF Entries, Debits
<1>6. alloc' \in Allocations /\ entry' \in [Entries -> [Refs -> Nat]] /\ overtaken' \subseteq Refs
  BY <1>1, <1>2, <1>3, <1>4, <1>5 DEF RefundInv, TypeOK, Allocations
<1> QED BY <1>1, <1>6, IdleCall, CallKept DEF RefundInv, TypeOK

LEMMA FreezeKeepsRefunds ==
  ASSUME RefundInv, NEW c \in Callers, NEW l \in Refundable, FreezeFunding(c, l)
  PROVE  RefundInv'
<1> DEFINE s == [kind |-> "freeze", lot |-> l, generation |-> fence[l].generation + 1]
           g == [generation |-> fence[l].generation + 1, active |-> TRUE]
<1>1. l \in Lots /\ fence[l].generation \in Nat /\ fence[l].generation < MaxFreezes
  BY WalletAssumption DEF FreezeFunding, RefundInv, TypeOK
<1>2. s \in Calls /\ s.kind # "refund"
  BY <1>1 DEF Calls
<1>3. g \in [generation: 0..MaxFreezes, active: BOOLEAN]
  BY <1>1, WalletAssumption
<1>4. /\ fence' = [fence EXCEPT ![l] = g]
      /\ call' = [call EXCEPT ![c] = s]
      /\ UNCHANGED <<lot, refunds, alloc, entry, overtaken>>
  BY DEF FreezeFunding
<1> HIDE DEF s, g
<1>5. fence' \in [Lots -> [generation: 0..MaxFreezes, active: BOOLEAN]]
  BY <1>1, <1>3, <1>4 DEF RefundInv, TypeOK
<1> QED BY <1>2, <1>4, <1>5, CallKept DEF RefundInv, TypeOK, Allocations

LEMMA UnfreezeKeepsRefunds ==
  ASSUME RefundInv, NEW c \in Callers, UnfreezeFunding(c)
  PROVE  RefundInv'
<1>1. /\ fence' = [fence EXCEPT ![call[c].lot].active = FALSE]
      /\ call' = [call EXCEPT ![c] = Idle]
      /\ UNCHANGED <<lot, refunds, alloc, entry, overtaken>>
      /\ call[c] \in Calls /\ call[c].kind = "freeze"
  BY DEF UnfreezeFunding, RefundInv, TypeOK
<1>2. call[c].lot \in Lots
  BY <1>1, FreezingCall
<1>3. fence' \in [Lots -> [generation: 0..MaxFreezes, active: BOOLEAN]]
  BY <1>1, <1>2 DEF RefundInv, TypeOK
<1> QED BY <1>1, <1>3, IdleCall, CallKept DEF RefundInv, TypeOK, Allocations

LEMMA AbandonKeepsRefunds ==
  ASSUME RefundInv, NEW c \in Callers, Abandon(c)
  PROVE  RefundInv'
BY IdleCall, CallKept DEF Abandon, RefundInv, TypeOK, Allocations

LEMMA LotKeepsRefunds ==
  ASSUME RefundInv, NEW l \in Lots, Fund(l) \/ Expire(l)
  PROVE  RefundInv'
<1>1. /\ lot' = [lot EXCEPT ![l] = "live"] \/ lot' = [lot EXCEPT ![l] = "expired"]
      /\ UNCHANGED <<fence, refunds, alloc, entry, call, overtaken>>
  BY DEF Fund, Expire
<1>2. TypeOK'
  BY <1>1 DEF RefundInv, TypeOK
<1>3. \A k \in Lots : lot[k] # "unfunded" => lot'[k] # "unfunded"
  BY <1>1 DEF RefundInv, TypeOK
<1>4. \A c \in Callers : call'[c] = call[c]
  BY <1>1
<1> QED BY <1>1, <1>2, <1>3, <1>4, RefundsKept

LEMMA PlanRefundKeepsRefunds ==
  ASSUME RefundInv, NEW c \in Callers, call[c].kind = "freeze",
         NEW amount \in 1..Consideration[call[c].lot], PlanRefund(c, amount)
  PROVE  RefundInv'
<1> DEFINE l == call[c].lot
           closing == [r \in Refs |-> IF alloc["hold"][r][l] > 0 THEN HeldFor(r) ELSE 0]
           f == [kind |-> "refund", lot |-> l, generation |-> call[c].generation,
                 amount |-> amount, closing |-> closing, before |-> refunds[l].refunded,
                 spent |-> Spent(l), gone |-> lot[l] = "expired"]
<1>1. /\ call[c] \in Calls
      /\ lot[l] # "unfunded"
      /\ refunds[l].refunded + amount <= Consideration[l]
      /\ \A r \in Refs : alloc["hold"][r][l] > 0 => closing[r] > 0
      /\ LotAmount[l] - Spent(l) - refunds[l].debit - refunds[l].expired >= 0
      /\ call' = [call EXCEPT ![c] = f]
      /\ UNCHANGED <<lot, fence, refunds, alloc, entry, overtaken>>
  BY DEF PlanRefund, RefundInv, TypeOK
<1>2. l \in Lots /\ call[c].generation \in Nat
  BY <1>1, FreezingCall
<1>3. closing \in [Refs -> Nat]
  <2>1. ASSUME NEW r \in Refs PROVE closing[r] \in Nat
    <3>1. HeldFor(r) \in Int /\ alloc["hold"][r][l] \in Nat
      BY <1>2, HeldForInt DEF RefundInv, TypeOK, Debits, Planned
    <3>2. alloc["hold"][r][l] > 0 => HeldFor(r) > 0
      BY <1>1
    <3> QED BY <3>1, <3>2
  <2> QED BY <2>1
<1>4. Spent(l) \in Nat /\ amount \in Nat /\ amount > 0 /\ LotAmount[l] \in Nat
  <2>1. Spent(l) \in Nat
    BY <1>2, RemainingIs DEF RefundInv
  <2>2. Consideration[l] \in Nat /\ LotAmount[l] \in Nat
    BY <1>2, WalletAssumption
  <2>3. amount \in Nat /\ amount > 0
    BY <2>2
  <2> QED BY <2>1, <2>2, <2>3
<1>5. refunds[l].refunded \in Nat /\ refunds[l].debit \in Nat /\ refunds[l].expired \in Nat
  BY <1>2 DEF RefundInv, TypeOK
<1> DEFINE spent == Spent(l)
           before == refunds[l].refunded
           gone == lot[l] = "expired"
<1>6. gone \in BOOLEAN
  OBVIOUS
<1> HIDE DEF l, closing, spent, before, gone
<1>7. f \in Calls /\ f.kind = "refund"
  BY <1>2, <1>3, <1>4, <1>5, <1>6 DEF Calls, spent, before, gone
<1>8. f.lot = l /\ f.amount = amount /\ f.before = refunds[l].refunded /\ f.spent = Spent(l)
  BY DEF spent, before
<1> HIDE DEF f
<1>9. TypeOK'
  BY <1>1, <1>7 DEF RefundInv, TypeOK
<1>10. call'[c] = f /\ \A b \in Callers \ {c} : call'[b] = call[b]
  BY <1>1 DEF RefundInv, TypeOK
<1>11. RefundPlan(call[c])'
  <2>1. f.spent + refunds[l].debit + refunds[l].expired <= LotAmount[l]
    BY <1>1, <1>4, <1>5, <1>8
  <2>2. f.amount > 0 /\ f.before + f.amount <= Consideration[f.lot] /\ lot[f.lot] # "unfunded"
        /\ f.before <= refunds[f.lot].refunded
    BY <1>1, <1>4, <1>5, <1>8
  <2>3. refunds' = refunds /\ lot' = lot
    BY <1>1
  <2>4. f.spent + refunds[f.lot].debit + refunds[f.lot].expired <= LotAmount[f.lot]
    BY <1>8, <2>1
  <2> QED BY <1>10, <2>2, <2>3, <2>4 DEF RefundPlan
<1> QED BY <1>1, <1>9, <1>10, <1>11, RefundsKept

Receipts == [refunded: Nat, target: Nat, debit: Nat, expired: Nat, receivable: Nat]

\* A receipt takes at most what is unused, and accounts for its share of the lot.
LEMMA ReceiptSound ==
  ASSUME RefundInv, NEW l \in Lots, NEW f \in Calls, f.kind = "refund", f.lot = l,
         RefundPlan(f), refunds[l].refunded = f.before
  PROVE  /\ Receipt(l, f) \in Receipts
         /\ Receipt(l, f).refunded = f.before + f.amount
         /\ Receipt(l, f).refunded <= Consideration[l]
         /\ Receipt(l, f).target = Target(l, 0, Receipt(l, f).refunded)
         /\ Receipt(l, f).debit + Receipt(l, f).expired + Receipt(l, f).receivable
              = Receipt(l, f).target
         /\ f.spent + Receipt(l, f).debit <= LotAmount[l]
<1> DEFINE old == refunds[l]
           target == Target(l, f.before, f.amount)
           delta == target - old.target
           u == LotAmount[l] - f.spent - old.debit - old.expired
           unused == Min({delta, u})
           n == f.before + f.amount
<1>1. f.amount \in Nat /\ f.before \in Nat /\ f.spent \in Nat /\ f.gone \in BOOLEAN
  BY RefundingCall
<1>2. /\ old.refunded \in Nat /\ old.target \in Nat /\ old.debit \in Nat
      /\ old.expired \in Nat /\ old.receivable \in Nat
  BY DEF RefundInv, TypeOK
<1>3. LotAmount[l] \in Nat
  BY WalletAssumption
<1>4. old.target = Target(l, 0, old.refunded) /\ old.debit + old.expired + old.receivable = old.target
  BY DEF RefundInv, RefundsAccounted
<1>5. n \in Nat /\ f.before <= n /\ n <= Consideration[l]
  BY <1>1 DEF RefundPlan
<1>6. target = Target(l, 0, n)
  <2>1. 0 + n = n
    BY <1>5
  <2> HIDE DEF n
  <2>2. Target(l, 0, n) = IF 0 + n = Consideration[l] THEN LotAmount[l]
                          ELSE (LotAmount[l] * (0 + n)) \div Consideration[l]
    BY DEF Target
  <2>3. Target(l, 0, n) = IF n = Consideration[l] THEN LotAmount[l]
                          ELSE (LotAmount[l] * n) \div Consideration[l]
    BY <2>1, <2>2
  <2>4. target = IF n = Consideration[l] THEN LotAmount[l]
                 ELSE (LotAmount[l] * n) \div Consideration[l]
    BY DEF Target, n
  <2> QED BY <2>3, <2>4
<1>7. target \in Nat /\ old.target <= target
  <2>1. old.refunded = f.before
    OBVIOUS
  <2> HIDE DEF n, target, old
  <2>2. Target(l, 0, f.before) <= Target(l, 0, n) /\ Target(l, 0, n) \in Nat
    BY <1>1, <1>5, TargetGrows
  <2> QED BY <1>4, <1>6, <2>1, <2>2
<1>8. u \in Nat
  <2>1. f.spent + old.debit + old.expired <= LotAmount[l]
    BY DEF RefundPlan
  <2> HIDE DEF old
  <2> QED BY <1>1, <1>2, <1>3, <2>1
<1>9. delta \in Nat
  <2> HIDE DEF old, target
  <2> QED BY <1>2, <1>7
<1>10. unused \in Nat /\ unused <= delta /\ unused <= u
  <2> HIDE DEF delta, u
  <2>1. delta \in Int /\ u \in Int
    BY <1>8, <1>9
  <2>2. /\ unused \in Int /\ unused <= delta /\ unused <= u
        /\ unused = delta \/ unused = u
    BY <2>1, MinOfTwo
  <2> HIDE DEF unused
  <2> QED BY <1>8, <1>9, <2>2
<1> DEFINE debit == old.debit + (IF f.gone THEN 0 ELSE unused)
           expired == old.expired + (IF f.gone THEN unused ELSE 0)
           receivable == old.receivable + delta - unused
<1>11. Receipt(l, f) = [refunded |-> n, target |-> target, debit |-> debit,
                        expired |-> expired, receivable |-> receivable]
  BY DEF Receipt
<1> HIDE DEF unused, u
<1>12. debit \in Nat /\ expired \in Nat /\ receivable \in Nat
  <2> HIDE DEF delta, old
  <2> QED BY <1>1, <1>2, <1>9, <1>10
<1>13. debit + expired + receivable = target
  <2>1. delta = target - old.target
    OBVIOUS
  <2> HIDE DEF delta, old, target
  <2>2. debit + expired = old.debit + old.expired + unused
    BY <1>1, <1>2, <1>10
  <2>3. receivable = old.receivable + delta - unused
    OBVIOUS
  <2> HIDE DEF debit, expired, receivable
  <2> QED BY <1>2, <1>4, <1>7, <1>9, <1>10, <1>12, <2>1, <2>2, <2>3
<1>14. f.spent + debit <= LotAmount[l]
  <2> HIDE DEF delta, old
  <2>1. debit <= old.debit + unused
    BY <1>1, <1>2, <1>10
  <2>2. unused <= LotAmount[l] - f.spent - old.debit - old.expired
    BY <1>10 DEF u
  <2> HIDE DEF debit
  <2> QED BY <1>1, <1>2, <1>3, <1>10, <1>12, <2>1, <2>2
<1> HIDE DEF n, target, debit, expired, receivable
<1>15. /\ Receipt(l, f).refunded = n /\ Receipt(l, f).target = target
       /\ Receipt(l, f).debit = debit /\ Receipt(l, f).expired = expired
       /\ Receipt(l, f).receivable = receivable
  BY <1>11
<1>16. Receipt(l, f) \in Receipts
  BY <1>5, <1>7, <1>11, <1>12 DEF Receipts
<1>17. n = f.before + f.amount
  BY DEF n
<1> QED BY <1>5, <1>6, <1>13, <1>14, <1>15, <1>16, <1>17

LEMMA CommitRefundKeepsRefunds ==
  ASSUME RefundInv, NEW c \in Callers, NEW last \in BOOLEAN, CommitRefund(c, last)
  PROVE  RefundInv'
<1> DEFINE f == call[c]
           l == f.lot
           R == Receipt(l, f)
           hold == HoldsAfterClosing(f)
           release == [r \in Refs |-> IF f.closing[r] > 0 THEN f.closing[r] ELSE entry["release"][r]]
           s == IF last THEN Idle
                ELSE [kind |-> "freeze", lot |-> f.lot, generation |-> f.generation]
<1>1. /\ f \in Calls /\ f.kind = "refund"
      /\ RefundHolds(f)
      /\ alloc' = [alloc EXCEPT !["hold"] = hold]
      /\ entry' = [entry EXCEPT !["release"] = release]
      /\ refunds' = [refunds EXCEPT ![l] = R]
      /\ fence' = [fence EXCEPT ![l].active = ~last]
      /\ call' = [call EXCEPT ![c] = s]
      /\ overtaken' \subseteq Refs
      /\ UNCHANGED lot
  BY DEF CommitRefund, RefundInv, TypeOK, Entries
<1>2. l \in Lots /\ f.generation \in Nat /\ f.closing \in [Refs -> Nat]
      /\ f.amount \in Nat /\ f.before \in Nat
  BY <1>1, RefundingCall
<1>3. refunds[l].refunded = f.before /\ RefundPlan(f)
  BY <1>1 DEF RefundHolds, RefundInv, RefundPlansSound
<1>4. /\ R \in Receipts
      /\ R.refunded = f.before + f.amount
      /\ R.refunded <= Consideration[l]
      /\ R.target = Target(l, 0, R.refunded)
      /\ R.debit + R.expired + R.receivable = R.target
  BY <1>1, <1>2, <1>3, ReceiptSound
<1>5. hold \in [Refs -> Planned]
  BY DEF HoldsAfterClosing, RefundInv, TypeOK, Planned, Debits
<1>6. release \in [Refs -> Nat]
  BY <1>2 DEF RefundInv, TypeOK, Entries
<1>7. s \in Calls /\ s.kind # "refund"
  BY <1>2, IdleCall DEF Calls
<1> HIDE DEF R, hold, release, s
<1>8. TypeOK'
  <2>1. refunds' \in [Lots -> Receipts]
    BY <1>1, <1>2, <1>4 DEF RefundInv, TypeOK, Receipts
  <2>2. fence' \in [Lots -> [generation: 0..MaxFreezes, active: BOOLEAN]]
    BY <1>1, <1>2 DEF RefundInv, TypeOK
  <2>3. alloc' \in [Debits -> [Refs -> Planned]]
    BY <1>1, <1>5 DEF RefundInv, TypeOK
  <2>4. entry' \in [Entries -> [Refs -> Nat]]
    BY <1>1, <1>6 DEF RefundInv, TypeOK
  <2>5. call' \in [Callers -> Calls]
    BY <1>1, <1>7 DEF RefundInv, TypeOK
  <2>6. lot' \in [Lots -> {"unfunded", "live", "expired"}]
    BY <1>1 DEF RefundInv, TypeOK
  <2> QED BY <1>1, <2>1, <2>2, <2>3, <2>4, <2>5, <2>6 DEF TypeOK, Receipts
<1>9. refunds'[l] = R /\ \A k \in Lots \ {l} : refunds'[k] = refunds[k]
  BY <1>1, <1>2 DEF RefundInv, TypeOK
<1>10. RefundsAccounted'
  <2> SUFFICES ASSUME NEW k \in Lots
               PROVE  /\ refunds'[k].refunded <= Consideration[k]
                      /\ refunds'[k].debit + refunds'[k].expired + refunds'[k].receivable
                           = refunds'[k].target
                      /\ refunds'[k].target = Target(k, 0, refunds'[k].refunded)
    BY DEF RefundsAccounted, Target
  <2>1. CASE k = l
    BY <1>4, <1>9, <2>1
  <2>2. CASE k # l
    BY <1>9, <2>2 DEF RefundInv, RefundsAccounted
  <2> QED BY <2>1, <2>2
<1>11. ASSUME NEW b \in Callers, call'[b].kind = "refund"
       PROVE  RefundPlan(call[b])'
  <2>1. b # c /\ call'[b] = call[b]
    BY <1>1, <1>7, <1>11 DEF RefundInv, TypeOK
  <2> DEFINE e == call[b]
  <2>2. RefundPlan(e) /\ e.lot \in Lots /\ e.before \in Nat
    BY <1>11, <2>1, RefundingCall DEF RefundInv, RefundPlansSound, TypeOK
  <2> HIDE DEF e
  <2>3. CASE e.lot # l
    <3>1. refunds'[e.lot] = refunds[e.lot] /\ lot' = lot
      BY <1>1, <1>9, <2>2, <2>3
    <3> QED BY <2>1, <2>2, <3>1 DEF RefundPlan, e
  <2>4. CASE e.lot = l
    <3>1. refunds'[e.lot].refunded = f.before + f.amount /\ lot' = lot
      BY <1>1, <1>4, <1>9, <2>4
    <3>2. f.amount > 0 /\ e.before <= f.before
      BY <1>3, <2>2, <2>4 DEF RefundPlan
    <3>3. e.before < refunds'[e.lot].refunded
      BY <1>2, <2>2, <3>1, <3>2
    <3>4. e.before <= refunds'[e.lot].refunded /\ e.before # refunds'[e.lot].refunded
      BY <1>2, <2>2, <3>1, <3>3
    <3> QED BY <2>1, <2>2, <3>1, <3>4 DEF RefundPlan, e
  <2> QED BY <2>3, <2>4
<1> QED BY <1>8, <1>10, <1>11 DEF RefundInv, RefundPlansSound

LEMMA InitRefunds == Init => RefundInv
<1> SUFFICES ASSUME Init PROVE RefundInv
  OBVIOUS
<1>1. TypeOK
  BY IdleCall, WalletAssumption DEF Init, TypeOK, Planned
<1>2. RefundsAccounted
  <2> SUFFICES ASSUME NEW l \in Lots
               PROVE  0 <= Consideration[l] /\ Target(l, 0, 0) = 0
    BY DEF Init, RefundsAccounted
  <2>1. Consideration[l] \in Nat \ {0} /\ LotAmount[l] \in Nat
    BY WalletAssumption
  <2>2. Target(l, 0, 0) = (LotAmount[l] * 0) \div Consideration[l]
    BY <2>1 DEF Target
  <2>3. LotAmount[l] * 0 = 0
    BY <2>1
  <2>4. (0 * Consideration[l]) \div Consideration[l] = 0 /\ 0 * Consideration[l] = 0
    BY <2>1, DivOfProduct
  <2> QED BY <2>1, <2>2, <2>3, <2>4
<1>3. RefundPlansSound
  BY IdleCall DEF Init, RefundPlansSound
<1> QED BY <1>1, <1>2, <1>3 DEF RefundInv

LEMMA StepKeepsRefunds == RefundInv /\ [Next]_vars => RefundInv'
<1> SUFFICES ASSUME RefundInv, [Next]_vars PROVE RefundInv'
  OBVIOUS
<1>1. CASE UNCHANGED vars
  BY <1>1 DEF vars, RefundInv, TypeOK, RefundsAccounted, RefundPlansSound, RefundPlan, Target
<1>2. ASSUME NEW l \in Lots, Fund(l) \/ Expire(l) PROVE RefundInv'
  BY <1>2, LotKeepsRefunds
<1>3. ASSUME NEW c \in Callers, CallStep(c) PROVE RefundInv'
  <2>1. ASSUME NEW d \in {"hold", "usage_debit"}, NEW r \in Refs, Begin(c, d, r) PROVE RefundInv'
    BY <2>1, BeginKeepsRefunds
  <2>2. CASE PlanAllocation(c)
    BY <2>2, PlanAllocationKeepsRefunds
  <2>3. CASE CommitAllocation(c)
    BY <2>3, CommitAllocationKeepsRefunds
  <2>4. ASSUME NEW d \in {"capture", "release"}, NEW r \in Refs, NEW amount \in 1..Price[r],
               PlanSettlement(c, d, r, amount)
        PROVE  RefundInv'
    BY <2>4, PlanSettlementKeepsRefunds
  <2>5. CASE CommitSettlement(c)
    BY <2>5, CommitSettlementKeepsRefunds
  <2>6. ASSUME NEW l \in Refundable, FreezeFunding(c, l) PROVE RefundInv'
    BY <2>6, FreezeKeepsRefunds
  <2>7. ASSUME call[c].kind = "freeze", NEW amount \in 1..Consideration[call[c].lot],
               PlanRefund(c, amount)
        PROVE  RefundInv'
    BY <2>7, PlanRefundKeepsRefunds
  <2>8. ASSUME NEW last \in BOOLEAN, CommitRefund(c, last) PROVE RefundInv'
    BY <2>8, CommitRefundKeepsRefunds
  <2>9. CASE UnfreezeFunding(c)
    BY <2>9, UnfreezeKeepsRefunds
  <2>10. CASE Abandon(c)
    BY <2>10, AbandonKeepsRefunds
  <2> QED
    BY <1>3, <2>1, <2>2, <2>3, <2>4, <2>5, <2>6, <2>7, <2>8, <2>9, <2>10 DEF CallStep
<1> QED BY <1>1, <1>2, <1>3 DEF Next

\* Types and refund accounts hold whatever calls overlap.
LEMMA RefundInvHolds == Spec => []RefundInv
<1>1. Init => RefundInv
  BY InitRefunds
<1>2. RefundInv /\ [Next]_vars => RefundInv'
  BY StepKeepsRefunds
<1> QED BY <1>1, <1>2, PTL DEF Spec

-----------------------------------------------------------------------------
(* The invariant of the wallet.                                             *)

Settling == {"capture", "release"}

\* A hold call finds its reference without a hold, until another one commits past it.
HoldsAlone ==
  \A c \in Callers : call[c].kind = "hold" /\ call[c].ref \notin overtaken =>
    entry["hold"][call[c].ref] = 0

\* What a settlement read of its hold still stands,
Current(s) == s.previous = alloc["hold"][s.ref] /\ s.amount <= HeldFor(s.ref)

\* or a guard of its batch fails, since another settlement came first.
Refused(s) ==
  \/ entry[s.kind][s.ref] # 0
  \/ s.kind = "release" /\ s.captured < AllocatedTo("capture", s.ref)

SettlementsSound ==
  \A c \in Callers : call[c].kind \in Settling =>
    /\ call[c].amount > 0
    /\ call[c].ref \notin overtaken =>
         /\ call[c].captured <= AllocatedTo("capture", call[c].ref)
         /\ Current(call[c]) \/ Refused(call[c])

\* The first half of EntriesBacked.
HoldBacked(r) == /\ AllocatedTo("hold", r) = HeldFor(r)
                 /\ AllocatedTo("capture", r) = entry["capture"][r]

AllocationsBacked ==
  /\ \A r \in Refs : AllocatedTo("usage_debit", r) = entry["usage_debit"][r]
  /\ \A r \in Refs \ overtaken : HoldBacked(r)

DebitsPriced == \A r \in Refs : entry["usage_debit"][r] \in {0, Price[r]}

HoldsFunded ==
  \A l \in Lots : lot[l] = "unfunded" => \A r \in Refs : alloc["hold"][r][l] = 0

\* A capture of an overtaken hold on the lot.
Blamed(l) == \E r \in overtaken : alloc["capture"][r][l] > 0

WalletInv ==
  /\ RefundInv
  /\ HoldsAlone /\ SettlementsSound
  /\ AllocationsBacked /\ DebitsPriced
  /\ HoldsFunded /\ LotsCovered

LEMMA TakenUpdate ==
  ASSUME NEW a \in Allocations, NEW b \in Allocations, NEW l \in Lots, NEW d \in Debits,
         NEW r \in Refs, \A q \in Refs \ {r} : b[d][q][l] = a[d][q][l]
  PROVE  Taken(b, l, d) = Taken(a, l, d) + (b[d][r][l] - a[d][r][l])
<1> DEFINE f == [q \in Refs |-> a[d][q][l]]
           g == [q \in Refs |-> b[d][q][l]]
<1>1. Taken(a, l, d) = SumFunctionOnSet(f, Refs) /\ Summable(f, Refs)
  BY TakenIs
<1>2. Taken(b, l, d) = SumFunctionOnSet(g, Refs) /\ Summable(g, Refs)
  BY TakenIs
<1>3. f[r] = a[d][r][l] /\ g[r] = b[d][r][l] /\ \A q \in Refs \ {r} : g[q] = f[q]
  OBVIOUS
<1> HIDE DEF f, g
<1>4. SumFunctionOnSet(g, Refs) = SumFunctionOnSet(f, Refs) + (g[r] - f[r])
  BY <1>1, <1>2, <1>3, SumDiffersAt
<1> QED BY <1>1, <1>2, <1>3, <1>4

LEMMA TakenSame ==
  ASSUME NEW a \in Allocations, NEW b \in Allocations, NEW l \in Lots, NEW d \in Debits,
         \A q \in Refs : b[d][q][l] = a[d][q][l]
  PROVE  Taken(b, l, d) = Taken(a, l, d)
BY DEF Taken

LEMMA TakenFewer ==
  ASSUME NEW a \in Allocations, NEW b \in Allocations, NEW l \in Lots, NEW d \in Debits,
         \A q \in Refs : b[d][q][l] <= a[d][q][l]
  PROVE  Taken(b, l, d) <= Taken(a, l, d)
<1> DEFINE f == [q \in Refs |-> a[d][q][l]]
           g == [q \in Refs |-> b[d][q][l]]
<1>1. Taken(a, l, d) = SumFunctionOnSet(f, Refs) /\ Summable(f, Refs)
  BY TakenIs
<1>2. Taken(b, l, d) = SumFunctionOnSet(g, Refs) /\ Summable(g, Refs)
  BY TakenIs
<1>3. \A q \in Refs : g[q] <= f[q]
  OBVIOUS
<1> HIDE DEF f, g
<1>4. SumFunctionOnSet(g, Refs) <= SumFunctionOnSet(f, Refs)
  BY <1>1, <1>2, <1>3, SumMonotone
<1> QED BY <1>1, <1>2, <1>4

LEMMA TakenNone ==
  ASSUME NEW a \in Allocations, NEW l \in Lots, NEW d \in Debits,
         \A q \in Refs : a[d][q][l] = 0
  PROVE  Taken(a, l, d) = 0
<1> DEFINE f == [q \in Refs |-> a[d][q][l]]
<1>1. Taken(a, l, d) = SumFunctionOnSet(f, Refs)
  BY TakenIs
<1>2. \A q \in Refs : f[q] = 0
  OBVIOUS
<1> HIDE DEF f
<1>3. SumFunctionOnSet(f, Refs) = 0
  BY <1>2, SumOfZeros, WalletAssumption
<1> QED BY <1>1, <1>3

\* Steps that write no row.
LEMMA ReadsKeepWallet ==
  ASSUME WalletInv, RefundInv', UNCHANGED <<alloc, entry, refunds, overtaken>>,
         \A l \in Lots : lot'[l] = "unfunded" => lot[l] = "unfunded",
         HoldsAlone', SettlementsSound'
  PROVE  WalletInv'
<1>1. AllocationsBacked'
  BY DEF WalletInv, AllocationsBacked, HoldBacked, AllocatedTo, HeldFor
<1>2. DebitsPriced'
  BY DEF WalletInv, DebitsPriced
<1>3. HoldsFunded'
  BY DEF WalletInv, HoldsFunded
<1>4. LotsCovered'
  BY DEF WalletInv, LotsCovered, Remaining, AllocatedFrom, TakenFrom
<1> QED BY <1>1, <1>2, <1>3, <1>4 DEF WalletInv

\* A step that puts no hold or settlement in the place of a call.
LEMMA CallsKept ==
  ASSUME WalletInv, RefundInv', UNCHANGED <<alloc, entry, refunds, lot, overtaken>>,
         NEW c \in Callers, NEW s, call' = [call EXCEPT ![c] = s],
         s.kind \notin Settling,
         s.kind = "hold" => call[c].kind = "hold" /\ s.ref = call[c].ref
  PROVE  WalletInv'
<1>1. call'[c] = s /\ \A b \in Callers \ {c} : call'[b] = call[b]
  BY DEF WalletInv, RefundInv, TypeOK
<1>2. HoldsAlone'
  <2>1. \A b \in Callers : call'[b].kind = "hold" => call[b].kind = "hold" /\ call'[b].ref = call[b].ref
    BY <1>1
  <2> QED BY <2>1 DEF WalletInv, HoldsAlone
<1>3. SettlementsSound'
  <2>1. \A b \in Callers : call'[b].kind \in Settling => call'[b] = call[b]
    BY <1>1
  <2> QED BY <2>1 DEF WalletInv, SettlementsSound, Current, Refused, AllocatedTo, HeldFor
<1> QED BY <1>2, <1>3, ReadsKeepWallet

LEMMA BeginKeepsWallet ==
  ASSUME WalletInv, RefundInv', NEW c \in Callers,
         NEW d \in {"hold", "usage_debit"}, NEW r \in Refs, Begin(c, d, r)
  PROVE  WalletInv'
<1> DEFINE s == [kind |-> d, ref |-> r, plan |-> <<>>, gone |-> {l \in Lots : lot[l] = "expired"}]
<1>1. /\ entry[d][r] = 0
      /\ call' = [call EXCEPT ![c] = s]
      /\ UNCHANGED <<lot, refunds, fence, alloc, entry, overtaken>>
  BY DEF Begin
<1>2. s.kind = d /\ s.ref = r
  OBVIOUS
<1> HIDE DEF s
<1>3. call'[c] = s /\ \A b \in Callers \ {c} : call'[b] = call[b]
  BY <1>1 DEF WalletInv, RefundInv, TypeOK
<1>4. HoldsAlone'
  <2> SUFFICES ASSUME NEW e \in Callers, call'[e].kind = "hold", call'[e].ref \notin overtaken
               PROVE  entry["hold"][call'[e].ref] = 0
    BY <1>1 DEF HoldsAlone
  <2>1. CASE e = c
    BY <1>1, <1>2, <1>3, <2>1
  <2>2. CASE e # c
    BY <1>3, <2>2 DEF WalletInv, HoldsAlone
  <2> QED BY <2>1, <2>2
<1>5. SettlementsSound'
  <2>1. \A b \in Callers : call'[b].kind \in Settling => call'[b] = call[b]
    BY <1>2, <1>3 DEF Settling
  <2> QED BY <1>1, <2>1 DEF WalletInv, SettlementsSound, Current, Refused, AllocatedTo, HeldFor
<1> QED BY <1>1, <1>4, <1>5, ReadsKeepWallet

LEMMA PlanSettlementKeepsWallet ==
  ASSUME WalletInv, RefundInv', NEW c \in Callers, NEW d \in Settling, NEW r \in Refs,
         NEW amount \in 1..Price[r], PlanSettlement(c, d, r, amount)
  PROVE  WalletInv'
<1> DEFINE s == [kind |-> d, ref |-> r, amount |-> amount, previous |-> alloc["hold"][r],
                 captured |-> AllocatedTo("capture", r)]
<1>1. /\ HeldFor(r) >= amount
      /\ call' = [call EXCEPT ![c] = s]
      /\ UNCHANGED <<lot, refunds, fence, alloc, entry, overtaken>>
  BY DEF PlanSettlement
<1>2. /\ s.kind = d /\ s.ref = r /\ s.amount = amount /\ s.previous = alloc["hold"][r]
      /\ s.captured = AllocatedTo("capture", r)
  OBVIOUS
<1> HIDE DEF s
<1>3. call'[c] = s /\ \A b \in Callers \ {c} : call'[b] = call[b]
  BY <1>1 DEF WalletInv, RefundInv, TypeOK
<1>4. amount > 0 /\ amount <= HeldFor(r)
  <2>1. Price[r] \in Nat /\ HeldFor(r) \in Int
    BY WalletAssumption, HeldForInt DEF WalletInv, RefundInv
  <2>2. amount \in Int /\ amount > 0
    BY <2>1
  <2> QED BY <1>1, <2>1, <2>2
<1>5. s.captured <= s.captured
  <2>1. alloc["capture"][r] \in Planned
    BY DEF WalletInv, RefundInv, TypeOK, Debits
  <2>2. s.captured \in Nat
    BY <1>2, <2>1, SumOfPlan DEF AllocatedTo
  <2> QED BY <2>2
<1>6. HoldsAlone'
  <2>1. \A b \in Callers : call'[b].kind = "hold" => call'[b] = call[b]
    BY <1>2, <1>3 DEF Settling
  <2> QED BY <1>1, <2>1 DEF WalletInv, HoldsAlone
<1>7. SettlementsSound'
  <2> SUFFICES ASSUME NEW b \in Callers, call'[b].kind \in Settling
               PROVE  /\ call'[b].amount > 0
                      /\ call'[b].ref \notin overtaken' =>
                           /\ call'[b].captured <= AllocatedTo("capture", call[b].ref)'
                           /\ Current(call[b])' \/ Refused(call[b])'
    BY DEF SettlementsSound
  <2>1. CASE b = c
    <3>1. /\ HeldFor(call[b].ref)' = HeldFor(r)
          /\ AllocatedTo("capture", call[b].ref)' = AllocatedTo("capture", r)
      BY <1>1, <1>2, <1>3, <2>1 DEF HeldFor, AllocatedTo
    <3>2. Current(call[b])'
      BY <1>1, <1>2, <1>3, <1>4, <2>1, <3>1 DEF Current
    <3> QED BY <1>2, <1>3, <1>4, <1>5, <2>1, <3>1, <3>2
  <2>2. CASE b # c
    BY <1>1, <1>3, <2>2 DEF WalletInv, SettlementsSound, Current, Refused, AllocatedTo, HeldFor
  <2> QED BY <2>1, <2>2
<1> QED BY <1>1, <1>6, <1>7, ReadsKeepWallet

\* Steps of a call that write no row and make no hold or settlement.
LEMMA OthersKeepWallet ==
  ASSUME WalletInv, RefundInv', NEW c \in Callers,
         \/ PlanAllocation(c)
         \/ \E l \in Refundable : FreezeFunding(c, l)
         \/ \E amount \in 1..Consideration[call[c].lot] : PlanRefund(c, amount)
         \/ UnfreezeFunding(c)
         \/ Abandon(c)
  PROVE  WalletInv'
<1>1. CASE PlanAllocation(c)
  <2>1. PICK p : call' = [call EXCEPT ![c] = [call[c] EXCEPT !.plan = p]]
    BY <1>1 DEF PlanAllocation
  <2> DEFINE s == [call[c] EXCEPT !.plan = p]
  <2>2. call[c] \in Calls /\ call[c].kind \in {"hold", "usage_debit"}
    BY <1>1 DEF PlanAllocation, WalletInv, RefundInv, TypeOK
  <2>3. s.kind = call[c].kind /\ s.ref = call[c].ref
    BY <2>2 DEF Calls, Idle
  <2>4. call' = [call EXCEPT ![c] = s] /\ UNCHANGED <<alloc, entry, refunds, lot, overtaken>>
    BY <1>1, <2>1 DEF PlanAllocation
  <2> HIDE DEF s
  <2>5. s.kind \notin Settling
    BY <2>2, <2>3 DEF Settling
  <2> QED BY <2>3, <2>4, <2>5, CallsKept
<1>2. ASSUME NEW l \in Refundable, FreezeFunding(c, l) PROVE WalletInv'
  <2> DEFINE s == [kind |-> "freeze", lot |-> l, generation |-> fence[l].generation + 1]
  <2>1. call' = [call EXCEPT ![c] = s] /\ UNCHANGED <<alloc, entry, refunds, lot, overtaken>>
    BY <1>2 DEF FreezeFunding
  <2>2. s.kind = "freeze" /\ s.kind \notin Settling
    BY DEF Settling
  <2> HIDE DEF s
  <2> QED BY <2>1, <2>2, CallsKept
<1>3. ASSUME NEW amount \in 1..Consideration[call[c].lot], PlanRefund(c, amount) PROVE WalletInv'
  <2> DEFINE l == call[c].lot
             closing == [r \in Refs |-> IF alloc["hold"][r][l] > 0 THEN HeldFor(r) ELSE 0]
             s == [kind |-> "refund", lot |-> l, generation |-> call[c].generation,
                   amount |-> amount, closing |-> closing, before |-> refunds[l].refunded,
                   spent |-> Spent(l), gone |-> lot[l] = "expired"]
  <2>1. call' = [call EXCEPT ![c] = s] /\ UNCHANGED <<alloc, entry, refunds, lot, overtaken>>
    BY <1>3 DEF PlanRefund
  <2>2. s.kind = "refund" /\ s.kind \notin Settling
    BY DEF Settling
  <2> HIDE DEF s
  <2> QED BY <2>1, <2>2, CallsKept
<1>4. CASE UnfreezeFunding(c) \/ Abandon(c)
  <2>1. call' = [call EXCEPT ![c] = Idle] /\ UNCHANGED <<alloc, entry, refunds, lot, overtaken>>
    BY <1>4 DEF UnfreezeFunding, Abandon
  <2>2. Idle.kind = "idle" /\ Idle.kind \notin Settling
    BY IdleCall DEF Settling
  <2> QED BY <2>1, <2>2, CallsKept
<1> QED BY <1>1, <1>2, <1>3, <1>4

LEMMA LotKeepsWallet ==
  ASSUME WalletInv, RefundInv', NEW l \in Lots, Fund(l) \/ Expire(l)
  PROVE  WalletInv'
<1>1. /\ lot' = [lot EXCEPT ![l] = "live"] \/ lot' = [lot EXCEPT ![l] = "expired"]
      /\ UNCHANGED <<fence, refunds, alloc, entry, call, overtaken>>
  BY DEF Fund, Expire
<1>2. \A k \in Lots : lot'[k] = "unfunded" => lot[k] = "unfunded"
  BY <1>1 DEF WalletInv, RefundInv, TypeOK
<1>3. HoldsAlone' /\ SettlementsSound'
  BY <1>1 DEF WalletInv, HoldsAlone, SettlementsSound, Current, Refused, AllocatedTo, HeldFor
<1> QED BY <1>1, <1>2, <1>3, ReadsKeepWallet

LEMMA HoldBackedIs ==
  ASSUME TypeOK, NEW r \in Refs
  PROVE  /\ HoldBacked(r) <=>
              /\ SumFunction(alloc["hold"][r])
                   = entry["hold"][r] - entry["capture"][r] - entry["release"][r]
              /\ SumFunction(alloc["capture"][r]) = entry["capture"][r]
         /\ SumFunction(alloc["hold"][r]) \in Nat /\ SumFunction(alloc["capture"][r]) \in Nat
         /\ entry["hold"][r] \in Nat /\ entry["capture"][r] \in Nat /\ entry["release"][r] \in Nat
<1>1. alloc["hold"][r] \in Planned /\ alloc["capture"][r] \in Planned
  BY DEF TypeOK, Debits
<1>2. SumFunction(alloc["hold"][r]) \in Nat /\ SumFunction(alloc["capture"][r]) \in Nat
  BY <1>1, SumOfPlan
<1> QED BY <1>2, HeldForInt DEF HoldBacked, AllocatedTo, HeldFor

\* What stands in a reference without a hold.
LEMMA NothingHeld ==
  ASSUME WalletInv, NEW r \in Refs, r \notin overtaken, entry["hold"][r] = 0
  PROVE  /\ entry["capture"][r] = 0 /\ entry["release"][r] = 0
         /\ \A c \in Callers : call[c].kind \in Settling => call[c].ref # r
<1>1. TypeOK /\ HoldBacked(r)
  BY DEF WalletInv, RefundInv, AllocationsBacked
<1>2. /\ SumFunction(alloc["hold"][r]) = entry["hold"][r] - entry["capture"][r] - entry["release"][r]
      /\ SumFunction(alloc["capture"][r]) = entry["capture"][r]
      /\ SumFunction(alloc["hold"][r]) \in Nat
      /\ entry["hold"][r] \in Nat /\ entry["capture"][r] \in Nat /\ entry["release"][r] \in Nat
  BY <1>1, HoldBackedIs
<1>3. entry["capture"][r] = 0 /\ entry["release"][r] = 0
  BY <1>2
<1>4. HeldFor(r) = 0 /\ AllocatedTo("capture", r) = 0
  BY <1>2, <1>3 DEF HeldFor, AllocatedTo
<1>5. ASSUME NEW c \in Callers, call[c].kind \in Settling, call[c].ref = r PROVE FALSE
  <2>1. call[c].amount > 0 /\ (Current(call[c]) \/ Refused(call[c]))
    BY <1>5 DEF WalletInv, SettlementsSound
  <2>2. call[c].amount \in Nat /\ call[c].captured \in Nat
    BY <1>5, SettlingCall DEF WalletInv, RefundInv, TypeOK, Settling
  <2>3. CASE Current(call[c])
    BY <1>4, <1>5, <2>1, <2>2, <2>3 DEF Current
  <2>4. CASE Refused(call[c])
    BY <1>3, <1>4, <1>5, <2>2, <2>4 DEF Refused, Settling
  <2> QED BY <2>1, <2>3, <2>4
<1> QED BY <1>3, <1>5

LEMMA CommitAllocationKeepsWallet ==
  ASSUME WalletInv, RefundInv', NEW c \in Callers, CommitAllocation(c)
  PROVE  WalletInv'
<1> DEFINE d == call[c].kind
           r == call[c].ref
           plan == call[c].plan
           gone == call[c].gone
           after == AllocationsAfter(d, r, gone, plan)
           new == IF entry[d][r] = 0 THEN Price[r] ELSE entry[d][r]
<1>1. /\ call[c] \in Calls /\ d \in {"hold", "usage_debit"} /\ plan # <<>>
      /\ SumFunction(after) = Price[r]
      /\ alloc' = [alloc EXCEPT ![d][r] = after]
      /\ entry' = [entry EXCEPT ![d][r] = new]
      /\ call' = [call EXCEPT ![c] = Idle]
      /\ overtaken \subseteq overtaken'
      /\ d = "hold" /\ InFlight("hold", c, r) => r \in overtaken'
      /\ UNCHANGED <<lot, fence, refunds>>
  BY DEF CommitAllocation, AllocationHolds, WalletInv, RefundInv, TypeOK
<1>2. r \in Refs /\ plan \in Planned /\ d \in Debits /\ d \in Entries
  BY <1>1, SpendingCall DEF Debits, Entries
<1>3. ASSUME NEW l \in Lots
      PROVE  \/ after[l] = alloc[d][r][l]
             \/ /\ alloc[d][r][l] = 0 /\ lot[l] # "unfunded"
                /\ Remaining(l) >= plan[l] /\ after[l] = plan[l]
  BY DEF AllocationsAfter, Eligible
<1>4. after \in Planned
  BY <1>2, AllocationsAfterTyped DEF WalletInv, RefundInv
<1>5. alloc \in Allocations /\ alloc' \in Allocations
  BY DEF WalletInv, RefundInv, TypeOK, Allocations
<1>6. d = "hold" /\ r \notin overtaken => entry["hold"][r] = 0
  BY DEF WalletInv, HoldsAlone
<1>7. call'[c] = Idle /\ \A b \in Callers \ {c} : call'[b] = call[b]
  BY <1>1 DEF WalletInv, RefundInv, TypeOK
<1>8. d = "hold" /\ r \notin overtaken => new = Price[r]
  BY <1>6
<1>9. d = "usage_debit" => new = Price[r]
  BY <1>2 DEF WalletInv, DebitsPriced
<1>10. d = "hold" /\ r \notin overtaken' =>
         \A b \in Callers \ {c} : call[b].kind = "hold" => call[b].ref # r
  BY <1>1 DEF InFlight
<1> HIDE DEF d, r, plan, gone, after, new
<1>11. /\ \A e \in Debits, q \in Refs : <<e, q>> # <<d, r>> => alloc'[e][q] = alloc[e][q]
       /\ alloc'[d][r] = after
  BY <1>1, <1>2, <1>5 DEF Allocations
<1>12. /\ \A e \in Entries, q \in Refs : <<e, q>> # <<d, r>> => entry'[e][q] = entry[e][q]
       /\ d = "usage_debit" \/ r \notin overtaken => entry'[d][r] = Price[r]
  BY <1>1, <1>2, <1>8, <1>9 DEF WalletInv, RefundInv, TypeOK
<1>13. d = "hold" /\ r \notin overtaken =>
         /\ entry["capture"][r] = 0 /\ entry["release"][r] = 0
         /\ \A b \in Callers : call[b].kind \in Settling => call[b].ref # r
  BY <1>2, <1>6, NothingHeld
<1>14. HoldsAlone'
  <2> SUFFICES ASSUME NEW e \in Callers, call'[e].kind = "hold", call'[e].ref \notin overtaken'
               PROVE  entry'["hold"][call'[e].ref] = 0
    BY DEF HoldsAlone
  <2>1. e # c /\ call'[e] = call[e]
    BY <1>7, IdleCall
  <2>2. call[e].ref \in Refs
    BY <2>1, SpendingCall DEF WalletInv, RefundInv, TypeOK
  <2>3. entry["hold"][call[e].ref] = 0
    BY <1>1, <2>1 DEF WalletInv, HoldsAlone
  <2>4. <<"hold", call[e].ref>> # <<d, r>>
    BY <1>10, <2>1
  <2>5. entry'["hold"][call[e].ref] = 0
    BY <1>12, <2>2, <2>3, <2>4 DEF Entries, Debits
  <2> QED BY <2>1, <2>5
<1>15. SettlementsSound'
  <2> SUFFICES ASSUME NEW b \in Callers, call'[b].kind \in Settling
               PROVE  /\ call'[b].amount > 0
                      /\ call'[b].ref \notin overtaken' =>
                           /\ call'[b].captured <= AllocatedTo("capture", call[b].ref)'
                           /\ Current(call[b])' \/ Refused(call[b])'
    BY DEF SettlementsSound
  <2>1. call'[b] = call[b]
    BY <1>7, IdleCall DEF Settling
  <2> DEFINE q == call[b].ref
  <2>2. q \in Refs
    BY <2>1, SettlingCall DEF WalletInv, RefundInv, TypeOK, Settling
  <2>3. q \notin overtaken' => \A e \in {"hold", "capture", "release"} : <<e, q>> # <<d, r>>
    BY <1>1, <1>13, <2>1
  <2>4. q \notin overtaken' =>
          alloc'["hold"][q] = alloc["hold"][q] /\ alloc'["capture"][q] = alloc["capture"][q]
    BY <1>11, <2>2, <2>3 DEF Debits
  <2>5. q \notin overtaken' =>
          /\ entry'["hold"][q] = entry["hold"][q] /\ entry'["capture"][q] = entry["capture"][q]
          /\ entry'["release"][q] = entry["release"][q]
    BY <1>12, <2>2, <2>3 DEF Debits, Entries
  <2>6. q \notin overtaken' =>
          /\ HeldFor(call[b].ref)' = HeldFor(call[b].ref)
          /\ AllocatedTo("capture", call[b].ref)' = AllocatedTo("capture", call[b].ref)
    BY <2>1, <2>4, <2>5 DEF HeldFor, AllocatedTo
  <2>7. /\ call[b].amount > 0
        /\ q \notin overtaken' => /\ call[b].captured <= AllocatedTo("capture", call[b].ref)
                                  /\ Current(call[b]) \/ Refused(call[b])
    BY <1>1, <2>1 DEF WalletInv, SettlementsSound
  <2>8. q \notin overtaken' /\ Current(call[b]) => Current(call[b])'
    BY <2>1, <2>4, <2>6 DEF Current
  <2>9. q \notin overtaken' /\ Refused(call[b]) => Refused(call[b])'
    BY <2>1, <2>5, <2>6 DEF Refused, Settling
  <2> QED BY <2>1, <2>6, <2>7, <2>8, <2>9
<1>16. AllocationsBacked'
  <2> SUFFICES ASSUME NEW q \in Refs
               PROVE  /\ SumFunction(alloc'["usage_debit"][q]) = entry'["usage_debit"][q]
                      /\ q \notin overtaken' => HoldBacked(q)'
    BY DEF AllocationsBacked, AllocatedTo
  <2>1. /\ SumFunction(alloc["usage_debit"][q]) = entry["usage_debit"][q]
        /\ q \notin overtaken' => HoldBacked(q)
    BY <1>1 DEF WalletInv, AllocationsBacked, AllocatedTo
  <2>2. \A e \in Debits : <<e, q>> # <<d, r>> => alloc'[e][q] = alloc[e][q]
    BY <1>11
  <2>3. \A e \in Entries : <<e, q>> # <<d, r>> => entry'[e][q] = entry[e][q]
    BY <1>12
  <2>4. CASE q # r
    <3>1. /\ \A e \in Debits : alloc'[e][q] = alloc[e][q]
          /\ \A e \in Entries : entry'[e][q] = entry[e][q]
      BY <2>2, <2>3, <2>4
    <3> QED BY <2>1, <3>1 DEF HoldBacked, AllocatedTo, HeldFor, Debits, Entries
  <2>5. CASE q = r /\ d = "usage_debit"
    <3>1. SumFunction(alloc'["usage_debit"][q]) = entry'["usage_debit"][q]
      BY <1>1, <1>11, <1>12, <2>5
    <3>2. /\ alloc'["hold"][q] = alloc["hold"][q] /\ alloc'["capture"][q] = alloc["capture"][q]
          /\ entry'["hold"][q] = entry["hold"][q] /\ entry'["capture"][q] = entry["capture"][q]
          /\ entry'["release"][q] = entry["release"][q]
      BY <2>2, <2>3, <2>5 DEF Debits, Entries
    <3> QED BY <2>1, <3>1, <3>2 DEF HoldBacked, AllocatedTo, HeldFor
  <2>6. CASE q = r /\ d = "hold"
    <3>1. SumFunction(alloc'["usage_debit"][q]) = entry'["usage_debit"][q]
      BY <2>1, <2>2, <2>3, <2>6 DEF Debits, Entries
    <3>2. ASSUME q \notin overtaken' PROVE HoldBacked(q)'
      <4>1. r \notin overtaken
        BY <1>1, <2>6, <3>2
      <4>2. SumFunction(alloc'["hold"][q]) = Price[r] /\ entry'["hold"][q] = Price[r]
        BY <1>1, <1>11, <1>12, <2>6, <4>1
      <4>3. entry'["capture"][q] = 0 /\ entry'["release"][q] = 0
        BY <1>13, <2>3, <2>6, <4>1 DEF Debits, Entries
      <4>4. SumFunction(alloc'["capture"][q]) = 0
        BY <1>13, <2>1, <2>2, <2>6, <3>2, <4>1 DEF HoldBacked, AllocatedTo, Debits
      <4>5. Price[r] \in Nat
        BY <1>2, WalletAssumption
      <4> QED BY <4>2, <4>3, <4>4, <4>5 DEF HoldBacked, AllocatedTo, HeldFor
    <3> QED BY <3>1, <3>2
  <2> QED BY <1>1, <2>4, <2>5, <2>6
<1>17. DebitsPriced'
  <2> SUFFICES ASSUME NEW q \in Refs PROVE entry'["usage_debit"][q] \in {0, Price[q]}
    BY DEF DebitsPriced
  <2>1. CASE <<"usage_debit", q>> = <<d, r>>
    BY <1>12, <2>1
  <2>2. CASE <<"usage_debit", q>> # <<d, r>>
    BY <1>12, <2>2 DEF WalletInv, DebitsPriced, Entries, Debits
  <2> QED BY <2>1, <2>2
<1>18. HoldsFunded'
  <2> SUFFICES ASSUME NEW l \in Lots, lot'[l] = "unfunded", NEW q \in Refs
               PROVE  alloc'["hold"][q][l] = 0
    BY DEF HoldsFunded
  <2>1. lot[l] = "unfunded" /\ alloc["hold"][q][l] = 0
    BY <1>1 DEF WalletInv, HoldsFunded
  <2>2. CASE <<"hold", q>> # <<d, r>>
    BY <1>11, <2>1, <2>2 DEF Debits
  <2>3. CASE <<"hold", q>> = <<d, r>>
    BY <1>3, <1>11, <2>1, <2>3
  <2> QED BY <2>2, <2>3
<1>19. ASSUME NEW l \in Lots, Remaining(l) >= 0 PROVE Remaining(l)' >= 0
  <2>1. TypeOK /\ TypeOK' /\ Remaining(l) >= 0
    BY <1>19 DEF WalletInv, RefundInv
  <2> DEFINE T(a) == Taken(a, l, "hold") + Taken(a, l, "capture") + Taken(a, l, "usage_debit")
             x == after[l] - alloc[d][r][l]
  <2>2. /\ Remaining(l) = LotAmount[l] - T(alloc) - refunds[l].debit
        /\ Remaining(l) \in Int
    BY <2>1, RemainingIs
  <2>3. Remaining(l)' = LotAmount[l] - T(alloc') - refunds'[l].debit
    BY <2>1, RemainingIsNext
  <2>4. Taken(alloc', l, d) = Taken(alloc, l, d) + x
    <3>1. \A q \in Refs \ {r} : alloc'[d][q][l] = alloc[d][q][l]
      BY <1>2, <1>11
    <3>2. Taken(alloc', l, d) = Taken(alloc, l, d) + (alloc'[d][r][l] - alloc[d][r][l])
      BY <1>2, <1>5, <3>1, TakenUpdate
    <3> QED BY <1>11, <3>2
  <2>5. ASSUME NEW e \in Debits, e # d PROVE Taken(alloc', l, e) = Taken(alloc, l, e)
    <3>1. \A q \in Refs : alloc'[e][q][l] = alloc[e][q][l]
      BY <1>11, <2>5
    <3> QED BY <1>5, <3>1, TakenSame
  <2>6. \A e \in Debits : Taken(alloc, l, e) \in Nat
    BY <1>5, TakenNat
  <2>7. after[l] \in Nat /\ alloc[d][r][l] \in Nat /\ plan[l] \in Nat
    BY <1>2, <1>4, <1>5 DEF Planned, Allocations
  <2>8. T(alloc') = T(alloc) + x
    <3>1. CASE d = "hold"
      <4>1. /\ Taken(alloc', l, "hold") = Taken(alloc, l, "hold") + x
            /\ Taken(alloc', l, "capture") = Taken(alloc, l, "capture")
            /\ Taken(alloc', l, "usage_debit") = Taken(alloc, l, "usage_debit")
        BY <2>4, <2>5, <3>1 DEF Debits
      <4>2. Taken(alloc, l, "hold") \in Nat /\ Taken(alloc, l, "capture") \in Nat
            /\ Taken(alloc, l, "usage_debit") \in Nat /\ x \in Int
        BY <2>6, <2>7 DEF Debits
      <4> HIDE DEF x
      <4> QED BY <4>1, <4>2
    <3>2. CASE d = "usage_debit"
      <4>1. /\ Taken(alloc', l, "hold") = Taken(alloc, l, "hold")
            /\ Taken(alloc', l, "capture") = Taken(alloc, l, "capture")
            /\ Taken(alloc', l, "usage_debit") = Taken(alloc, l, "usage_debit") + x
        BY <2>4, <2>5, <3>2 DEF Debits
      <4>2. Taken(alloc, l, "hold") \in Nat /\ Taken(alloc, l, "capture") \in Nat
            /\ Taken(alloc, l, "usage_debit") \in Nat /\ x \in Int
        BY <2>6, <2>7 DEF Debits
      <4> HIDE DEF x
      <4> QED BY <4>1, <4>2
    <3> QED BY <1>1, <3>1, <3>2
  <2>9. T(alloc) \in Int /\ LotAmount[l] \in Int /\ refunds[l].debit \in Int /\ refunds' = refunds
    <3>1. T(alloc) \in Nat
      BY <2>6 DEF Debits
    <3>2. LotAmount[l] \in Nat /\ refunds[l].debit \in Nat
      BY <2>1, WalletAssumption DEF TypeOK
    <3> HIDE DEF T
    <3> QED BY <1>1, <3>1, <3>2
  <2> HIDE DEF T
  <2>10. x \in Int /\ x <= Remaining(l)
    BY <1>3, <2>1, <2>2, <2>7
  <2> HIDE DEF x
  <2> QED BY <2>2, <2>3, <2>8, <2>9, <2>10
<1>20. ASSUME NEW l \in Lots, Blamed(l) PROVE Blamed(l)'
  <2>1. \A q \in Refs : alloc'["capture"][q] = alloc["capture"][q]
    BY <1>1, <1>11 DEF Debits
  <2> QED BY <1>1, <1>20, <2>1 DEF Blamed, WalletInv, RefundInv, TypeOK
<1>21. LotsCovered'
  BY <1>19, <1>20 DEF LotsCovered, Blamed, WalletInv
<1> QED BY <1>14, <1>15, <1>16, <1>17, <1>18, <1>21 DEF WalletInv

LEMMA CommitSettlementKeepsWallet ==
  ASSUME WalletInv, RefundInv', NEW c \in Callers, CommitSettlement(c)
  PROVE  WalletInv'
<1> DEFINE s == call[c]
           r == s.ref
           moved == Take(s.amount, s.previous)
           hold == HoldAfter(r, s.previous, moved)
           more == [l \in Lots |-> alloc["capture"][r][l] + moved[l]]
           capture == IF s.kind = "capture" THEN more ELSE alloc["capture"][r]
<1>1. /\ s \in Calls /\ s.kind \in Settling
      /\ SumFunction(hold) = SumFunction(s.previous) - s.amount
      /\ entry[s.kind][r] = 0
      /\ AllocatedTo("capture", r) = s.captured
      /\ alloc' = [alloc EXCEPT !["hold"][r] = hold, !["capture"][r] = capture]
      /\ entry' = [entry EXCEPT ![s.kind][r] = s.amount]
      /\ call' = [call EXCEPT ![c] = Idle]
      /\ overtaken \subseteq overtaken'
      /\ s.kind = "release" /\ InFlight("capture", c, r) => r \in overtaken'
      /\ UNCHANGED <<lot, fence, refunds>>
  BY DEF CommitSettlement, SettlementHolds, Settling, WalletInv, RefundInv, TypeOK
<1>2. r \in Refs /\ s.amount \in Nat /\ s.previous \in Planned /\ s.captured \in Nat
  BY <1>1, SettlingCall DEF Settling
<1>3. s.amount > 0 /\ (r \notin overtaken => s.previous = alloc["hold"][r])
  <2>1. s.amount > 0 /\ (r \notin overtaken => Current(s) \/ Refused(s))
    BY <1>1 DEF WalletInv, SettlementsSound
  <2>2. ~Refused(s)
    BY <1>1, <1>2 DEF Refused
  <2> QED BY <2>1, <2>2 DEF Current
<1>4. /\ moved \in Planned /\ hold \in Planned
      /\ \A l \in Lots : moved[l] <= s.previous[l]
      /\ \A l \in Lots : hold[l] <= alloc["hold"][r][l]
  BY <1>2, MovedBounds DEF WalletInv, RefundInv
<1>5. alloc \in Allocations /\ alloc' \in Allocations
  BY DEF WalletInv, RefundInv, TypeOK, Allocations
<1>6. r \notin overtaken => \A l \in Lots : hold[l] = alloc["hold"][r][l] - moved[l]
  BY <1>3 DEF HoldAfter
<1>7. more \in Planned /\ \A l \in Lots : more[l] = alloc["capture"][r][l] + moved[l]
  <2>1. alloc["capture"][r] \in Planned
    BY <1>2, <1>5 DEF Allocations, Debits
  <2> HIDE DEF moved, s
  <2> QED BY <1>4, <2>1 DEF Planned
<1>8. call'[c] = Idle /\ \A b \in Callers \ {c} : call'[b] = call[b]
  BY <1>1 DEF WalletInv, RefundInv, TypeOK
<1> DEFINE kind == s.kind
           amount == s.amount
<1>9. /\ kind \in Settling /\ amount \in Nat /\ amount > 0 /\ entry[kind][r] = 0
      /\ entry' = [entry EXCEPT ![kind][r] = amount]
      /\ capture = IF kind = "capture" THEN more ELSE alloc["capture"][r]
      /\ kind = "release" /\ InFlight("capture", c, r) => r \in overtaken'
  BY <1>1, <1>2, <1>3
<1>10. r \notin overtaken => SumFunction(hold) = SumFunction(alloc["hold"][r]) - amount
  BY <1>1, <1>3
<1>11. \A l \in Lots : moved[l] \in Nat /\ (r \notin overtaken => moved[l] <= alloc["hold"][r][l])
  BY <1>3, <1>4 DEF Planned
<1> HIDE DEF s, r, moved, hold, more, capture, kind, amount
<1>12. /\ \A e \in Debits, q \in Refs : (q # r \/ e = "usage_debit") => alloc'[e][q] = alloc[e][q]
       /\ alloc'["hold"][r] = hold
       /\ alloc'["capture"][r] = capture
  BY <1>1, <1>2, <1>5 DEF Allocations, Debits
<1>13. /\ \A e \in Entries, q \in Refs : <<e, q>> # <<kind, r>> => entry'[e][q] = entry[e][q]
       /\ entry'[kind][r] = amount
  BY <1>2, <1>9 DEF WalletInv, RefundInv, TypeOK, Entries, Settling, Debits
<1>14. HoldsAlone'
  <2> SUFFICES ASSUME NEW b \in Callers, call'[b].kind = "hold", call'[b].ref \notin overtaken'
               PROVE  entry'["hold"][call'[b].ref] = 0
    BY DEF HoldsAlone
  <2>1. call'[b] = call[b]
    BY <1>8, IdleCall
  <2>2. call[b].ref \in Refs
    BY <2>1, SpendingCall DEF WalletInv, RefundInv, TypeOK
  <2>3. entry'["hold"][call[b].ref] = entry["hold"][call[b].ref]
    BY <1>9, <1>13, <2>2 DEF Settling, Entries, Debits
  <2> QED BY <1>1, <2>1, <2>3 DEF WalletInv, HoldsAlone
<1>15. ASSUME r \notin overtaken
       PROVE  /\ SumFunction(alloc["hold"][r])
                   = entry["hold"][r] - entry["capture"][r] - entry["release"][r]
              /\ SumFunction(alloc["capture"][r]) = entry["capture"][r]
              /\ entry["hold"][r] \in Nat /\ entry["capture"][r] \in Nat /\ entry["release"][r] \in Nat
  BY <1>2, <1>15, HoldBackedIs DEF WalletInv, RefundInv, AllocationsBacked
<1>16. ASSUME r \notin overtaken
       PROVE  /\ SumFunction(more) = SumFunction(alloc["capture"][r]) + amount
              /\ SumFunction(alloc["capture"][r]) \in Nat
  <2> DEFINE p == alloc["hold"][r]
             k == alloc["capture"][r]
  <2>1. p \in Planned /\ k \in Planned
    BY <1>2, <1>5 DEF Allocations, Debits
  <2>2. (\A l \in Lots : p[l] = hold[l] + moved[l]) /\ (\A l \in Lots : more[l] = k[l] + moved[l])
    <3>1. \A l \in Lots : p[l] \in Nat /\ moved[l] \in Nat
      BY <1>4, <2>1 DEF Planned
    <3>2. \A l \in Lots : hold[l] = p[l] - moved[l] /\ more[l] = k[l] + moved[l]
      BY <1>6, <1>7, <1>16
    <3> HIDE DEF p, k
    <3> QED BY <3>1, <3>2
  <2> HIDE DEF p, k
  <2>3. Summable(hold, Lots) /\ Summable(moved, Lots) /\ Summable(k, Lots)
    BY <1>4, <2>1, SumOfPlan
  <2>4. SumFunctionOnSet(p, Lots) = SumFunctionOnSet(hold, Lots) + SumFunctionOnSet(moved, Lots)
    BY <2>2, <2>3, SumAdds
  <2>5. SumFunctionOnSet(more, Lots) = SumFunctionOnSet(k, Lots) + SumFunctionOnSet(moved, Lots)
    BY <2>2, <2>3, SumAdds
  <2>6. SumFunction(p) = SumFunction(hold) + SumFunction(moved)
        /\ SumFunction(more) = SumFunction(k) + SumFunction(moved)
    BY <1>4, <1>7, <2>1, <2>4, <2>5, SumOfPlan
  <2>7. /\ SumFunction(p) \in Nat /\ SumFunction(hold) \in Nat /\ SumFunction(moved) \in Nat
        /\ SumFunction(k) \in Nat
    BY <1>4, <2>1, SumOfPlan
  <2>8. SumFunction(hold) = SumFunction(p) - amount
    BY <1>10, <1>16 DEF p
  <2>9. SumFunction(moved) = amount
    BY <1>9, <2>6, <2>7, <2>8
  <2> QED BY <2>6, <2>7, <2>9 DEF k
<1>17. SettlementsSound'
  <2> SUFFICES ASSUME NEW b \in Callers, call'[b].kind \in Settling
               PROVE  /\ call'[b].amount > 0
                      /\ call'[b].ref \notin overtaken' =>
                           /\ call'[b].captured <= AllocatedTo("capture", call[b].ref)'
                           /\ Current(call[b])' \/ Refused(call[b])'
    BY DEF SettlementsSound
  <2>1. call'[b] = call[b] /\ b # c
    BY <1>8, IdleCall DEF Settling
  <2> DEFINE e == call[b]
             q == e.ref
  <2>2. q \in Refs /\ e.captured \in Nat
    BY <2>1, SettlingCall DEF WalletInv, RefundInv, TypeOK, Settling
  <2>3. /\ e.amount > 0
        /\ q \notin overtaken' => /\ e.captured <= AllocatedTo("capture", q)
                                  /\ Current(e) \/ Refused(e)
    BY <1>1, <2>1 DEF WalletInv, SettlementsSound
  <2>4. CASE q # r
    <3>1. alloc'["hold"][q] = alloc["hold"][q] /\ alloc'["capture"][q] = alloc["capture"][q]
      BY <1>12, <2>2, <2>4 DEF Debits
    <3>2. /\ entry'["hold"][q] = entry["hold"][q] /\ entry'["capture"][q] = entry["capture"][q]
          /\ entry'["release"][q] = entry["release"][q]
      BY <1>13, <2>2, <2>4 DEF Debits, Entries
    <3>3. /\ HeldFor(call[b].ref)' = HeldFor(call[b].ref)
          /\ AllocatedTo("capture", call[b].ref)' = AllocatedTo("capture", call[b].ref)
      BY <2>1, <3>1, <3>2 DEF HeldFor, AllocatedTo
    <3>4. Current(call[b]) => Current(call[b])'
      BY <2>1, <3>1, <3>3 DEF Current
    <3>5. Refused(call[b]) => Refused(call[b])'
      BY <2>1, <3>2, <3>3 DEF Refused, Settling
    <3> QED BY <2>1, <2>3, <3>3, <3>4, <3>5
  <2>5. CASE q = r /\ r \notin overtaken'
    <3>1. r \notin overtaken
      BY <1>1, <2>5
    <3>2. kind = "release" => e.kind # "capture"
      BY <1>9, <2>1, <2>5 DEF InFlight
    <3>3. e.captured <= AllocatedTo("capture", q)
      BY <2>3, <2>5
    <3>4. CASE e.kind = kind
      <4>1. entry'[e.kind][q] # 0
        BY <1>9, <1>13, <2>5, <3>4
      <4>2. Refused(call[b])'
        BY <2>1, <4>1 DEF Refused
      <4>3. AllocatedTo("capture", call[b].ref)' \in Nat
            /\ AllocatedTo("capture", q) <= AllocatedTo("capture", call[b].ref)'
        <5>1. AllocatedTo("capture", call[b].ref)' = SumFunction(capture)
          BY <1>12, <2>1, <2>5 DEF AllocatedTo
        <5>2. SumFunction(capture) \in {SumFunction(alloc["capture"][r]), SumFunction(more)}
          BY <1>9
        <5>3. AllocatedTo("capture", q) = SumFunction(alloc["capture"][r])
          BY <2>5 DEF AllocatedTo
        <5> QED BY <1>9, <1>16, <3>1, <5>1, <5>2, <5>3
      <4>4. AllocatedTo("capture", q) \in Nat
        BY <1>16, <2>5, <3>1 DEF AllocatedTo
      <4>5. e.captured <= AllocatedTo("capture", call[b].ref)'
        <5> DEFINE y == AllocatedTo("capture", q)
                   y2 == AllocatedTo("capture", call[b].ref)'
        <5>1. e.captured <= y /\ y <= y2 /\ y \in Nat /\ y2 \in Nat
          BY <3>3, <4>3, <4>4
        <5> HIDE DEF y, y2, e
        <5>2. e.captured <= y2
          BY <2>2, <5>1
        <5> QED BY <5>2 DEF y2
      <4> QED BY <2>1, <2>3, <4>2, <4>5
    <3>5. CASE kind = "capture" /\ e.kind = "release"
      <4>1. AllocatedTo("capture", call[b].ref)' = AllocatedTo("capture", q) + amount
            /\ AllocatedTo("capture", q) \in Nat
        BY <1>9, <1>12, <1>16, <2>1, <2>5, <3>1, <3>5 DEF AllocatedTo
      <4>2. e.captured < AllocatedTo("capture", call[b].ref)'
            /\ e.captured <= AllocatedTo("capture", call[b].ref)'
        <5> DEFINE y == AllocatedTo("capture", q)
                   y2 == AllocatedTo("capture", call[b].ref)'
        <5>1. e.captured <= y /\ y2 = y + amount /\ y \in Nat
          BY <3>3, <4>1
        <5> HIDE DEF y, y2, e
        <5>2. e.captured < y2 /\ e.captured <= y2
          BY <1>9, <2>2, <5>1
        <5> QED BY <5>2 DEF y2
      <4>3. Refused(call[b])'
        BY <2>1, <3>5, <4>2 DEF Refused
      <4> QED BY <2>1, <2>3, <4>2, <4>3
    <3>6. kind \in Settling /\ e.kind \in Settling
      BY <1>9, <2>1
    <3> QED BY <3>2, <3>4, <3>5, <3>6 DEF Settling
  <2>6. CASE q = r /\ r \in overtaken'
    BY <2>1, <2>3, <2>6
  <2> QED BY <2>4, <2>5, <2>6
<1>18. AllocationsBacked'
  <2> SUFFICES ASSUME NEW q \in Refs
               PROVE  /\ SumFunction(alloc'["usage_debit"][q]) = entry'["usage_debit"][q]
                      /\ q \notin overtaken' => HoldBacked(q)'
    BY DEF AllocationsBacked, AllocatedTo
  <2>1. /\ SumFunction(alloc["usage_debit"][q]) = entry["usage_debit"][q]
        /\ q \notin overtaken' => HoldBacked(q)
    BY <1>1 DEF WalletInv, AllocationsBacked, AllocatedTo
  <2>2. SumFunction(alloc'["usage_debit"][q]) = entry'["usage_debit"][q]
    BY <1>9, <1>12, <1>13, <2>1 DEF Debits, Entries, Settling
  <2>3. CASE q # r
    <3>1. /\ \A e \in Debits : alloc'[e][q] = alloc[e][q]
          /\ \A e \in Entries : entry'[e][q] = entry[e][q]
      BY <1>12, <1>13, <2>3
    <3> QED BY <2>1, <2>2, <3>1 DEF HoldBacked, AllocatedTo, HeldFor, Debits, Entries
  <2>4. ASSUME q = r, q \notin overtaken', kind = "capture" PROVE HoldBacked(q)'
    <3>0. r \notin overtaken
      BY <1>1, <2>4
    <3>1. /\ entry'["hold"][r] = entry["hold"][r] /\ entry'["capture"][r] = amount
          /\ entry'["release"][r] = entry["release"][r] /\ entry["capture"][r] = 0
      BY <1>2, <1>9, <1>13, <2>4 DEF Debits, Entries
    <3>2. SumFunction(alloc'["hold"][r]) = SumFunction(alloc["hold"][r]) - amount
          /\ SumFunction(alloc'["capture"][r]) = SumFunction(alloc["capture"][r]) + amount
      BY <1>9, <1>10, <1>12, <1>16, <2>4, <3>0
    <3>3. /\ SumFunction(alloc'["hold"][r])
               = entry'["hold"][r] - entry'["capture"][r] - entry'["release"][r]
          /\ SumFunction(alloc'["capture"][r]) = entry'["capture"][r]
      BY <1>9, <1>15, <3>0, <3>1, <3>2
    <3> QED BY <2>4, <3>3 DEF HoldBacked, AllocatedTo, HeldFor
  <2>5. ASSUME q = r, q \notin overtaken', kind = "release" PROVE HoldBacked(q)'
    <3>0. r \notin overtaken
      BY <1>1, <2>5
    <3>1. /\ entry'["hold"][r] = entry["hold"][r] /\ entry'["release"][r] = amount
          /\ entry'["capture"][r] = entry["capture"][r] /\ entry["release"][r] = 0
      BY <1>2, <1>9, <1>13, <2>5 DEF Debits, Entries
    <3>2. SumFunction(alloc'["hold"][r]) = SumFunction(alloc["hold"][r]) - amount
          /\ alloc'["capture"][r] = alloc["capture"][r]
      BY <1>9, <1>10, <1>12, <2>5, <3>0
    <3>3. /\ SumFunction(alloc'["hold"][r])
               = entry'["hold"][r] - entry'["capture"][r] - entry'["release"][r]
          /\ SumFunction(alloc'["capture"][r]) = entry'["capture"][r]
      BY <1>9, <1>15, <3>0, <3>1, <3>2
    <3> QED BY <2>5, <3>3 DEF HoldBacked, AllocatedTo, HeldFor
  <2> QED BY <1>9, <2>2, <2>3, <2>4, <2>5 DEF Settling
<1>19. DebitsPriced'
  BY <1>9, <1>13 DEF WalletInv, DebitsPriced, Settling, Entries, Debits
<1>20. HoldsFunded'
  <2> SUFFICES ASSUME NEW l \in Lots, lot'[l] = "unfunded", NEW q \in Refs
               PROVE  alloc'["hold"][q][l] = 0
    BY DEF HoldsFunded
  <2>1. lot[l] = "unfunded" /\ alloc["hold"][q][l] = 0 /\ alloc["hold"][r][l] = 0
    BY <1>1, <1>2 DEF WalletInv, HoldsFunded
  <2>2. hold[l] = 0
    BY <1>4, <2>1 DEF Planned
  <2> QED BY <1>12, <2>1, <2>2 DEF Debits
<1>21. \A l \in Lots : /\ alloc["capture"][r][l] \in Nat /\ capture[l] \in Nat
                       /\ alloc["capture"][r][l] <= capture[l]
  <2> SUFFICES ASSUME NEW l \in Lots
               PROVE  /\ alloc["capture"][r][l] \in Nat /\ capture[l] \in Nat
                      /\ alloc["capture"][r][l] <= capture[l]
    OBVIOUS
  <2>1. alloc["capture"][r][l] \in Nat /\ moved[l] \in Nat
    BY <1>2, <1>5, <1>11 DEF Allocations, Planned, Debits
  <2>2. capture[l] = alloc["capture"][r][l] + moved[l] \/ capture[l] = alloc["capture"][r][l]
    BY <1>7, <1>9
  <2> QED BY <2>1, <2>2
<1>22. ASSUME NEW l \in Lots, Blamed(l) PROVE Blamed(l)'
  <2>1. PICK q \in overtaken : alloc["capture"][q][l] > 0
    BY <1>22 DEF Blamed
  <2>2. q \in Refs /\ q \in overtaken'
    BY <1>1 DEF WalletInv, RefundInv, TypeOK
  <2>3. alloc'["capture"][q][l] > 0
    <3>1. CASE q = r
      BY <1>12, <1>21, <2>1, <3>1
    <3>2. CASE q # r
      BY <1>12, <2>1, <2>2, <3>2 DEF Debits
    <3> QED BY <3>1, <3>2
  <2> QED BY <2>2, <2>3 DEF Blamed
<1>23. ASSUME NEW l \in Lots, r \in overtaken, capture[l] > 0 PROVE Blamed(l)'
  <2>1. r \in overtaken' /\ alloc'["capture"][r][l] > 0
    BY <1>1, <1>12, <1>23
  <2> QED BY <2>1 DEF Blamed
<1>24. ASSUME NEW l \in Lots, Remaining(l) >= 0, r \notin overtaken \/ ~(capture[l] > 0)
       PROVE  Remaining(l)' >= 0
  <2>1. TypeOK /\ TypeOK' /\ Remaining(l) >= 0
    BY <1>24 DEF WalletInv, RefundInv
  <2> DEFINE T(a) == Taken(a, l, "hold") + Taken(a, l, "capture") + Taken(a, l, "usage_debit")
  <2>2. Remaining(l) = LotAmount[l] - T(alloc) - refunds[l].debit
    BY <2>1, RemainingIs
  <2>3. Remaining(l)' = LotAmount[l] - T(alloc') - refunds'[l].debit
    BY <2>1, RemainingIsNext
  <2>4. Taken(alloc', l, "hold") = Taken(alloc, l, "hold") + (hold[l] - alloc["hold"][r][l])
    <3>1. \A q \in Refs \ {r} : alloc'["hold"][q][l] = alloc["hold"][q][l]
      BY <1>12 DEF Debits
    <3>2. "hold" \in Debits
      BY DEF Debits
    <3>3. Taken(alloc', l, "hold")
            = Taken(alloc, l, "hold") + (alloc'["hold"][r][l] - alloc["hold"][r][l])
      BY <1>2, <1>5, <3>1, <3>2, TakenUpdate
    <3> QED BY <1>12, <3>3
  <2>5. Taken(alloc', l, "capture")
          = Taken(alloc, l, "capture") + (capture[l] - alloc["capture"][r][l])
    <3>1. \A q \in Refs \ {r} : alloc'["capture"][q][l] = alloc["capture"][q][l]
      BY <1>12 DEF Debits
    <3>2. "capture" \in Debits
      BY DEF Debits
    <3>3. Taken(alloc', l, "capture")
            = Taken(alloc, l, "capture") + (alloc'["capture"][r][l] - alloc["capture"][r][l])
      BY <1>2, <1>5, <3>1, <3>2, TakenUpdate
    <3> QED BY <1>12, <3>3
  <2>6. Taken(alloc', l, "usage_debit") = Taken(alloc, l, "usage_debit")
    <3>1. \A q \in Refs : alloc'["usage_debit"][q][l] = alloc["usage_debit"][q][l]
      BY <1>12 DEF Debits
    <3>2. "usage_debit" \in Debits
      BY DEF Debits
    <3> QED BY <1>5, <3>1, <3>2, TakenSame
  <2>7. /\ Taken(alloc, l, "hold") \in Nat /\ Taken(alloc, l, "capture") \in Nat
        /\ Taken(alloc, l, "usage_debit") \in Nat
    BY <1>5, TakenNat DEF Debits
  <2>8. /\ moved[l] \in Nat /\ alloc["hold"][r][l] \in Nat /\ alloc["capture"][r][l] \in Nat
        /\ LotAmount[l] \in Nat /\ refunds[l].debit \in Nat /\ refunds' = refunds
    BY <1>1, <1>2, <1>5, <1>11, <2>1, WalletAssumption DEF Allocations, Planned, Debits, TypeOK
  <2>9. /\ hold[l] \in Nat /\ hold[l] <= alloc["hold"][r][l]
        /\ capture[l] \in Nat /\ alloc["capture"][r][l] <= capture[l]
        /\ r \notin overtaken => hold[l] = alloc["hold"][r][l] - moved[l]
        /\ capture[l] = alloc["capture"][r][l] + moved[l] \/ capture[l] = alloc["capture"][r][l]
    BY <1>4, <1>6, <1>7, <1>9, <1>21 DEF Planned
  <2>10. (hold[l] - alloc["hold"][r][l]) + (capture[l] - alloc["capture"][r][l]) <= 0
    <3>1. CASE r \notin overtaken
      BY <2>8, <2>9, <3>1
    <3>2. CASE ~(capture[l] > 0)
      BY <2>8, <2>9, <3>2
    <3> QED BY <1>24, <3>1, <3>2
  <2>11. T(alloc') <= T(alloc) /\ T(alloc') \in Int /\ T(alloc) \in Int
    BY <2>4, <2>5, <2>6, <2>7, <2>8, <2>9, <2>10
  <2> HIDE DEF T
  <2> QED BY <2>1, <2>2, <2>3, <2>8, <2>11
<1>25. LotsCovered'
  BY <1>22, <1>23, <1>24 DEF LotsCovered, Blamed, WalletInv
<1> QED BY <1>14, <1>17, <1>18, <1>19, <1>20, <1>25 DEF WalletInv

LEMMA CommitRefundKeepsWallet ==
  ASSUME WalletInv, RefundInv', NEW c \in Callers, NEW last \in BOOLEAN,
         CommitRefund(c, last)
  PROVE  WalletInv'
<1> DEFINE f == call[c]
           k == f.lot
           R == Receipt(k, f)
           hold == HoldsAfterClosing(f)
           release == [r \in Refs |-> IF f.closing[r] > 0 THEN f.closing[r] ELSE entry["release"][r]]
           s == IF last THEN Idle
                ELSE [kind |-> "freeze", lot |-> f.lot, generation |-> f.generation]
           Closed(r) == f.closing[r] > 0
<1>1. /\ f \in Calls /\ f.kind = "refund"
      /\ RefundHolds(f)
      /\ overtaken \subseteq overtaken'
      /\ \A r \in Refs : Closed(r) /\ InFlight("capture", c, r) => r \in overtaken'
      /\ alloc' = [alloc EXCEPT !["hold"] = hold]
      /\ entry' = [entry EXCEPT !["release"] = release]
      /\ refunds' = [refunds EXCEPT ![k] = R]
      /\ call' = [call EXCEPT ![c] = s]
      /\ UNCHANGED lot
  BY DEF CommitRefund, WalletInv, RefundInv, TypeOK, Entries
<1>2. k \in Lots /\ f.closing \in [Refs -> Nat] /\ f.spent \in Nat
  BY <1>1, RefundingCall
<1>3. refunds[k].refunded = f.before /\ RefundPlan(f)
  BY <1>1 DEF RefundHolds, WalletInv, RefundInv, RefundPlansSound
<1>4. R \in Receipts /\ f.spent + R.debit <= LotAmount[k]
  BY <1>1, <1>2, <1>3, ReceiptSound DEF WalletInv
<1>5. /\ Spent(k) = f.spent
      /\ \A r \in Refs : IF Closed(r)
                         THEN HeldFor(r) = f.closing[r] /\ entry["release"][r] = 0
                         ELSE alloc["hold"][r][k] = 0
  BY <1>1 DEF RefundHolds
<1>6. alloc \in Allocations /\ alloc' \in Allocations
  BY DEF WalletInv, RefundInv, TypeOK, Allocations
<1>7. s.kind = "idle" \/ s.kind = "freeze"
  BY IdleCall
<1>8. call'[c] = s /\ \A b \in Callers \ {c} : call'[b] = call[b]
  BY <1>1 DEF WalletInv, RefundInv, TypeOK
<1>9. /\ \A e \in Debits \ {"hold"} : alloc'[e] = alloc[e]
      /\ \A r \in Refs : alloc'["hold"][r] = IF Closed(r) THEN [l \in Lots |-> 0] ELSE alloc["hold"][r]
  BY <1>1, <1>6 DEF Allocations, Debits, HoldsAfterClosing
<1>10. /\ \A e \in Entries \ {"release"} : entry'[e] = entry[e]
       /\ \A r \in Refs : entry'["release"][r] =
            IF Closed(r) THEN f.closing[r] ELSE entry["release"][r]
  BY <1>1 DEF WalletInv, RefundInv, TypeOK, Entries
<1>11. refunds'[k] = R /\ \A l \in Lots \ {k} : refunds'[l] = refunds[l]
  BY <1>1, <1>2 DEF WalletInv, RefundInv, TypeOK
<1> HIDE DEF f, k, R, hold, release, s, Closed
<1>12. HoldsAlone'
  <2>1. \A b \in Callers : call'[b].kind = "hold" => call'[b] = call[b]
    BY <1>7, <1>8
  <2>2. entry'["hold"] = entry["hold"]
    BY <1>10 DEF Entries, Debits
  <2> QED BY <1>1, <2>1, <2>2 DEF WalletInv, HoldsAlone
<1>13. SettlementsSound'
  <2> SUFFICES ASSUME NEW b \in Callers, call'[b].kind \in Settling
               PROVE  /\ call'[b].amount > 0
                      /\ call'[b].ref \notin overtaken' =>
                           /\ call'[b].captured <= AllocatedTo("capture", call[b].ref)'
                           /\ Current(call[b])' \/ Refused(call[b])'
    BY DEF SettlementsSound
  <2>1. call'[b] = call[b] /\ b # c
    BY <1>7, <1>8 DEF Settling
  <2> DEFINE e == call[b]
             q == e.ref
  <2>2. q \in Refs
    BY <2>1, SettlingCall DEF WalletInv, RefundInv, TypeOK, Settling
  <2>3. /\ e.amount > 0
        /\ q \notin overtaken' => /\ e.captured <= AllocatedTo("capture", q)
                                  /\ Current(e) \/ Refused(e)
    BY <1>1, <2>1 DEF WalletInv, SettlementsSound
  <2>4. AllocatedTo("capture", call[b].ref)' = AllocatedTo("capture", call[b].ref)
    BY <1>9, <2>1 DEF AllocatedTo, Debits
  <2>5. CASE ~Closed(q)
    <3>1. alloc'["hold"][q] = alloc["hold"][q]
      BY <1>9, <2>2, <2>5
    <3>2. /\ entry'["hold"][q] = entry["hold"][q] /\ entry'["capture"][q] = entry["capture"][q]
          /\ entry'["release"][q] = entry["release"][q]
      BY <1>10, <2>2, <2>5 DEF Debits, Entries
    <3>3. HeldFor(call[b].ref)' = HeldFor(call[b].ref)
      BY <2>1, <3>2 DEF HeldFor
    <3>4. Current(call[b]) => Current(call[b])'
      BY <2>1, <3>1, <3>3 DEF Current
    <3>5. Refused(call[b]) => Refused(call[b])'
      BY <2>1, <2>4, <3>2 DEF Refused, Settling
    <3> QED BY <2>1, <2>3, <2>4, <3>4, <3>5
  <2>6. CASE Closed(q) /\ e.kind = "capture"
    <3>1. q \in overtaken'
      BY <1>1, <2>1, <2>2, <2>6 DEF InFlight
    <3> QED BY <2>1, <2>3, <3>1
  <2>7. CASE Closed(q) /\ e.kind = "release"
    <3>1. entry'["release"][q] # 0
      BY <1>2, <1>10, <2>2, <2>7 DEF Closed
    <3>2. Refused(call[b])'
      BY <2>1, <2>7, <3>1 DEF Refused
    <3> QED BY <2>1, <2>3, <2>4, <3>2
  <2>8. e.kind \in Settling
    BY <2>1
  <2> QED BY <2>5, <2>6, <2>7, <2>8 DEF Settling
<1>14. AllocationsBacked'
  <2> SUFFICES ASSUME NEW q \in Refs
               PROVE  /\ SumFunction(alloc'["usage_debit"][q]) = entry'["usage_debit"][q]
                      /\ q \notin overtaken' => HoldBacked(q)'
    BY DEF AllocationsBacked, AllocatedTo
  <2>1. /\ SumFunction(alloc["usage_debit"][q]) = entry["usage_debit"][q]
        /\ q \notin overtaken' => HoldBacked(q)
    BY <1>1 DEF WalletInv, AllocationsBacked, AllocatedTo
  <2>2. /\ alloc'["capture"] = alloc["capture"] /\ alloc'["usage_debit"] = alloc["usage_debit"]
        /\ entry'["hold"] = entry["hold"] /\ entry'["capture"] = entry["capture"]
        /\ entry'["usage_debit"] = entry["usage_debit"]
    BY <1>9, <1>10 DEF Debits, Entries
  <2>3. CASE ~Closed(q)
    <3>1. alloc'["hold"][q] = alloc["hold"][q] /\ entry'["release"][q] = entry["release"][q]
      BY <1>9, <1>10, <2>3
    <3> QED BY <2>1, <2>2, <3>1 DEF HoldBacked, AllocatedTo, HeldFor
  <2>4. CASE Closed(q)
    <3> DEFINE z == [l \in Lots |-> 0]
    <3>1. z \in Planned /\ \A l \in Lots : z[l] = 0
      BY DEF Planned
    <3>2. alloc'["hold"][q] = z /\ entry'["release"][q] = f.closing[q]
      BY <1>9, <1>10, <2>4
    <3> HIDE DEF z
    <3>3. SumFunction(z) = 0
      BY <3>1, SumOfPlan, SumOfZeros, WalletAssumption
    <3>4. HeldFor(q) = f.closing[q] /\ entry["release"][q] = 0
      BY <1>5, <2>4
    <3>5. /\ HeldFor(q) = entry["hold"][q] - entry["capture"][q] - entry["release"][q]
          /\ entry["hold"][q] \in Nat /\ entry["capture"][q] \in Nat
      BY HeldForInt DEF WalletInv, RefundInv
    <3>6. 0 = entry["hold"][q] - entry["capture"][q] - f.closing[q]
      BY <3>4, <3>5
    <3> QED BY <2>1, <2>2, <3>2, <3>3, <3>6 DEF HoldBacked, AllocatedTo, HeldFor
  <2> QED BY <2>3, <2>4
<1>15. DebitsPriced'
  BY <1>10 DEF WalletInv, DebitsPriced, Entries, Debits
<1>16. \A l \in Lots, q \in Refs : alloc'["hold"][q][l] <= alloc["hold"][q][l]
                                  /\ alloc["hold"][q][l] \in Nat
  <2> SUFFICES ASSUME NEW l \in Lots, NEW q \in Refs
               PROVE  alloc'["hold"][q][l] <= alloc["hold"][q][l] /\ alloc["hold"][q][l] \in Nat
    OBVIOUS
  <2>1. alloc["hold"][q][l] \in Nat
    BY <1>6 DEF Allocations, Planned, Debits
  <2> QED BY <1>9, <2>1
<1>17. HoldsFunded'
  <2> SUFFICES ASSUME NEW l \in Lots, lot'[l] = "unfunded", NEW q \in Refs
               PROVE  alloc'["hold"][q][l] = 0
    BY DEF HoldsFunded
  <2>1. lot[l] = "unfunded" /\ alloc["hold"][q][l] = 0
    BY <1>1 DEF WalletInv, HoldsFunded
  <2>2. alloc'["hold"][q][l] \in Nat
    BY <1>6 DEF Allocations, Planned, Debits
  <2> QED BY <1>16, <2>1, <2>2
<1>18. ASSUME NEW l \in Lots, Blamed(l) PROVE Blamed(l)'
  <2>1. alloc'["capture"] = alloc["capture"]
    BY <1>9 DEF Debits
  <2> QED BY <1>1, <1>18, <2>1 DEF Blamed
<1>19. ASSUME NEW l \in Lots, Remaining(l) >= 0 \/ l = k PROVE Remaining(l)' >= 0
  <2>1. TypeOK /\ TypeOK'
    BY DEF WalletInv, RefundInv
  <2> DEFINE h == Taken(alloc, l, "hold")
             h2 == Taken(alloc', l, "hold")
             t == Taken(alloc, l, "capture")
             u == Taken(alloc, l, "usage_debit")
  <2>2. Remaining(l) = LotAmount[l] - (h + t + u) - refunds[l].debit /\ Spent(l) = t + u
    BY <2>1, RemainingIs
  <2>3. /\ Taken(alloc', l, "capture") = t
        /\ Taken(alloc', l, "usage_debit") = u
    <3>1. \A q \in Refs : alloc'["capture"][q][l] = alloc["capture"][q][l]
                          /\ alloc'["usage_debit"][q][l] = alloc["usage_debit"][q][l]
      BY <1>9 DEF Debits
    <3>2. "capture" \in Debits /\ "usage_debit" \in Debits
      BY DEF Debits
    <3> QED BY <1>6, <3>1, <3>2, TakenSame
  <2>4. Remaining(l)' = LotAmount[l] - (h2 + t + u) - refunds'[l].debit
    BY <2>1, <2>3, RemainingIsNext
  <2>5. "hold" \in Debits /\ "capture" \in Debits /\ "usage_debit" \in Debits
    BY DEF Debits
  <2>6. h2 <= h /\ h2 \in Nat /\ h \in Nat /\ t \in Nat /\ u \in Nat
    BY <1>6, <1>16, <2>5, TakenFewer, TakenNat
  <2>7. LotAmount[l] \in Nat /\ refunds[l].debit \in Nat /\ refunds'[l].debit \in Nat
    BY <2>1, WalletAssumption DEF TypeOK
  <2>8. CASE l # k
    <3>1. refunds'[l] = refunds[l]
      BY <1>11, <2>8
    <3> HIDE DEF h, h2, t, u
    <3> QED BY <1>19, <2>2, <2>4, <2>6, <2>7, <2>8, <3>1
  <2>9. CASE l = k
    <3>1. h2 = 0
      <4>1. \A q \in Refs : alloc'["hold"][q][l] = 0
        BY <1>5, <1>9, <2>9
      <4> QED BY <1>6, <2>5, <4>1, TakenNone
    <3>2. f.spent = t + u /\ refunds'[l].debit = R.debit
      BY <1>5, <1>11, <2>2, <2>9
    <3>3. (t + u) + refunds'[l].debit <= LotAmount[l]
      BY <1>4, <2>9, <3>2
    <3> HIDE DEF h, h2, t, u
    <3> QED BY <2>4, <2>6, <2>7, <3>1, <3>3
  <2> QED BY <2>8, <2>9
<1>20. LotsCovered'
  BY <1>18, <1>19 DEF LotsCovered, Blamed, WalletInv
<1> QED BY <1>12, <1>13, <1>14, <1>15, <1>17, <1>20 DEF WalletInv

LEMMA InitWallet == Init => WalletInv
<1> SUFFICES ASSUME Init PROVE WalletInv
  OBVIOUS
<1>1. RefundInv
  BY InitRefunds
<1>2. HoldsAlone /\ SettlementsSound
  BY IdleCall DEF Init, HoldsAlone, SettlementsSound, Settling
<1>3. \A d \in Debits, r \in Refs : alloc[d][r] \in Planned /\ \A l \in Lots : alloc[d][r][l] = 0
  BY DEF Init, Planned
<1>4. \A e \in Entries, r \in Refs : entry[e][r] = 0
  BY DEF Init
<1>5. AllocationsBacked
  <2> SUFFICES ASSUME NEW r \in Refs
               PROVE  /\ SumFunction(alloc["hold"][r]) = 0
                      /\ SumFunction(alloc["capture"][r]) = 0
                      /\ SumFunction(alloc["usage_debit"][r]) = 0
    BY <1>4 DEF AllocationsBacked, HoldBacked, AllocatedTo, HeldFor, Entries, Debits
  <2>1. ASSUME NEW d \in Debits PROVE SumFunction(alloc[d][r]) = 0
    BY <1>3, SumOfPlan, SumOfZeros, WalletAssumption
  <2> QED BY <2>1 DEF Debits
<1>6. DebitsPriced
  BY <1>4 DEF DebitsPriced, Entries, Debits
<1>7. HoldsFunded
  BY <1>3 DEF HoldsFunded, Debits
<1>8. LotsCovered
  <2> SUFFICES ASSUME NEW l \in Lots PROVE Remaining(l) >= 0
    BY DEF LotsCovered
  <2>1. alloc \in Allocations
    BY <1>1 DEF RefundInv, TypeOK, Allocations
  <2>2. \A d \in Debits : Taken(alloc, l, d) = 0
    BY <1>3, <2>1, TakenNone
  <2>3. Remaining(l) = LotAmount[l]
          - (Taken(alloc, l, "hold") + Taken(alloc, l, "capture") + Taken(alloc, l, "usage_debit"))
          - refunds[l].debit
    BY <1>1, RemainingIs DEF RefundInv
  <2>4. refunds[l].debit = 0 /\ LotAmount[l] \in Nat
    BY WalletAssumption DEF Init
  <2> QED BY <2>2, <2>3, <2>4 DEF Debits
<1> QED BY <1>1, <1>2, <1>5, <1>6, <1>7, <1>8 DEF WalletInv

LEMMA StepKeepsWallet == WalletInv /\ [Next]_vars => WalletInv'
<1> SUFFICES ASSUME WalletInv, [Next]_vars PROVE WalletInv'
  OBVIOUS
<1>1. RefundInv'
  BY StepKeepsRefunds DEF WalletInv
<1>2. CASE UNCHANGED vars
  <2>1. UNCHANGED <<lot, fence, refunds, alloc, entry, call, overtaken>>
    BY <1>2 DEF vars
  <2>2. HoldsAlone' /\ SettlementsSound'
    BY <2>1 DEF WalletInv, HoldsAlone, SettlementsSound, Current, Refused, AllocatedTo, HeldFor
  <2> QED BY <1>1, <2>1, <2>2, ReadsKeepWallet
<1>3. ASSUME NEW l \in Lots, Fund(l) \/ Expire(l) PROVE WalletInv'
  BY <1>1, <1>3, LotKeepsWallet
<1>4. ASSUME NEW c \in Callers, CallStep(c) PROVE WalletInv'
  <2>1. ASSUME NEW d \in {"hold", "usage_debit"}, NEW r \in Refs, Begin(c, d, r) PROVE WalletInv'
    BY <1>1, <2>1, BeginKeepsWallet
  <2>2. CASE CommitAllocation(c)
    BY <1>1, <2>2, CommitAllocationKeepsWallet
  <2>3. ASSUME NEW d \in Settling, NEW r \in Refs, NEW amount \in 1..Price[r],
               PlanSettlement(c, d, r, amount)
        PROVE  WalletInv'
    BY <1>1, <2>3, PlanSettlementKeepsWallet
  <2>4. CASE CommitSettlement(c)
    BY <1>1, <2>4, CommitSettlementKeepsWallet
  <2>5. ASSUME NEW last \in BOOLEAN, CommitRefund(c, last) PROVE WalletInv'
    BY <1>1, <2>5, CommitRefundKeepsWallet
  <2>6. CASE \/ PlanAllocation(c)
             \/ \E l \in Refundable : FreezeFunding(c, l)
             \/ \E amount \in 1..Consideration[call[c].lot] : PlanRefund(c, amount)
             \/ UnfreezeFunding(c)
             \/ Abandon(c)
    BY <1>1, <2>6, OthersKeepWallet
  <2> QED BY <1>4, <2>1, <2>2, <2>3, <2>4, <2>5, <2>6 DEF CallStep, Settling
<1> QED BY <1>2, <1>3, <1>4 DEF Next

LEMMA WalletInvHolds == Spec => []WalletInv
<1>1. Init => WalletInv
  BY InitWallet
<1>2. WalletInv /\ [Next]_vars => WalletInv'
  BY StepKeepsWallet
<1> QED BY <1>1, <1>2, PTL DEF Spec

-----------------------------------------------------------------------------
(* The totals of the wallet.                                                *)

\* What holds take, summed by lots and by references.
LEMMA HeldByLots ==
  ASSUME WalletInv, overtaken = {}
  PROVE  /\ AllocatedHeld = Held
         /\ Held = SumFunctionOnSet([l \in Lots |-> Taken(alloc, l, "hold")], Lots)
<1> DEFINE a == alloc["hold"]
           row == [r \in Refs |-> AllocatedTo("hold", r)]
           held == [r \in Refs |-> HeldFor(r)]
           col == [l \in Lots |-> Taken(alloc, l, "hold")]
<1>1. /\ IsFiniteSet(Refs) /\ IsFiniteSet(Lots)
      /\ alloc \in Allocations /\ "hold" \in Debits
  BY WalletAssumption DEF WalletInv, RefundInv, TypeOK, Allocations, Debits
<1>2. \A r \in Refs : row[r] = held[r]
  BY DEF WalletInv, AllocationsBacked, HoldBacked
<1>3. AllocatedHeld = SumFunctionOnSet(row, Refs) /\ Held = SumFunctionOnSet(held, Refs)
  BY DEF AllocatedHeld, Held, SumFunction
<1>4. SumFunctionOnSet(row, Refs) = SumFunctionOnSet(held, Refs)
  <2> HIDE DEF row, held
  <2> QED BY <1>1, <1>2, SumAgrees
<1>5. ASSUME NEW r \in Refs PROVE a[r] \in Planned /\ row[r] = SumFunctionOnSet(a[r], Lots)
  <2>1. a[r] \in Planned
    BY <1>1 DEF Allocations
  <2> QED BY <2>1, SumOfPlan DEF AllocatedTo
<1> DEFINE t == [l \in Lots |-> [r \in Refs |-> a[r][l]]]
<1>6. /\ \A l \in Lots : col[l] = SumFunctionOnSet(t[l], Refs)
      /\ \A r \in Refs, l \in Lots : t[l][r] = a[r][l]
  BY <1>1, TakenIs
<1>7. \A r \in Refs, l \in Lots : a[r][l] \in Int
  BY <1>5 DEF Planned
<1> HIDE DEF a, t, row, col
<1>8. SumFunctionOnSet(row, Refs) = SumFunctionOnSet(col, Lots)
  BY <1>1, <1>5, <1>6, <1>7, SumSwaps
<1> QED BY <1>3, <1>4, <1>8 DEF col

\* What each lot is worth covers what is held of it and, while it is frozen, its remainder.
LEMMA Readable ==
  ASSUME WalletInv, overtaken = {}
  PROVE  WalletReadable
<1> DEFINE worth(l) == IF lot[l] = "live" THEN LotAmount[l] - Spent(l) - refunds[l].debit
                       ELSE AllocatedFrom(l, {"hold"})
           Funded == {k \in Lots : lot[k] # "unfunded"}
           Fenced == {k \in Lots : fence[k].active /\ lot[k] = "live"}
           w0 == [l \in Funded |-> worth(l)]
           w == [l \in Lots |-> IF l \in Funded THEN worth(l) ELSE 0]
           z0 == [l \in Fenced |-> Max({0, Remaining(l)})]
           z == [l \in Lots |-> IF l \in Fenced THEN Max({0, Remaining(l)}) ELSE 0]
           h == [l \in Lots |-> Taken(alloc, l, "hold")]
           hz == [l \in Lots |-> h[l] + z[l]]
<1>1. IsFiniteSet(Lots) /\ Funded \in SUBSET Lots /\ Fenced \in SUBSET Lots
  BY WalletAssumption
<1>2. Settled = SumFunctionOnSet(w0, Funded) /\ Frozen = SumFunctionOnSet(z0, Fenced)
  BY DEF Settled, Frozen, SumFunction
<1>3. /\ \A l \in Funded : w[l] = w0[l] /\ w[l] = worth(l)
      /\ \A l \in Lots \ Funded : w[l] = 0
      /\ \A l \in Fenced : z[l] = z0[l] /\ z[l] = Max({0, Remaining(l)})
      /\ \A l \in Lots \ Fenced : z[l] = 0
      /\ \A l \in Lots : h[l] = Taken(alloc, l, "hold") /\ hz[l] = h[l] + z[l]
  OBVIOUS
<1>4. ASSUME NEW l \in Lots
      PROVE  /\ h[l] \in Nat /\ z[l] \in Nat /\ w[l] \in Int
             /\ h[l] + z[l] <= w[l]
  <2> DEFINE t == Taken(alloc, l, "capture") + Taken(alloc, l, "usage_debit")
  <2>1. TypeOK /\ Remaining(l) >= 0 /\ alloc \in Allocations
    BY DEF WalletInv, RefundInv, LotsCovered, TypeOK, Allocations
  <2>2. /\ Remaining(l) = LotAmount[l]
             - (Taken(alloc, l, "hold") + Taken(alloc, l, "capture") + Taken(alloc, l, "usage_debit"))
             - refunds[l].debit
        /\ Remaining(l) \in Int
        /\ Spent(l) = t
        /\ AllocatedFrom(l, {"hold"}) = h[l]
    BY <2>1, RemainingIs
  <2>3. /\ Taken(alloc, l, "hold") \in Nat /\ Taken(alloc, l, "capture") \in Nat
        /\ Taken(alloc, l, "usage_debit") \in Nat
    BY <2>1, TakenNat DEF Debits
  <2>4. h[l] \in Nat /\ h[l] = Taken(alloc, l, "hold")
    BY <1>3, <2>3
  <2>5. LotAmount[l] \in Nat /\ refunds[l].debit \in Nat
    BY <2>1, WalletAssumption DEF TypeOK
  <2>6. Remaining(l) + h[l] = LotAmount[l] - Spent(l) - refunds[l].debit
    <3> HIDE DEF h
    <3> QED BY <2>2, <2>3, <2>4, <2>5
  <2>7. l \in Fenced => z[l] = Remaining(l)
    <3> DEFINE n == Remaining(l)
    <3>1. n \in Int /\ n >= 0
      BY <2>1, <2>2
    <3> HIDE DEF n
    <3>2. Max({0, n}) = n
      BY <3>1, MaxWithZero
    <3> QED BY <1>3, <3>2 DEF n
  <2>8. lot[l] = "unfunded" => h[l] = 0
    <3>1. lot[l] = "unfunded" => \A q \in Refs : alloc["hold"][q][l] = 0
      BY DEF WalletInv, HoldsFunded
    <3>2. "hold" \in Debits
      BY DEF Debits
    <3> QED BY <2>1, <2>4, <3>1, <3>2, TakenNone
  <2>9. lot[l] = "live" => w[l] = Remaining(l) + h[l]
    <3>1. lot[l] = "live" => l \in Funded /\ worth(l) = LotAmount[l] - Spent(l) - refunds[l].debit
      OBVIOUS
    <3> HIDE DEF worth, w, h
    <3> QED BY <1>3, <2>6, <3>1
  <2>10. lot[l] = "expired" => w[l] = h[l]
    <3>1. lot[l] = "expired" => l \in Funded /\ worth(l) = AllocatedFrom(l, {"hold"})
      OBVIOUS
    <3> HIDE DEF worth, w, h
    <3> QED BY <1>3, <2>2, <3>1
  <2>11. lot[l] = "unfunded" => w[l] = 0
    BY <1>3
  <2>12. lot[l] # "live" => z[l] = 0
    BY <1>3
  <2>13. l \notin Fenced => z[l] = 0
    BY <1>3
  <2>14. lot[l] \in {"unfunded", "live", "expired"}
    BY <2>1 DEF TypeOK
  <2> HIDE DEF w, z, h
  <2>15. z[l] \in Nat /\ z[l] <= Remaining(l)
    BY <2>1, <2>2, <2>7, <2>13
  <2> QED BY <2>1, <2>2, <2>4, <2>8, <2>9, <2>10, <2>11, <2>12, <2>14, <2>15
<1> HIDE DEF w, w0, z, z0, h, hz, worth, Funded, Fenced
<1>5. Summable(w, Lots) /\ Summable(h, Lots) /\ Summable(z, Lots) /\ Summable(hz, Lots)
  <2>1. \A l \in Lots : w[l] \in Int /\ h[l] \in Int /\ z[l] \in Int
    BY <1>4
  <2>2. \A l \in Lots : hz[l] \in Int
    BY <1>3, <2>1
  <2> QED BY <1>1, <2>1, <2>2 DEF Summable
<1>6. SumFunctionOnSet(w, Lots) = Settled
  <2>1. SumFunctionOnSet(w, Lots) = SumFunctionOnSet(w, Funded)
    BY <1>1, <1>3, <1>5, SumOverSupport
  <2>2. SumFunctionOnSet(w, Funded) = SumFunctionOnSet(w0, Funded)
    BY <1>1, <1>3, FS_Subset, SumAgrees
  <2> QED BY <1>2, <2>1, <2>2
<1>7. SumFunctionOnSet(z, Lots) = Frozen
  <2>1. SumFunctionOnSet(z, Lots) = SumFunctionOnSet(z, Fenced)
    BY <1>1, <1>3, <1>5, SumOverSupport
  <2>2. SumFunctionOnSet(z, Fenced) = SumFunctionOnSet(z0, Fenced)
    BY <1>1, <1>3, FS_Subset, SumAgrees
  <2> QED BY <1>2, <2>1, <2>2
<1>8. SumFunctionOnSet(h, Lots) = Held /\ AllocatedHeld = Held
  BY HeldByLots DEF h
<1>9. SumFunctionOnSet(hz, Lots) = Held + Frozen
  BY <1>3, <1>5, <1>7, <1>8, SumAdds
<1>10. SumFunctionOnSet(hz, Lots) <= SumFunctionOnSet(w, Lots)
  BY <1>3, <1>4, <1>5, SumMonotone
<1>11. Held \in Nat /\ Frozen \in Nat /\ Settled \in Int
  <2>1. \A l \in Lots : h[l] \in Nat /\ z[l] \in Nat
    BY <1>4
  <2>2. SumFunctionOnSet(h, Lots) \in Nat /\ SumFunctionOnSet(z, Lots) \in Nat
    BY <1>1, <2>1, SumOfNaturals
  <2>3. SumFunctionOnSet(w, Lots) \in Int
    BY <1>5, SumIsInt
  <2> QED BY <1>6, <1>7, <1>8, <2>2, <2>3
<1>12. Held + Frozen <= Settled
  BY <1>6, <1>9, <1>10
<1>13. Held >= 0 /\ Settled >= 0 /\ Settled - Held - Frozen >= 0
  BY <1>11, <1>12
<1> QED BY <1>8, <1>13 DEF WalletReadable

-----------------------------------------------------------------------------
(* What a step may never do.                                                *)

\* What an organization in debt may see of its holds and usage debits.
SpendsNothingNew ==
  \A d \in {"hold", "usage_debit"}, r \in Refs :
    entry'[d][r] = entry[d][r] /\ AllocatedTo(d, r)' <= AllocatedTo(d, r)

LEMMA AllocatedToNat ==
  ASSUME TypeOK, NEW d \in Debits, NEW r \in Refs
  PROVE  AllocatedTo(d, r) \in Nat /\ alloc[d][r] \in Planned
<1>1. alloc[d][r] \in Planned
  BY DEF TypeOK
<1> QED BY <1>1, SumOfPlan DEF AllocatedTo

\* Fewer of each lot is less in all.
LEMMA PlansGrow ==
  ASSUME NEW p \in Planned, NEW q \in Planned, \A l \in Lots : p[l] <= q[l]
  PROVE  SumFunction(p) <= SumFunction(q)
<1>1. SumFunctionOnSet(p, Lots) <= SumFunctionOnSet(q, Lots)
  BY SumOfPlan, SumMonotone
<1> QED BY <1>1, SumOfPlan

LEMMA SameSpends ==
  ASSUME TypeOK, UNCHANGED <<alloc, entry>>
  PROVE  SpendsNothingNew
<1>1. \A d \in Debits, r \in Refs : AllocatedTo(d, r) \in Nat /\ AllocatedTo(d, r)' = AllocatedTo(d, r)
  BY AllocatedToNat DEF AllocatedTo
<1>2. \A d \in {"hold", "usage_debit"}, r \in Refs :
        AllocatedTo(d, r) \in Nat /\ AllocatedTo(d, r)' = AllocatedTo(d, r)
  BY <1>1 DEF Debits
<1>3. \A d \in {"hold", "usage_debit"}, r \in Refs : AllocatedTo(d, r)' <= AllocatedTo(d, r)
  BY <1>2
<1> QED BY <1>3 DEF SpendsNothingNew

LEMMA SettlementSpends ==
  ASSUME RefundInv, NEW c \in Callers, CommitSettlement(c)
  PROVE  SpendsNothingNew
<1> DEFINE s == call[c]
           q == s.ref
           hold == HoldAfter(q, s.previous, Take(s.amount, s.previous))
<1>1. PICK capture :
        /\ s \in Calls /\ s.kind \in {"capture", "release"}
        /\ alloc' = [alloc EXCEPT !["hold"][q] = hold, !["capture"][q] = capture]
        /\ entry' = [entry EXCEPT ![s.kind][q] = s.amount]
  BY DEF CommitSettlement, RefundInv, TypeOK
<1>2. q \in Refs /\ s.amount \in Nat /\ s.previous \in Planned
  BY <1>1, SettlingCall
<1>3. hold \in Planned /\ \A l \in Lots : hold[l] <= alloc["hold"][q][l]
  BY <1>2, MovedBounds DEF RefundInv
<1> HIDE DEF hold, q, s
<1> SUFFICES ASSUME NEW d \in {"hold", "usage_debit"}, NEW r \in Refs
             PROVE  entry'[d][r] = entry[d][r] /\ AllocatedTo(d, r)' <= AllocatedTo(d, r)
  BY DEF SpendsNothingNew
<1>4. entry'[d][r] = entry[d][r]
  BY <1>1, <1>2 DEF RefundInv, TypeOK, Entries, Debits
<1>5. AllocatedTo(d, r) \in Nat /\ alloc[d][r] \in Planned
  BY AllocatedToNat DEF RefundInv, Debits
<1>6. CASE d = "hold" /\ r = q
  <2>1. alloc'[d][r] = hold
    BY <1>1, <1>2, <1>6 DEF RefundInv, TypeOK, Debits
  <2>2. SumFunction(hold) <= SumFunction(alloc[d][r])
    BY <1>3, <1>5, <1>6, PlansGrow
  <2> QED BY <1>4, <2>1, <2>2 DEF AllocatedTo
<1>7. CASE ~(d = "hold" /\ r = q)
  <2>1. alloc'[d][r] = alloc[d][r]
    BY <1>1, <1>2, <1>7 DEF RefundInv, TypeOK, Debits
  <2>2. AllocatedTo(d, r)' = AllocatedTo(d, r)
    BY <2>1 DEF AllocatedTo
  <2> QED BY <1>4, <1>5, <2>2
<1> QED BY <1>6, <1>7

LEMMA RefundSpends ==
  ASSUME RefundInv, NEW c \in Callers, NEW last \in BOOLEAN, CommitRefund(c, last)
  PROVE  SpendsNothingNew
<1> DEFINE f == call[c]
           zero == [l \in Lots |-> 0]
<1>1. /\ alloc' = [alloc EXCEPT !["hold"] = HoldsAfterClosing(f)]
      /\ \A d \in {"hold", "usage_debit"} : entry'[d] = entry[d]
  BY DEF CommitRefund, RefundInv, TypeOK, Entries, Debits
<1>2. \A r \in Refs : HoldsAfterClosing(f)[r] \in {zero, alloc["hold"][r]}
  BY DEF HoldsAfterClosing
<1> HIDE DEF f, zero
<1> SUFFICES ASSUME NEW d \in {"hold", "usage_debit"}, NEW r \in Refs
             PROVE  AllocatedTo(d, r)' <= AllocatedTo(d, r)
  BY <1>1 DEF SpendsNothingNew
<1>3. alloc'[d][r] \in {zero, alloc[d][r]}
  BY <1>1, <1>2 DEF RefundInv, TypeOK, Debits
<1>4. AllocatedTo(d, r) \in Nat /\ alloc[d][r] \in Planned
  BY AllocatedToNat DEF RefundInv, Debits
<1>5. CASE alloc'[d][r] = alloc[d][r]
  <2>1. AllocatedTo(d, r)' = AllocatedTo(d, r)
    BY <1>5 DEF AllocatedTo
  <2> QED BY <1>4, <2>1
<1>6. CASE alloc'[d][r] = zero
  <2>1. zero \in Planned /\ \A l \in Lots : zero[l] <= alloc[d][r][l]
    BY <1>4 DEF zero, Planned
  <2>2. SumFunction(zero) <= SumFunction(alloc[d][r])
    BY <1>4, <2>1, PlansGrow
  <2> QED BY <1>6, <2>2 DEF AllocatedTo
<1> QED BY <1>3, <1>5, <1>6

LEMMA DebtSpends ==
  ASSUME RefundInv, [Next]_vars, ~DebtFree
  PROVE  SpendsNothingNew
<1>1. CASE UNCHANGED vars
  BY <1>1, SameSpends DEF vars, RefundInv
<1>2. ASSUME NEW l \in Lots, Fund(l) \/ Expire(l) PROVE SpendsNothingNew
  BY <1>2, SameSpends DEF Fund, Expire, RefundInv
<1>3. ASSUME NEW c \in Callers, CallStep(c) PROVE SpendsNothingNew
  <2>1. CASE CommitAllocation(c)
    BY <2>1 DEF CommitAllocation, AllocationHolds
  <2>2. CASE CommitSettlement(c)
    BY <2>2, SettlementSpends
  <2>3. ASSUME NEW last \in BOOLEAN, CommitRefund(c, last) PROVE SpendsNothingNew
    BY <2>3, RefundSpends
  <2>4. CASE \/ \E d \in {"hold", "usage_debit"}, r \in Refs : Begin(c, d, r)
             \/ PlanAllocation(c)
             \/ \E d \in {"capture", "release"}, r \in Refs :
                  \E amount \in 1..Price[r] : PlanSettlement(c, d, r, amount)
             \/ \E l \in Refundable : FreezeFunding(c, l)
             \/ \E amount \in 1..Consideration[call[c].lot] : PlanRefund(c, amount)
             \/ UnfreezeFunding(c)
             \/ Abandon(c)
    <3>1. UNCHANGED <<alloc, entry>>
      BY <2>4 DEF Begin, PlanAllocation, PlanSettlement, FreezeFunding, PlanRefund,
                  UnfreezeFunding, Abandon
    <3> QED BY <3>1, SameSpends DEF RefundInv
  <2> QED BY <1>3, <2>1, <2>2, <2>3, <2>4 DEF CallStep
<1> QED BY <1>1, <1>2, <1>3 DEF Next

\* What a step leaves of a frozen lot.
LotLeft(l) ==
  \A d \in Debits, r \in Refs :
    (d = "capture" => r \notin overtaken) => alloc'[d][r][l] <= alloc[d][r][l]

Concludes(l) ==
  \E c \in Callers : /\ call[c].kind \in {"freeze", "refund"}
                     /\ call[c].lot = l /\ call[c].generation = fence[l].generation
                     /\ call'[c] # call[c]

LEMMA SameLot ==
  ASSUME TypeOK, NEW l \in Lots, UNCHANGED alloc
  PROVE  LotLeft(l)
<1>1. \A d \in Debits, r \in Refs : alloc[d][r][l] \in Nat
  BY DEF TypeOK, Planned
<1> QED BY <1>1 DEF LotLeft

\* A plan made before the freeze finds the lot no longer eligible.
LEMMA AllocationLeavesLot ==
  ASSUME WalletInv, NEW l \in Lots, fence[l].active, NEW c \in Callers, CommitAllocation(c)
  PROVE  LotLeft(l)
<1> DEFINE d == call[c].kind
           r == call[c].ref
           after == AllocationsAfter(d, r, call[c].gone, call[c].plan)
<1>1. d \in {"hold", "usage_debit"} /\ call[c] \in Calls /\ alloc' = [alloc EXCEPT ![d][r] = after]
  BY DEF CommitAllocation, WalletInv, RefundInv, TypeOK
<1>2. r \in Refs /\ d \in Debits
  BY <1>1, SpendingCall DEF Debits
<1>3. after[l] = alloc[d][r][l]
  BY DEF AllocationsAfter, Eligible
<1> HIDE DEF after, d, r
<1>4. \A e \in Debits, q \in Refs : alloc'[e][q][l] = alloc[e][q][l] /\ alloc[e][q][l] \in Nat
  BY <1>1, <1>2, <1>3 DEF WalletInv, RefundInv, TypeOK, Planned
<1> QED BY <1>4 DEF LotLeft

\* A capture is refused while its hold has a part on a frozen lot, a release only gives back.
\* What an overtaken capture takes was read before the freeze, and its guard sees no hold.
LEMMA SettlementLeavesLot ==
  ASSUME WalletInv, NEW l \in Lots, fence[l].active, NEW c \in Callers, CommitSettlement(c)
  PROVE  LotLeft(l)
<1> DEFINE s == call[c]
           q == s.ref
           moved == Take(s.amount, s.previous)
           hold == HoldAfter(q, s.previous, moved)
           capture == IF s.kind = "capture" THEN [k \in Lots |-> alloc["capture"][q][k] + moved[k]]
                      ELSE alloc["capture"][q]
<1>1. /\ s \in Calls /\ s.kind \in Settling
      /\ s.kind = "capture" => ~HeldOnFence(q)
      /\ entry[s.kind][q] = 0 /\ AllocatedTo("capture", q) = s.captured
      /\ alloc' = [alloc EXCEPT !["hold"][q] = hold, !["capture"][q] = capture]
  BY DEF CommitSettlement, SettlementHolds, Settling, WalletInv, RefundInv, TypeOK
<1>2. q \in Refs /\ s.amount \in Nat /\ s.previous \in Planned /\ s.captured \in Nat
  BY <1>1, SettlingCall DEF Settling
<1>3. q \notin overtaken => s.previous = alloc["hold"][q]
  <2>1. q \notin overtaken => Current(s) \/ Refused(s)
    BY <1>1 DEF WalletInv, SettlementsSound
  <2>2. ~Refused(s)
    BY <1>1, <1>2 DEF Refused
  <2> QED BY <2>1, <2>2 DEF Current
<1>4. /\ hold[l] <= alloc["hold"][q][l]
      /\ moved[l] <= s.previous[l] /\ moved \in Planned
  BY <1>2, MovedBounds DEF WalletInv, RefundInv
<1>5. \A d \in Debits, r \in Refs : alloc[d][r][l] \in Nat
  BY DEF WalletInv, RefundInv, TypeOK, Planned
<1>6. ASSUME q \notin overtaken PROVE capture[l] <= alloc["capture"][q][l]
  <2> DEFINE n == moved[l]
             o == alloc["capture"][q][l]
             p == alloc["hold"][q][l]
  <2>1. n \in Nat /\ n <= p /\ o \in Nat /\ p \in Nat
    BY <1>2, <1>3, <1>4, <1>5, <1>6 DEF Planned, Debits
  <2>2. capture[l] = IF s.kind = "capture" THEN o + n ELSE o
    OBVIOUS
  <2>3. s.kind = "capture" => ~(p > 0)
    BY <1>1 DEF HeldOnFence
  <2> HIDE DEF n, o, p, capture, s
  <2>4. s.kind = "capture" => n = 0
    BY <2>1, <2>3
  <2>5. capture[l] <= o
    BY <2>1, <2>2, <2>4
  <2> QED BY <2>5 DEF o
<1> HIDE DEF s, q, moved, hold, capture
<1> SUFFICES ASSUME NEW d \in Debits, NEW r \in Refs, d = "capture" => r \notin overtaken
             PROVE  alloc'[d][r][l] <= alloc[d][r][l]
  BY DEF LotLeft
<1>7. CASE d = "hold" /\ r = q
  <2>1. alloc'[d][r] = hold
    BY <1>1, <1>2, <1>7 DEF WalletInv, RefundInv, TypeOK, Debits
  <2> QED BY <1>4, <1>7, <2>1
<1>8. CASE d = "capture" /\ r = q
  <2>1. alloc'[d][r] = capture
    BY <1>1, <1>2, <1>8 DEF WalletInv, RefundInv, TypeOK, Debits
  <2> QED BY <1>6, <1>8, <2>1
<1>9. CASE r # q \/ d = "usage_debit"
  <2>1. alloc'[d][r] = alloc[d][r]
    BY <1>1, <1>2, <1>9 DEF WalletInv, RefundInv, TypeOK, Debits
  <2> QED BY <1>5, <2>1
<1> QED BY <1>7, <1>8, <1>9 DEF Debits

\* A refund takes every hold on its lot apart and adds none.
LEMMA RefundLeavesLot ==
  ASSUME WalletInv, NEW l \in Lots, NEW c \in Callers, NEW last \in BOOLEAN, CommitRefund(c, last)
  PROVE  LotLeft(l)
<1> DEFINE f == call[c]
<1>1. alloc' = [alloc EXCEPT !["hold"] = HoldsAfterClosing(f)]
  BY DEF CommitRefund
<1>2. \A r \in Refs : HoldsAfterClosing(f)[r][l] \in {0, alloc["hold"][r][l]}
  BY DEF HoldsAfterClosing
<1> HIDE DEF f
<1>3. \A d \in Debits, r \in Refs : alloc[d][r][l] \in Nat
  BY DEF WalletInv, RefundInv, TypeOK, Planned
<1>4. \A d \in Debits, r \in Refs : alloc'[d][r][l] \in {0, alloc[d][r][l]}
  BY <1>1, <1>2, <1>3 DEF WalletInv, RefundInv, TypeOK, Debits
<1> QED BY <1>3, <1>4 DEF LotLeft

\* Only the call that froze the lot last, with its own refund or at its end, unfreezes it.
LEMMA RefundUnfreezes ==
  ASSUME RefundInv, NEW l \in Lots, fence[l].active,
         NEW c \in Callers, NEW last \in BOOLEAN, CommitRefund(c, last)
  PROVE  fence'[l].active \/ Concludes(l)
<1> DEFINE f == call[c]
           k == f.lot
           s == IF last THEN Idle
                ELSE [kind |-> "freeze", lot |-> f.lot, generation |-> f.generation]
<1>1. /\ f \in Calls /\ f.kind = "refund"
      /\ fence[k] = [generation |-> f.generation, active |-> TRUE]
      /\ fence' = [fence EXCEPT ![k].active = ~last]
      /\ call' = [call EXCEPT ![c] = s]
  BY DEF CommitRefund, RefundHolds, RefundInv, TypeOK
<1>2. k \in Lots
  BY <1>1, RefundingCall
<1>3. s.kind # "refund"
  BY IdleCall
<1>4. call'[c] # call[c]
  <2> HIDE DEF s
  <2> QED BY <1>1, <1>3 DEF RefundInv, TypeOK
<1>5. fence[k].generation = f.generation
  BY <1>1
<1> HIDE DEF s
<1>6. CASE k = l
  BY <1>1, <1>4, <1>5, <1>6 DEF Concludes
<1>7. CASE k # l
  BY <1>1, <1>2, <1>7 DEF RefundInv, TypeOK
<1> QED BY <1>6, <1>7

LEMMA UnfreezeUnfreezes ==
  ASSUME RefundInv, NEW l \in Lots, fence[l].active, NEW c \in Callers, UnfreezeFunding(c)
  PROVE  fence'[l].active \/ Concludes(l)
<1> DEFINE k == call[c].lot
<1>1. /\ call[c] \in Calls /\ call[c].kind = "freeze"
      /\ fence[k] = [generation |-> call[c].generation, active |-> TRUE]
      /\ fence' = [fence EXCEPT ![k].active = FALSE]
      /\ call' = [call EXCEPT ![c] = Idle]
  BY DEF UnfreezeFunding, RefundInv, TypeOK
<1>2. k \in Lots
  BY <1>1, FreezingCall
<1>3. call'[c] # call[c]
  BY <1>1, IdleCall DEF RefundInv, TypeOK
<1>4. fence[k].generation = call[c].generation
  BY <1>1
<1>5. CASE k = l
  BY <1>1, <1>3, <1>4, <1>5 DEF Concludes
<1>6. CASE k # l
  BY <1>1, <1>2, <1>6 DEF RefundInv, TypeOK
<1> QED BY <1>5, <1>6

LEMMA FrozenLeft ==
  ASSUME WalletInv, [Next]_vars, NEW l \in Lots, fence[l].active
  PROVE  LotLeft(l) /\ (fence'[l].active \/ Concludes(l))
<1>0. TypeOK /\ RefundInv
  BY DEF WalletInv, RefundInv
<1>1. CASE UNCHANGED <<alloc, fence>>
  BY <1>0, <1>1, SameLot
<1>2. CASE UNCHANGED vars
  BY <1>1, <1>2 DEF vars
<1>3. ASSUME NEW k \in Lots, Fund(k) \/ Expire(k)
      PROVE  LotLeft(l) /\ (fence'[l].active \/ Concludes(l))
  BY <1>1, <1>3 DEF Fund, Expire
<1>4. ASSUME NEW c \in Callers, CallStep(c)
      PROVE  LotLeft(l) /\ (fence'[l].active \/ Concludes(l))
  <2>1. CASE CommitAllocation(c)
    <3>1. UNCHANGED fence
      BY <2>1 DEF CommitAllocation
    <3> QED BY <2>1, <3>1, AllocationLeavesLot
  <2>2. CASE CommitSettlement(c)
    <3>1. UNCHANGED fence
      BY <2>2 DEF CommitSettlement
    <3> QED BY <2>2, <3>1, SettlementLeavesLot
  <2>3. ASSUME NEW last \in BOOLEAN, CommitRefund(c, last)
        PROVE  LotLeft(l) /\ (fence'[l].active \/ Concludes(l))
    BY <1>0, <2>3, RefundLeavesLot, RefundUnfreezes
  <2>4. ASSUME NEW k \in Refundable, FreezeFunding(c, k)
        PROVE  LotLeft(l) /\ (fence'[l].active \/ Concludes(l))
    <3>1. UNCHANGED alloc /\ fence' = [fence EXCEPT ![k] = [generation |-> @.generation + 1, active |-> TRUE]]
      BY <2>4 DEF FreezeFunding
    <3>2. fence'[l].active
      BY <1>0, <3>1 DEF TypeOK
    <3> QED BY <1>0, <3>1, <3>2, SameLot
  <2>5. CASE UnfreezeFunding(c)
    <3>1. UNCHANGED alloc
      BY <2>5 DEF UnfreezeFunding
    <3> QED BY <1>0, <2>5, <3>1, SameLot, UnfreezeUnfreezes
  <2>6. CASE \/ \E d \in {"hold", "usage_debit"}, r \in Refs : Begin(c, d, r)
             \/ PlanAllocation(c)
             \/ \E d \in {"capture", "release"}, r \in Refs :
                  \E amount \in 1..Price[r] : PlanSettlement(c, d, r, amount)
             \/ \E amount \in 1..Consideration[call[c].lot] : PlanRefund(c, amount)
             \/ Abandon(c)
    <3>1. UNCHANGED <<alloc, fence>>
      BY <2>6 DEF Begin, PlanAllocation, PlanSettlement, PlanRefund, Abandon
    <3> QED BY <1>1, <3>1
  <2> QED BY <1>4, <2>1, <2>2, <2>3, <2>4, <2>5, <2>6 DEF CallStep
<1> QED BY <1>2, <1>3, <1>4 DEF Next

-----------------------------------------------------------------------------
(* The theorems.                                                            *)

\* The rows, entries and reads of the wallet have their types, whatever calls overlap.
THEOREM TypeCorrect == Spec => []TypeOK
<1>1. RefundInv => TypeOK
  BY DEF RefundInv
<1> QED BY <1>1, RefundInvHolds, PTL

\* The guards of the batches keep what is allocated and debited within each lot, for any
\* number of lots, references and concurrent calls; a lot that is overdrawn nevertheless has
\* a capture of a hold on it that was released or refunded while the capture was in flight.
THEOREM LotsCoveredHolds == Spec => []LotsCovered
<1>1. WalletInv => LotsCovered
  BY DEF WalletInv
<1> QED BY <1>1, WalletInvHolds, PTL

\* The check of wallet() fails only after a call was overtaken: until then held equals what
\* is allocated to holds, and what is available, after what is held and frozen, is not
\* negative, whatever other calls overlap.
THEOREM ReadableUntilOvertakenHolds == Spec => []ReadableUntilOvertaken
<1>1. WalletInv => ReadableUntilOvertaken
  BY Readable DEF ReadableUntilOvertaken
<1> QED BY <1>1, WalletInvHolds, PTL

\* Allocations are what the entries say of every reference that was not overtaken, and of
\* every usage debit.  A lot refunded in parts is revoked as far as one refund of the total
\* would have revoked it.
THEOREM EntriesBackedHolds == Spec => []EntriesBacked
<1>1. ASSUME WalletInv PROVE EntriesBacked
  <2> SUFFICES ASSUME NEW l \in Lots
               PROVE  /\ refunds[l].debit + refunds[l].expired + refunds[l].receivable = refunds[l].target
                      /\ refunds[l].target = IF refunds[l].refunded = Consideration[l] THEN LotAmount[l]
                           ELSE (LotAmount[l] * refunds[l].refunded) \div Consideration[l]
    BY <1>1 DEF WalletInv, AllocationsBacked, HoldBacked, EntriesBacked
  <2> DEFINE n == refunds[l].refunded
  <2>1. n \in Nat
    BY <1>1 DEF WalletInv, RefundInv, TypeOK
  <2>2. /\ refunds[l].debit + refunds[l].expired + refunds[l].receivable = refunds[l].target
        /\ refunds[l].target = Target(l, 0, n)
    BY <1>1 DEF WalletInv, RefundInv, RefundsAccounted
  <2> HIDE DEF n
  <2>3. 0 + n = n
    BY <2>1
  <2>4. Target(l, 0, n) = IF 0 + n = Consideration[l] THEN LotAmount[l]
                          ELSE (LotAmount[l] * (0 + n)) \div Consideration[l]
    BY DEF Target
  <2>5. refunds[l].target = IF n = Consideration[l] THEN LotAmount[l]
                            ELSE (LotAmount[l] * n) \div Consideration[l]
    BY <2>2, <2>3, <2>4
  <2> QED BY <2>2, <2>5 DEF n
<1> QED BY <1>1, WalletInvHolds, PTL

\* Nothing but an overtaken capture takes from a lot while its fence is active, and only the
\* call that froze it last unfreezes it.
THEOREM FrozenUntouchedHolds == Spec => FrozenUntouched
<1> DEFINE Left == \A l \in Lots : fence[l].active =>
                     /\ LotLeft(l)
                     /\ fence'[l].active \/ Concludes(l)
<1>1. ASSUME WalletInv, [Next]_vars PROVE Left
  BY <1>1, FrozenLeft
<1> HIDE DEF Left
<1>2. Spec => [][Left]_vars
  BY <1>1, WalletInvHolds, PTL DEF Spec
<1>3. FrozenUntouched <=> [][Left]_vars
  BY DEF FrozenUntouched, Left, LotLeft, Concludes
<1> QED BY <1>2, <1>3

\* An organization in debt spends nothing new: the guard of every batch that spends reads the
\* receivables again.
THEOREM DebtStopsSpendingHolds == Spec => DebtStopsSpending
<1> DEFINE Stops == ~DebtFree => SpendsNothingNew
<1>1. ASSUME RefundInv, [Next]_vars PROVE Stops
  BY <1>1, DebtSpends
<1> HIDE DEF Stops
<1>2. Spec => [][Stops]_vars
  BY <1>1, RefundInvHolds, PTL DEF Spec
<1>3. DebtStopsSpending <=> [][Stops]_vars
  BY DEF DebtStopsSpending, Stops, SpendsNothingNew
<1> QED BY <1>2, <1>3

=============================================================================

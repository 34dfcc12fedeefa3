--------------------------- MODULE WorkflowProofs ---------------------------
(***************************************************************************)
(* The properties of WorkflowRuns for every number of controllers, Hosts,  *)
(* steps and events and every length of leases, delays and clock lags:     *)
(* WorkflowInv is inductive, and the properties follow from it.            *)
(***************************************************************************)
EXTENDS WorkflowRuns, SequenceTheorems, FiniteSetTheorems, WellFoundedInduction, TLAPS

Contexts == [state: {"none", "paused", "running", "stopped", "expired"}, until: Nat,
             host: Hosts \cup {None}]
Jobs ==
  [op: {"none", "run", "terminate"}, host: Hosts \cup {None},
   pc: {"idle", "claim", "claimed", "reread", "open", "opened", "executing", "stop",
        "park", "terminalize", "release", "mark", "marked", "recheck", "finalize", "clearbit"},
   epoch: 0..MaxEpoch, at: Nat, owned: BOOLEAN,
   next: {"none", "park", "terminalize", "release", "recheck", "clearbit"},
   outcome: {"none", "complete", "failed", "sleeping", "waiting"},
   name: Names \cup {None}, beat: Nat, renewed: Nat, call: Calls]

-----------------------------------------------------------------------------
(* One call.                                                                *)

Runner(j) == j.pc \in {"claimed", "open", "opened", "executing"}
Parks(j) == j.pc = "park" \/ (j.pc = "stop" /\ j.next = "park")

\* A call that may still change the journal under the claim of its epoch.
Drives(j) == Runner(j) \/ Parks(j) \/ j.call # NoCall

\* A step's row: a do step never waits, and only a settled step has a result.
SoundStep(s) ==
  /\ s.kind = "do" => s.state # "waiting"
  /\ s.state \notin Settled => s.result = None

\* A step call has read a row that is not settled; what it asks to be written is sound, and
\* carries the event it consumes, if any.
SoundCall(k) ==
  /\ k.phase = "none" => k = NoCall
  /\ k.phase # "none" => k.name \in Names
  /\ k.phase = "insert" => k.prior = None
  /\ k.phase \in {"effect", "write", "look", "consume"} =>
       k.prior \in StepRows /\ SoundStep(k.prior) /\ k.prior.state \notin Settled
  /\ k.phase = "look" => k.prior.kind = "wait" /\ k.prior.state = "waiting"
  /\ k.phase \in {"insert", "write", "consume"} =>
       k.to \in StepRows /\ SoundStep(k.to) /\ k.to.result = k.event
  /\ k.phase = "consume" => k.event \in Events
  /\ k.phase # "consume" => k.event = None

\* Where a call may be, by itself.
Formed(j) ==
  /\ j.pc # "idle" => j.host \in Hosts
  /\ Runner(j) \/ j.pc \in {"stop", "park"} => j.epoch # 0
  /\ j.pc = "stop" => j.next # "none"
  /\ j.pc = "claim" => j.epoch < MaxEpoch
  /\ Parks(j) => j.outcome \in {"sleeping", "waiting"} /\ j.call = NoCall
  /\ j.call # NoCall =>
       \/ j.pc = "executing"
       \/ Accepted(j) /\ (j.pc \in {"terminalize", "release"}
                           \/ (j.pc = "stop" /\ j.next \in {"terminalize", "release"}))
  /\ SoundCall(j.call)

JobsFormed == \A c \in Controllers : Formed(job[c])

\* There is one driver of an epoch.
OneDriver ==
  \A c, d \in Controllers :
    job[c].epoch = job[d].epoch /\ Drives(job[c]) /\ Drives(job[d]) => c = d

-----------------------------------------------------------------------------
(* Calls and contexts against the row.                                      *)

\* The lease is never further away than its length, and ends with the lifetime.
LeaseBounded ==
  /\ row.lease <= Deadline /\ row.lease <= now + LeaseMs
  /\ row.owned => row.epoch # 0

\* A call acts for an epoch that was claimed.  Before it has opened its context there is
\* none, and the context it will open ends with the lease of the claim; a renewal is in the
\* row before it is in the Host, and the next one cannot take the lease back.
Timely(j) ==
  /\ j.epoch <= row.epoch
  /\ j.pc = "claim" => j.at <= now
  /\ j.pc \in {"claimed", "open"} =>
       /\ context[j.epoch] = NoContext
       /\ j.at <= Deadline
       /\ Claimed(j.epoch) => j.at <= row.lease
  /\ j.pc = "executing" =>
       /\ j.renewed <= Deadline
       /\ Claimed(j.epoch) => /\ j.renewed <= row.lease
                              /\ j.renewed = 0 => row.lease <= j.beat + LeaseMs

JobsTimely == \A c \in Controllers : Timely(job[c])

\* A context that runs or may come to run ends with its lease.
ContextsBounded ==
  \A e \in Epochs :
    /\ e > row.epoch => context[e] = NoContext
    /\ context[e].host # None => context[e].state # "none"
    /\ context[e].until <= Deadline
    /\ context[e].state \in {"paused", "running"} /\ Claimed(e) => context[e].until <= row.lease

\* The claim of the epoch is over, or nobody can run code in it any more but in a context
\* whose deadline has come.
Quiet(e) ==
  \/ ~Claimed(e)
  \/ /\ e \in Epochs /\ context[e].state \in {"paused", "running"} => Overdue(e)
     /\ \A d \in Controllers : job[d].epoch = e =>
          (job[d].pc \in {"claimed", "open"} => job[d].at <= now)

\* Whoever is past the stop has made sure of that.
StopsProved ==
  \A c \in Controllers :
    job[c].pc \in {"park", "terminalize", "release", "recheck", "finalize"} => Quiet(job[c].epoch)

-----------------------------------------------------------------------------
(* The journal.                                                             *)

StepsSound == \A n \in Names : steps[n] # None => SoundStep(steps[n])

Waits(n) == steps[n] # None /\ steps[n].kind = "wait" /\ steps[n].state = "waiting"

\* While the claim stands, what its driver has read of a wait is so.
Looked(j) ==
  Claimed(j.epoch) /\ row.status = "running" =>
    /\ j.call.phase = "look" => steps[j.call.name] = j.call.prior
    /\ Parks(j) /\ j.outcome = "waiting" => j.name \in Names /\ Waits(j.name)

JobsLooked == \A c \in Controllers : Looked(job[c])

\* What a sendEvent has read of the instance is so while its revision stands.
SendsFresh ==
  /\ \A v \in fresh :
       /\ send[v].pc = "commit"
       /\ send[v].direct = None => PendingWait(send[v].at) = {}
       /\ send[v].direct # None => send[v].direct \in PendingWait(send[v].at)
  /\ \A v \in Events : send[v].at <= now

\* A waiting instance is parked on a wait that is open or has got its event.
WaitersParked ==
  row.status = "waiting" =>
    /\ ~row.owned /\ row.pending \in Names
    /\ steps[row.pending] # None
    /\ steps[row.pending].kind = "wait"
    /\ steps[row.pending].state \in {"waiting", "complete"}

InQueue(v) == \E i \in DOMAIN queue : queue[i].event = v
IsTaken(v) == \E n \in Names : steps[n] # None /\ steps[n].result = v

\* Every accepted event of an active instance has one place, and no other event has any.
EventsPlaced ==
  /\ \A i, k \in DOMAIN queue : queue[i].event = queue[k].event => i = k
  /\ \A n, m \in Names :
       /\ steps[n] # None /\ steps[m] # None
       /\ steps[n].result # None /\ steps[n].result = steps[m].result
       => n = m
  /\ \A v \in Events :
       /\ ~(InQueue(v) /\ IsTaken(v))
       /\ Active(row) => ((InQueue(v) \/ IsTaken(v)) <=> send[v].pc = "accepted")
  /\ ~Active(row) => Recorded = {} /\ queue = <<>>

ClaimInv ==
  /\ TypeOK
  /\ JobsFormed
  /\ OneDriver
  /\ LeaseBounded
  /\ JobsTimely
  /\ ContextsBounded
  /\ StopsProved
  /\ CodeUnderClaim

JournalInv ==
  /\ StepsSound
  /\ JobsLooked
  /\ SendsFresh
  /\ WaitersParked
  /\ WaitersWoken
  /\ EventsPlaced

WorkflowInv == ClaimInv /\ JournalInv

-----------------------------------------------------------------------------
(* The operators on calls.                                                  *)

PCs == {"idle", "claim", "claimed", "reread", "open", "opened", "executing", "stop",
        "park", "terminalize", "release", "mark", "marked", "recheck", "finalize", "clearbit"}
Nexts == {"none", "park", "terminalize", "release", "recheck", "clearbit"}
Outcomes == {"none", "complete", "failed", "sleeping", "waiting"}
PastStop(j) == j.pc \in {"park", "terminalize", "release", "recheck", "finalize"}

LEMMA ConstantsTyped ==
  /\ LeaseMs \in Nat /\ LeaseMs > 0 /\ Delay \in Nat /\ Deadline \in Nat /\ Deadline > 0
  /\ Horizon \in Nat /\ Horizon > 0 /\ Retries \in Nat /\ MaxEpoch \in Nat /\ MaxFaults \in Nat
  /\ Lag \in Nat /\ MaxPending \in Nat
  /\ None \notin Names /\ None \notin Events /\ None \notin Hosts
BY WorkflowAssumption

LEMMA NoCallTyped == NoCall \in Calls /\ SoundCall(NoCall) /\ NoCall.phase = "none"
BY DEF NoCall, Calls, SoundCall

LEMMA NoJobTyped ==
  /\ NoJob \in Jobs /\ Formed(NoJob) /\ ~Drives(NoJob)
  /\ NoJob.pc = "idle" /\ NoJob.epoch = 0 /\ NoJob.call = NoCall
<1>1. NoJob \in Jobs
  BY ConstantsTyped, NoCallTyped DEF NoJob, Jobs
<1> QED
  BY <1>1, NoCallTyped DEF NoJob, Formed, Drives, Runner, Parks

\* What is left of a call that goes elsewhere.
Kept(j) == IF Accepted(j) THEN j.call ELSE NoCall

LEMMA KeptTyped ==
  ASSUME NEW j \in Jobs, Formed(j)
  PROVE  /\ Kept(j) \in Calls /\ SoundCall(Kept(j))
         /\ Kept(j) # NoCall => Accepted(j) /\ Kept(j) = j.call /\ Kept(j).phase = j.call.phase
         /\ j.call = NoCall => Kept(j) = NoCall
BY NoCallTyped DEF Kept, Jobs, Formed, Accepted, SoundCall

LEMMA AtIs ==
  ASSUME NEW j \in Jobs, NEW pc \in PCs, NEW e \in 0..MaxEpoch, Formed(j)
  PROVE  /\ At(j, pc, e) \in Jobs
         /\ At(j, pc, e).op = j.op /\ At(j, pc, e).host = j.host
         /\ At(j, pc, e).pc = pc /\ At(j, pc, e).epoch = e
         /\ At(j, pc, e).at = 0 /\ At(j, pc, e).beat = 0 /\ At(j, pc, e).renewed = 0
         /\ At(j, pc, e).next = "none" /\ At(j, pc, e).outcome = "none"
         /\ At(j, pc, e).call = Kept(j)
<1> DEFINE k == Kept(j)
           o == j.op
           h == j.host
<1>1. At(j, pc, e) = [NoJob EXCEPT !.op = o, !.host = h, !.pc = pc, !.epoch = e, !.call = k]
  BY DEF At, Kept
<1>2. k \in Calls /\ k = Kept(j) /\ o = j.op /\ h = j.host
  BY KeptTyped
<1>3. o \in {"none", "run", "terminate"} /\ h \in Hosts \cup {None}
  BY DEF Jobs
<1> HIDE DEF k, o, h
<1>4. At(j, pc, e) =
        [op |-> o, host |-> h, pc |-> pc, epoch |-> e, at |-> 0, owned |-> FALSE,
         next |-> "none", outcome |-> "none", name |-> None, beat |-> 0, renewed |-> 0,
         call |-> k]
  BY <1>1 DEF NoJob
<1> QED
  BY <1>2, <1>3, <1>4, ConstantsTyped DEF Jobs, PCs

\* A call that stops its context.
LEMMA StoppingIs ==
  ASSUME NEW j \in Jobs, NEW next \in Nexts, Formed(j)
  PROVE  /\ Stopping(j, next) \in Jobs
         /\ Stopping(j, next).pc = "stop" /\ Stopping(j, next).epoch = j.epoch
         /\ Stopping(j, next).host = j.host /\ Stopping(j, next).op = j.op
         /\ Stopping(j, next).next = next
         /\ Stopping(j, next).call = Kept(j)
<1> DEFINE a == At(j, "stop", j.epoch)
<1>1. /\ a \in Jobs /\ a.pc = "stop" /\ a.epoch = j.epoch /\ a.host = j.host /\ a.op = j.op
      /\ a.call = Kept(j)
  <2>1. "stop" \in PCs /\ j.epoch \in 0..MaxEpoch
    BY DEF PCs, Jobs
  <2> QED
    BY <2>1, AtIs
<1>2. Stopping(j, next) = [a EXCEPT !.next = next]
  BY DEF Stopping
<1> HIDE DEF a
<1> QED
  BY <1>1, <1>2 DEF Jobs, Nexts

LEMMA FinishIs ==
  ASSUME NEW j \in Jobs, NEW o \in Outcomes, Formed(j)
  PROVE  /\ Finish(j, o) \in Jobs
         /\ Finish(j, o).pc = "stop" /\ Finish(j, o).epoch = j.epoch
         /\ Finish(j, o).host = j.host
         /\ Finish(j, o).next = "terminalize"
         /\ Finish(j, o).call = Kept(j)
<1> DEFINE a == Stopping(j, "terminalize")
<1>1. /\ a \in Jobs /\ a.pc = "stop" /\ a.epoch = j.epoch /\ a.host = j.host
      /\ a.next = "terminalize" /\ a.call = Kept(j)
  BY StoppingIs DEF Nexts
<1>2. Finish(j, o) = [a EXCEPT !.outcome = o]
  BY DEF Finish
<1> HIDE DEF a
<1> QED
  BY <1>1, <1>2 DEF Jobs, Outcomes

LEMMA ParkingIs ==
  ASSUME NEW j \in Jobs, NEW o \in Outcomes, NEW n \in Names, NEW t \in Nat, Formed(j)
  PROVE  /\ Parking(j, o, n, t) \in Jobs
         /\ Parking(j, o, n, t).pc = "stop" /\ Parking(j, o, n, t).epoch = j.epoch
         /\ Parking(j, o, n, t).host = j.host
         /\ Parking(j, o, n, t).next = "park" /\ Parking(j, o, n, t).outcome = o
         /\ Parking(j, o, n, t).name = n
         /\ Parking(j, o, n, t).call = Kept(j)
<1> DEFINE a == Stopping(j, "park")
           b == [a EXCEPT !.outcome = o]
           d == [b EXCEPT !.name = n]
           w == Least(t, Deadline)
<1>1. /\ a \in Jobs /\ a.pc = "stop" /\ a.epoch = j.epoch /\ a.host = j.host
      /\ a.next = "park" /\ a.call = Kept(j)
  BY StoppingIs DEF Nexts
<1>2. w \in Nat
  BY ConstantsTyped DEF Least
<1>3. Parking(j, o, n, t) = [d EXCEPT !.at = w]
  BY DEF Parking
<1>4. b = [a EXCEPT !.outcome = o] /\ d = [b EXCEPT !.name = n]
  OBVIOUS
<1> HIDE DEF a, b, d, w
<1>5. b \in Jobs /\ b.pc = "stop" /\ b.epoch = j.epoch /\ b.host = j.host
      /\ b.next = "park" /\ b.call = Kept(j) /\ b.outcome = o
  BY <1>1, <1>4 DEF Jobs, Outcomes
<1>6. d \in Jobs /\ d.pc = "stop" /\ d.epoch = j.epoch /\ d.host = j.host
      /\ d.next = "park" /\ d.call = Kept(j) /\ d.outcome = o /\ d.name = n
  BY <1>4, <1>5 DEF Jobs
<1> QED
  BY <1>2, <1>3, <1>6 DEF Jobs

-----------------------------------------------------------------------------
(* Where a call may go without touching its context or its lease.           *)

Follows(j, x) ==
  /\ x \in Jobs /\ Formed(x)
  /\ Drives(x) => Drives(j) /\ x.epoch = j.epoch
  /\ x.pc \in {"claimed", "open"} => j.pc \in {"claimed", "open"} /\ x.at = j.at
  /\ x.pc # "opened"
  /\ x.epoch <= row.epoch
  /\ x.pc = "claim" => x.at <= now
  /\ x.pc = "executing" => j.pc = "executing" /\ x.renewed = j.renewed /\ x.beat = j.beat

Proven(x) == PastStop(x) => Quiet(x.epoch)

\* Nothing is known of a wait, and nothing needs to be.
Blind(x) == x.call.phase # "look" /\ ~Parks(x)

LEMMA EpochTyped ==
  ASSUME TypeOK
  PROVE  /\ row.epoch \in 0..MaxEpoch /\ row.epoch \in Nat /\ row.lease \in Nat
         /\ row.owned \in BOOLEAN /\ row.termination \in BOOLEAN
         /\ now \in Nat /\ now >= 1
         /\ \A c \in Controllers : job[c] \in Jobs /\ job[c].epoch \in 0..MaxEpoch
         /\ \A e \in Epochs : context[e] \in Contexts
<1>1. row.epoch \in 0..MaxEpoch /\ row.lease \in Nat /\ row.owned \in BOOLEAN /\ row.termination \in BOOLEAN
  BY DEF TypeOK, Rows
<1>2. \A c \in Controllers : job[c] \in Jobs /\ job[c].epoch \in 0..MaxEpoch
  BY DEF TypeOK, Jobs
<1>3. \A e \in Epochs : context[e] \in Contexts
  BY DEF TypeOK, Contexts
<1>4. now \in Nat /\ now >= 1
  BY ConstantsTyped DEF TypeOK
<1> QED
  BY <1>1, <1>2, <1>3, <1>4, ConstantsTyped

LEMMA FollowsNoJob ==
  ASSUME TypeOK, NEW j
  PROVE  Follows(j, NoJob) /\ Proven(NoJob) /\ Blind(NoJob)
BY EpochTyped, NoJobTyped, NoCallTyped DEF Follows, Proven, PastStop, Blind, Parks

\* A call without a step call goes somewhere else.
LEMMA FollowsAtRest ==
  ASSUME TypeOK, NEW j, NEW x \in Jobs, x.call = NoCall, x.host \in Hosts,
         x.epoch <= row.epoch, ~Runner(x), ~Parks(x),
         x.pc = "stop" => x.epoch # 0 /\ x.next # "none",
         x.pc = "claim" => x.at <= now /\ x.epoch < MaxEpoch
  PROVE  Follows(j, x) /\ Blind(x)
<1>1. Formed(x)
  BY NoCallTyped DEF Formed, Parks
<1>2. ~Drives(x)
  BY DEF Drives
<1> QED
  BY <1>1, <1>2, NoCallTyped DEF Follows, Blind, Runner

\* A run goes to its stop, keeping what it has accepted.
LEMMA FollowsToStop ==
  ASSUME TypeOK, NEW j \in Jobs, Formed(j), NEW x \in Jobs,
         j.pc # "idle", j.epoch # 0, j.epoch <= row.epoch,
         x.pc = "stop", x.epoch = j.epoch, x.host = j.host,
         x.next \in {"terminalize", "release"}, x.call = Kept(j)
  PROVE  Follows(j, x) /\ Proven(x) /\ Blind(x)
<1>1. /\ SoundCall(x.call)
      /\ x.call # NoCall => Accepted(x) /\ j.call # NoCall
  BY KeptTyped, NoCallTyped DEF Accepted
<1>2. ~Runner(x) /\ ~Parks(x)
  BY DEF Runner, Parks
<1>3. Formed(x)
  BY <1>1, <1>2 DEF Formed
<1>4. Drives(x) => Drives(j)
  BY <1>1, <1>2 DEF Drives
<1>5. x.call.phase # "look"
  BY <1>1, NoCallTyped DEF Accepted
<1> QED
  BY <1>2, <1>3, <1>4, <1>5 DEF Follows, Proven, PastStop, Blind

LEMMA FollowsGiveUp ==
  ASSUME TypeOK, NEW j \in Jobs, Formed(j), j.pc # "idle", j.epoch # 0, j.epoch <= row.epoch
  PROVE  Follows(j, GiveUp(j)) /\ Proven(GiveUp(j)) /\ Blind(GiveUp(j))
<1> DEFINE x == GiveUp(j)
<1>1. /\ x \in Jobs /\ x.pc = "stop" /\ x.epoch = j.epoch /\ x.host = j.host
      /\ x.next = "release" /\ x.call = Kept(j)
  BY StoppingIs DEF GiveUp, Nexts
<1> HIDE DEF x
<1>2. Follows(j, x) /\ Proven(x) /\ Blind(x)
  BY <1>1, FollowsToStop
<1> QED
  BY <1>2 DEF x

LEMMA FollowsFinish ==
  ASSUME TypeOK, NEW j \in Jobs, Formed(j), j.pc # "idle", j.epoch # 0, j.epoch <= row.epoch,
         NEW o \in Outcomes
  PROVE  Follows(j, Finish(j, o)) /\ Proven(Finish(j, o)) /\ Blind(Finish(j, o))
<1> DEFINE x == Finish(j, o)
<1>1. /\ x \in Jobs /\ x.pc = "stop" /\ x.epoch = j.epoch /\ x.host = j.host
      /\ x.next = "terminalize" /\ x.call = Kept(j)
  BY FinishIs
<1> HIDE DEF x
<1>2. Follows(j, x) /\ Proven(x) /\ Blind(x)
  BY <1>1, FollowsToStop
<1> QED
  BY <1>2 DEF x

\* A run parks once its step call has an answer.
LEMMA FollowsParking ==
  ASSUME TypeOK, NEW j \in Jobs, Formed(j), j.pc = "executing", j.epoch <= row.epoch, ~Accepted(j),
         NEW o \in {"sleeping", "waiting"}, NEW n \in Names, NEW t \in Nat
  PROVE  Follows(j, Parking(j, o, n, t)) /\ Proven(Parking(j, o, n, t))
<1> DEFINE x == Parking(j, o, n, t)
<1>1. /\ x \in Jobs /\ x.pc = "stop" /\ x.epoch = j.epoch /\ x.host = j.host
      /\ x.next = "park" /\ x.call = Kept(j) /\ x.outcome = o
  BY ParkingIs DEF Outcomes
<1>2. Kept(j) = NoCall
  BY DEF Kept
<1> HIDE DEF x
<1>3. Formed(x)
  BY <1>1, <1>2, NoCallTyped DEF Formed, Runner, Parks
<1>4. Drives(j)
  BY DEF Drives, Runner
<1>5. Follows(j, x) /\ Proven(x)
  BY <1>1, <1>3, <1>4 DEF Follows, Proven, PastStop
<1> QED
  BY <1>5 DEF x

\* Once the lease or the lifetime has run out no code can run under the claim any more.
LEMMA LapsedQuiet ==
  ASSUME ClaimInv, NEW e \in 0..MaxEpoch, ~Claimed(e) \/ row.lease <= now \/ Deadline <= now
  PROVE  Quiet(e)
<1> SUFFICES ASSUME Claimed(e)
             PROVE  Quiet(e)
  BY DEF Quiet
<1>1. TypeOK /\ JobsTimely /\ ContextsBounded /\ LeaseBounded
  BY DEF ClaimInv
<1>2. row.lease \in Nat /\ now \in Nat /\ row.lease <= now
  BY <1>1, EpochTyped, ConstantsTyped DEF LeaseBounded
<1>3. e \in Epochs
  BY <1>1, ConstantsTyped DEF Claimed, LeaseBounded, Epochs
<1>4. context[e].until \in Nat
  BY <1>1, <1>3, EpochTyped DEF Contexts
<1>5. context[e].state \in {"paused", "running"} => Overdue(e)
  BY <1>1, <1>2, <1>3, <1>4 DEF ContextsBounded, Overdue
<1>6. ASSUME NEW d \in Controllers, job[d].epoch = e
      PROVE  job[d].pc \in {"claimed", "open"} => job[d].at <= now
  <2>1. Timely(job[d]) /\ job[d].at \in Nat
    BY <1>1, EpochTyped DEF JobsTimely, Jobs
  <2> QED
    BY <1>2, <1>6, <2>1 DEF Timely
<1> QED
  BY <1>5, <1>6 DEF Quiet

LEMMA OwnedSet ==
  ASSUME NEW b \in Jobs, NEW o \in BOOLEAN, NEW x, x = [b EXCEPT !.owned = o]
  PROVE  /\ x \in Jobs /\ x.pc = b.pc /\ x.epoch = b.epoch /\ x.host = b.host /\ x.call = b.call
         /\ x.next = b.next
<1>1. x \in Jobs
  BY DEF Jobs
<1>2. /\ x.pc = b.pc /\ x.epoch = b.epoch /\ x.host = b.host /\ x.call = b.call
      /\ x.next = b.next
  BY DEF Jobs
<1> QED
  BY <1>1, <1>2

\* A row of the same claim.
SameClaim(r) == r \in Rows /\ r.epoch = row.epoch /\ r.owned = row.owned /\ r.lease = row.lease

LEMMA FollowsRecovering ==
  ASSUME ClaimInv, NEW j \in Jobs, Formed(j), j.host \in Hosts, j.call = NoCall,
         NEW r, SameClaim(r)
  PROVE  Follows(j, Recovering(j, r)) /\ Proven(Recovering(j, r)) /\ Blind(Recovering(j, r))
<1> DEFINE next == IF Active(r) THEN "recheck" ELSE "clearbit"
           mustStop == r.owned /\ r.lease > now /\ Deadline > now
           pc == IF mustStop THEN "stop" ELSE next
           then == IF mustStop THEN next ELSE "none"
           a == At(j, pc, r.epoch)
           b == [a EXCEPT !.next = then]
           o == r.owned
           x == Recovering(j, r)
<1>1. x = [b EXCEPT !.owned = o]
  BY DEF Recovering
<1>2. /\ next \in {"recheck", "clearbit"}
      /\ mustStop => pc = "stop" /\ then = next
      /\ ~mustStop => pc = next /\ then = "none"
  OBVIOUS
<1>3. o \in BOOLEAN /\ b = [a EXCEPT !.next = then]
  BY DEF SameClaim, Rows
<1>4. TypeOK /\ LeaseBounded
  BY DEF ClaimInv
<1>5. /\ mustStop => row.owned
      /\ ~mustStop => ~row.owned \/ row.lease <= now \/ Deadline <= now
      /\ r.epoch = row.epoch /\ row.epoch \in 0..MaxEpoch
  BY <1>4, EpochTyped, ConstantsTyped DEF SameClaim
<1> HIDE DEF next, mustStop, pc, then, o
<1>6. /\ a \in Jobs /\ a.pc = pc /\ a.epoch = r.epoch /\ a.host = j.host /\ a.call = NoCall
  BY <1>2, <1>5, AtIs, KeptTyped DEF PCs
<1> HIDE DEF a, b, x
<1>7. b \in Jobs /\ b.pc = pc /\ b.epoch = r.epoch /\ b.host = j.host /\ b.call = NoCall /\ b.next = then
  BY <1>2, <1>3, <1>6 DEF Jobs
<1>8. x \in Jobs /\ x.pc = pc /\ x.epoch = r.epoch /\ x.host = j.host /\ x.call = NoCall /\ x.next = then
  BY <1>1, <1>3, <1>7, OwnedSet
<1>9. ~Runner(x) /\ ~Parks(x)
  BY <1>2, <1>8 DEF Runner, Parks
<1>10. x.pc = "stop" => x.epoch # 0 /\ x.next # "none"
  BY <1>2, <1>4, <1>5, <1>8 DEF LeaseBounded
<1>11. Follows(j, x) /\ Blind(x)
  BY <1>2, <1>4, <1>5, <1>8, <1>9, <1>10, FollowsAtRest
<1>12. Proven(x)
  <2>1. CASE mustStop
    BY <1>2, <1>8, <2>1 DEF Proven, PastStop
  <2>2. CASE ~mustStop
    <3>1. Quiet(row.epoch)
      BY <1>5, <2>2, LapsedQuiet DEF Claimed
    <3> QED
      BY <1>5, <1>8, <3>1 DEF Proven
  <2> QED
    BY <2>1, <2>2
<1> QED
  BY <1>11, <1>12 DEF x

\* What runOne and terminate do with a row they have read.
LEMMA FollowsReading ==
  ASSUME ClaimInv, NEW j \in Jobs, Formed(j), j.host \in Hosts, j.call = NoCall,
         NEW r, SameClaim(r)
  PROVE  Follows(j, Reading(j, r)) /\ Proven(Reading(j, r)) /\ Blind(Reading(j, r))
<1>1. TypeOK /\ LeaseBounded
  BY DEF ClaimInv
<1>2. r.epoch = row.epoch /\ row.epoch \in 0..MaxEpoch /\ r.owned = row.owned /\ r.owned \in BOOLEAN
      /\ now \in Nat
  BY <1>1, EpochTyped DEF SameClaim
<1> DEFINE x == Reading(j, r)
<1> SUFFICES Follows(j, x) /\ Proven(x) /\ Blind(x)
  OBVIOUS
<1>3. CASE r.termination
  <2>1. x = Recovering(j, r)
    BY <1>3 DEF Reading
  <2> QED
    BY <2>1, FollowsRecovering
<1>4. CASE ~r.termination /\ ~Active(r)
  <2>1. x = IF r.owned THEN GiveUp([j EXCEPT !.epoch = r.epoch]) ELSE NoJob
    BY <1>4 DEF Reading
  <2>2. CASE r.owned
    <3> DEFINE g == [j EXCEPT !.epoch = r.epoch]
    <3>1. g \in Jobs /\ g.epoch = r.epoch /\ g.host = j.host /\ g.call = NoCall
      BY <1>2 DEF Jobs
    <3>2. x = GiveUp(g)
      BY <2>1, <2>2
    <3> HIDE DEF g
    <3>3. /\ x \in Jobs /\ x.pc = "stop" /\ x.epoch = g.epoch /\ x.host = g.host
          /\ x.next = "release" /\ x.call = NoCall
      <4>1. "stop" \in PCs /\ g.epoch \in 0..MaxEpoch
        BY <3>1 DEF PCs, Jobs
      <4> DEFINE a == [NoJob EXCEPT !.op = g.op, !.host = g.host, !.pc = "stop",
                                    !.epoch = g.epoch, !.call = NoCall]
                 o == g.op
                 h == g.host
                 e == g.epoch
      <4>2. ~Accepted(g)
        BY <3>1, NoCallTyped DEF Accepted
      <4>3. x = [a EXCEPT !.next = "release"]
        BY <3>2, <4>2 DEF GiveUp, Stopping, At
      <4>4. /\ a = [NoJob EXCEPT !.op = o, !.host = h, !.pc = "stop", !.epoch = e, !.call = NoCall]
            /\ o \in {"none", "run", "terminate"} /\ h \in Hosts \cup {None} /\ e \in 0..MaxEpoch
            /\ h = g.host /\ e = g.epoch
        BY <3>1 DEF Jobs
      <4> HIDE DEF o, h, e, a
      <4>5. a = [op |-> o, host |-> h, pc |-> "stop", epoch |-> e, at |-> 0, owned |-> FALSE,
                 next |-> "none", outcome |-> "none", name |-> None, beat |-> 0, renewed |-> 0,
                 call |-> NoCall]
        BY <4>4 DEF NoJob
      <4>6. x = [op |-> o, host |-> h, pc |-> "stop", epoch |-> e, at |-> 0, owned |-> FALSE,
                 next |-> "release", outcome |-> "none", name |-> None, beat |-> 0, renewed |-> 0,
                 call |-> NoCall]
        BY <4>3, <4>5
      <4> HIDE DEF x
      <4> QED
        BY <4>4, <4>6, NoCallTyped, ConstantsTyped DEF Jobs
    <3> HIDE DEF x
    <3>4. ~Runner(x) /\ ~Parks(x) /\ ~PastStop(x)
      BY <3>3 DEF Runner, Parks, PastStop
    <3> QED
      BY <1>1, <1>2, <2>2, <3>1, <3>3, <3>4, FollowsAtRest DEF Proven, LeaseBounded
  <2>3. CASE ~r.owned
    BY <1>1, <2>1, <2>3, FollowsNoJob
  <2> QED
    BY <2>2, <2>3
<1>5. CASE ~r.termination /\ Active(r) /\ j.op = "terminate"
  <2> DEFINE a == At(j, "mark", r.epoch)
             o == r.owned
  <2>1. x = [a EXCEPT !.owned = o] /\ o \in BOOLEAN
    BY <1>2, <1>5 DEF Reading
  <2>2. a \in Jobs /\ a.pc = "mark" /\ a.epoch = row.epoch /\ a.host = j.host /\ a.call = NoCall
    BY <1>2, AtIs, KeptTyped DEF PCs
  <2> HIDE DEF x, a, o
  <2>3. x \in Jobs /\ x.pc = "mark" /\ x.epoch = row.epoch /\ x.host = j.host /\ x.call = NoCall
    BY <2>1, <2>2 DEF Jobs
  <2>4. ~Runner(x) /\ ~Parks(x) /\ ~PastStop(x)
    BY <2>3 DEF Runner, Parks, PastStop
  <2> QED
    BY <1>1, <1>2, <2>3, <2>4, FollowsAtRest DEF Proven
<1>6. CASE /\ ~r.termination /\ Active(r) /\ j.op # "terminate"
           /\ Deferred(r) \/ r.epoch = MaxEpoch
  <2>1. x = NoJob
    BY <1>6 DEF Reading
  <2> QED
    BY <1>1, <2>1, FollowsNoJob
<1>7. CASE /\ ~r.termination /\ Active(r) /\ j.op # "terminate"
           /\ ~(Deferred(r) \/ r.epoch = MaxEpoch)
  <2> DEFINE a == At(j, "claim", r.epoch)
  <2>1. x = [a EXCEPT !.at = now] /\ row.epoch # MaxEpoch
    BY <1>2, <1>7 DEF Reading
  <2>2. a \in Jobs /\ a.pc = "claim" /\ a.epoch = row.epoch /\ a.host = j.host /\ a.call = NoCall
    BY <1>2, AtIs, KeptTyped DEF PCs
  <2> HIDE DEF x, a
  <2>3. x \in Jobs /\ x.pc = "claim" /\ x.epoch = row.epoch /\ x.host = j.host /\ x.call = NoCall
        /\ x.at = now
    BY <1>2, <2>1, <2>2 DEF Jobs
  <2>4. ~Runner(x) /\ ~Parks(x) /\ ~PastStop(x)
    BY <2>3 DEF Runner, Parks, PastStop
  <2>5. x.epoch < MaxEpoch
    BY <1>2, <2>1, <2>3, ConstantsTyped
  <2> QED
    BY <1>1, <1>2, <2>3, <2>4, <2>5, FollowsAtRest DEF Proven
<1> QED
  BY <1>3, <1>4, <1>5, <1>6, <1>7

LEMMA FollowsInconclusive ==
  ASSUME ClaimInv, NEW j \in Jobs, Formed(j), j.host \in Hosts, j.call = NoCall
  PROVE  Follows(j, Inconclusive(j)) /\ Proven(Inconclusive(j)) /\ Blind(Inconclusive(j))
<1>1. TypeOK /\ SameClaim(row)
  BY DEF ClaimInv, TypeOK, SameClaim
<1>2. CASE j.op = "terminate"
  BY <1>1, <1>2, FollowsReading DEF Inconclusive
<1>3. CASE j.op # "terminate"
  BY <1>1, <1>3, FollowsNoJob DEF Inconclusive
<1> QED
  BY <1>2, <1>3

LEMMA FollowsLookingAgain ==
  ASSUME ClaimInv, NEW j \in Jobs, Formed(j), j.host \in Hosts, j.call = NoCall
  PROVE  Follows(j, LookingAgain(j)) /\ Proven(LookingAgain(j)) /\ Blind(LookingAgain(j))
<1>1. TypeOK /\ SameClaim(row)
  BY DEF ClaimInv, TypeOK, SameClaim
<1>2. CASE row.termination
  BY <1>1, <1>2, FollowsRecovering DEF LookingAgain
<1>3. CASE ~row.termination /\ Active(row)
  BY <1>3, FollowsInconclusive DEF LookingAgain
<1>4. CASE ~row.termination /\ ~Active(row)
  BY <1>1, <1>4, FollowsNoJob DEF LookingAgain
<1> QED
  BY <1>2, <1>3, <1>4

-----------------------------------------------------------------------------
(* Step calls.                                                              *)

\* A running call takes on a step call.
LEMMA FollowsCall ==
  ASSUME TypeOK, NEW j \in Jobs, Formed(j), j.pc = "executing", j.epoch <= row.epoch,
         NEW k \in Calls, SoundCall(k), NEW x, x = [j EXCEPT !.call = k]
  PROVE  /\ Follows(j, x) /\ Proven(x) /\ ~Parks(x) /\ x.call = k
         /\ x.pc = "executing" /\ x.epoch = j.epoch
<1>1. /\ x \in Jobs /\ x.pc = j.pc /\ x.epoch = j.epoch /\ x.host = j.host /\ x.call = k
      /\ x.renewed = j.renewed /\ x.beat = j.beat
  BY DEF Jobs
<1>2. ~Parks(x) /\ ~PastStop(x)
  BY <1>1 DEF Parks, PastStop
<1>3. Formed(x)
  BY <1>1, <1>2 DEF Formed, Runner
<1>4. Drives(j)
  BY DEF Drives, Runner
<1> QED
  BY <1>1, <1>2, <1>3, <1>4 DEF Follows, Proven

LEMMA AnsweredIs ==
  ASSUME TypeOK, NEW j \in Jobs, Formed(j), j.pc = "executing", j.epoch <= row.epoch
  PROVE  /\ Follows(j, Answered(j)) /\ Proven(Answered(j)) /\ Blind(Answered(j))
         /\ Answered(j) \in Jobs /\ Formed(Answered(j))
         /\ Answered(j).call = NoCall /\ Answered(j).pc = "executing" /\ Answered(j).epoch = j.epoch
<1> DEFINE x == Answered(j)
<1>1. x = [j EXCEPT !.call = NoCall]
  BY DEF Answered
<1> HIDE DEF x
<1>2. /\ Follows(j, x) /\ Proven(x) /\ ~Parks(x) /\ x.call = NoCall
      /\ x.pc = "executing" /\ x.epoch = j.epoch
  BY <1>1, NoCallTyped, FollowsCall
<1>3. x \in Jobs /\ Formed(x) /\ Blind(x)
  BY <1>2, NoCallTyped DEF Follows, Blind
<1> QED
  BY <1>2, <1>3 DEF x

\* A step call that goes on to a phase in which it asks for nothing.
LEMMA InPhaseIs ==
  ASSUME TypeOK, NEW j \in Jobs, Formed(j), j.pc = "executing", j.epoch <= row.epoch,
         NEW n \in Names, NEW s \in StepRows, SoundStep(s), s.state \notin Settled,
         NEW p \in {"effect", "look"}, p = "look" => s.kind = "wait" /\ s.state = "waiting",
         NEW x, x = InPhase(j, p, n, s)
  PROVE  /\ Follows(j, x) /\ Proven(x) /\ ~Parks(x)
         /\ x.call.phase = p /\ x.call.name = n /\ x.call.prior = s
<1> DEFINE k == [phase |-> p, name |-> n, prior |-> s, to |-> None, event |-> None]
<1>1. k \in Calls
  BY DEF Calls
<1>2. SoundCall(k)
  BY DEF SoundCall
<1>3. x = [j EXCEPT !.call = k]
  BY DEF InPhase
<1>4. k.phase = p /\ k.name = n /\ k.prior = s
  OBVIOUS
<1> HIDE DEF k
<1> QED
  BY <1>1, <1>2, <1>3, <1>4, FollowsCall

\* A step call that asks for a row to be written.
LEMMA WritingIs ==
  ASSUME TypeOK, NEW j \in Jobs, Formed(j), j.pc = "executing", j.epoch <= row.epoch,
         NEW n \in Names, NEW s \in StepRows, SoundStep(s), s.state \notin Settled,
         NEW to \in StepRows, SoundStep(to), to.result = None,
         NEW x, x = Writing(j, n, s, to)
  PROVE  Follows(j, x) /\ Proven(x) /\ Blind(x)
<1> DEFINE k == [phase |-> "write", name |-> n, prior |-> s, to |-> to, event |-> None]
           l == [phase |-> "write", name |-> n, prior |-> s, to |-> None, event |-> None]
           y == InPhase(j, "write", n, s)
<1>1. k \in Calls
  BY DEF Calls
<1>2. SoundCall(k)
  BY DEF SoundCall
<1>3. y = [j EXCEPT !.call = l] /\ x = [y EXCEPT !.call.to = to]
  BY DEF Writing, InPhase
<1>4. l \in Calls /\ k = [l EXCEPT !.to = to] /\ k.phase # "look"
  BY DEF Calls
<1> HIDE DEF k, l, y
<1>5. x = [j EXCEPT !.call = k]
  BY <1>1, <1>3, <1>4 DEF Jobs
<1>6. Follows(j, x) /\ Proven(x) /\ ~Parks(x) /\ x.call = k
  BY <1>1, <1>2, <1>5, FollowsCall
<1> QED
  BY <1>4, <1>6 DEF Blind

\* What becomes of a step's row.
LEMMA SettledIs ==
  ASSUME NEW s \in StepRows, NEW v \in Events \cup {None}, NEW o \in Settled
  PROVE  /\ SettledStep(s, o, v) \in StepRows
         /\ SoundStep(SettledStep(s, o, v))
         /\ SettledStep(s, o, v).result = v
         /\ SettledStep(s, o, v).state = o /\ SettledStep(s, o, v).kind = s.kind
<1> DEFINE a == [s EXCEPT !.state = o]
           b == [a EXCEPT !.result = v]
           x == SettledStep(s, o, v)
<1>1. x = [b EXCEPT !.at = 0]
  BY DEF SettledStep
<1>2. a = [s EXCEPT !.state = o] /\ b = [a EXCEPT !.result = v]
  OBVIOUS
<1>3. o \in {"complete", "errored"}
  BY DEF Settled
<1> HIDE DEF a, b, x
<1>4. a \in StepRows /\ a.state = o /\ a.kind = s.kind
  BY <1>2, <1>3 DEF StepRows
<1>5. b \in StepRows /\ b.state = o /\ b.kind = s.kind /\ b.result = v
  BY <1>2, <1>4 DEF StepRows
<1>6. x \in StepRows /\ x.state = o /\ x.kind = s.kind /\ x.result = v
  BY <1>1, <1>5 DEF StepRows
<1>7. SoundStep(x)
  BY <1>3, <1>6 DEF SoundStep, Settled
<1> QED
  BY <1>6, <1>7 DEF x

LEMMA StepBecomes ==
  ASSUME NEW s \in StepRows, SoundStep(s), s.state \notin Settled
  PROVE  /\ [s EXCEPT !.state = "pending", !.at = 0] \in StepRows
         /\ SoundStep([s EXCEPT !.state = "pending", !.at = 0])
         /\ [s EXCEPT !.state = "pending", !.at = 0].result = None
         /\ s.kind # "do" => /\ [s EXCEPT !.state = "waiting"] \in StepRows
                             /\ SoundStep([s EXCEPT !.state = "waiting"])
                             /\ [s EXCEPT !.state = "waiting"].result = None
         /\ \A v \in Events \cup {None} : \A o \in Settled :
              /\ SettledStep(s, o, v) \in StepRows
              /\ SoundStep(SettledStep(s, o, v))
              /\ SettledStep(s, o, v).result = v
<1>0. s.result = None
  BY DEF SoundStep
<1>1. /\ [s EXCEPT !.state = "pending", !.at = 0] \in StepRows
      /\ [s EXCEPT !.state = "pending", !.at = 0].result = None
  BY <1>0 DEF StepRows
<1>2. SoundStep([s EXCEPT !.state = "pending", !.at = 0])
  BY <1>0 DEF SoundStep, StepRows
<1>3. ASSUME s.kind # "do"
      PROVE  /\ [s EXCEPT !.state = "waiting"] \in StepRows
             /\ SoundStep([s EXCEPT !.state = "waiting"])
             /\ [s EXCEPT !.state = "waiting"].result = None
  BY <1>0, <1>3 DEF SoundStep, StepRows
<1>4. ASSUME NEW v \in Events \cup {None}, NEW o \in Settled
      PROVE  /\ SettledStep(s, o, v) \in StepRows
             /\ SoundStep(SettledStep(s, o, v))
             /\ SettledStep(s, o, v).result = v
  BY SettledIs
<1> QED
  BY <1>1, <1>2, <1>3, <1>4

\* do, sleep and waitForEvent with the row of their step: they park for a time only, and look
\* for events with the row they have.
LEMMA ProceedIs ==
  ASSUME TypeOK, NEW j \in Jobs, Formed(j), j.pc = "executing", j.epoch <= row.epoch,
         j.call = NoCall, NEW n \in Names, NEW s \in StepRows, SoundStep(s),
         NEW x, x = Proceed(j, n, s)
  PROVE  /\ Follows(j, x) /\ Proven(x)
         /\ x.call.phase = "look" => x.call.name = n /\ x.call.prior = s
         /\ Parks(x) => x.outcome = "sleeping"
<1> DEFINE Goal == /\ Follows(j, x) /\ Proven(x)
                   /\ x.call.phase = "look" => x.call.name = n /\ x.call.prior = s
                   /\ Parks(x) => x.outcome = "sleeping"
<1> SUFFICES Goal
  OBVIOUS
<1>a. ASSUME Follows(j, x) /\ Proven(x) /\ Blind(x)
      PROVE  Goal
  BY <1>a DEF Blind
<1>b. /\ s.kind \in {"do", "sleep", "wait"} /\ s.at \in Nat
      /\ s.state \in {"pending", "retry_wait", "waiting", "complete", "errored"}
      /\ now \in Nat
  BY EpochTyped DEF StepRows
<1>c. j.epoch # 0 /\ j.pc # "idle" /\ ~Accepted(j)
  BY NoCallTyped DEF Formed, Runner, Accepted
<1>d. ASSUME x = Parking(j, "sleeping", n, s.at)
      PROVE  Goal
  <2>1. Follows(j, x) /\ Proven(x)
    BY <1>b, <1>c, <1>d, FollowsParking
  <2>2. x.outcome = "sleeping" /\ x.call = NoCall
    BY <1>b, <1>d, ParkingIs, KeptTyped DEF Outcomes
  <2> QED
    BY <2>1, <2>2, NoCallTyped
<1> HIDE DEF Goal
<1>1. CASE s.state \in Settled
  <2>1. x = Answered(j)
    BY <1>1 DEF Proceed, Settled
  <2> QED
    BY <1>a, <2>1, AnsweredIs
<1>2. CASE s.state = "pending" /\ s.kind = "do"
  <2>1. x = InPhase(j, "effect", n, s)
    BY <1>2 DEF Proceed, Settled
  <2>2. Follows(j, x) /\ Proven(x) /\ ~Parks(x) /\ x.call.phase = "effect"
    BY <1>2, <2>1, InPhaseIs DEF Settled
  <2> QED
    BY <2>2 DEF Goal
<1>3. CASE s.state = "retry_wait"
  <2> DEFINE to == [s EXCEPT !.state = "pending", !.at = 0]
  <2>1. x = IF s.at > now THEN Parking(j, "sleeping", n, s.at) ELSE Writing(j, n, s, to)
    BY <1>3 DEF Proceed, Settled
  <2>2. to \in StepRows /\ SoundStep(to) /\ to.result = None
    BY <1>3, StepBecomes DEF Settled
  <2> HIDE DEF to
  <2>3. CASE s.at > now
    BY <1>d, <2>1, <2>3
  <2>4. CASE ~(s.at > now)
    BY <1>3, <1>a, <2>1, <2>2, <2>4, WritingIs DEF Settled
  <2> QED
    BY <2>3, <2>4
<1>4. CASE s.state \in {"pending", "waiting"} /\ s.kind = "sleep"
  <2> DEFINE to == [s EXCEPT !.state = "waiting"]
             done == SettledStep(s, "complete", None)
  <2>1. x = IF s.at > Deadline THEN Finish(j, "failed")
            ELSE IF s.at <= now THEN Writing(j, n, s, done)
            ELSE IF s.state = "pending" THEN Writing(j, n, s, to)
            ELSE Parking(j, "sleeping", n, s.at)
    BY <1>4 DEF Proceed, Settled
  <2>2. /\ to \in StepRows /\ SoundStep(to) /\ to.result = None
        /\ done \in StepRows /\ SoundStep(done) /\ done.result = None
    BY <1>4, StepBecomes DEF Settled
  <2> HIDE DEF to, done
  <2>3. CASE s.at > Deadline
    BY <1>a, <1>c, <2>1, <2>3, FollowsFinish DEF Outcomes
  <2>4. CASE ~(s.at > Deadline) /\ s.at <= now
    BY <1>4, <1>a, <2>1, <2>2, <2>4, WritingIs DEF Settled
  <2>5. CASE ~(s.at > Deadline) /\ ~(s.at <= now) /\ s.state = "pending"
    BY <1>4, <1>a, <2>1, <2>2, <2>5, WritingIs DEF Settled
  <2>6. CASE ~(s.at > Deadline) /\ ~(s.at <= now) /\ s.state # "pending"
    BY <1>d, <2>1, <2>6
  <2> QED
    BY <2>3, <2>4, <2>5, <2>6
<1>5. CASE s.state = "pending" /\ s.kind = "wait"
  <2> DEFINE to == [s EXCEPT !.state = "waiting"]
  <2>1. x = Writing(j, n, s, to)
    BY <1>5 DEF Proceed, Settled
  <2>2. to \in StepRows /\ SoundStep(to) /\ to.result = None
    BY <1>5, StepBecomes DEF Settled
  <2> HIDE DEF to
  <2> QED
    BY <1>5, <1>a, <2>1, <2>2, WritingIs DEF Settled
<1>6. CASE s.state = "waiting" /\ s.kind = "wait"
  <2>1. x = InPhase(j, "look", n, s)
    BY <1>6 DEF Proceed, Settled
  <2>2. Follows(j, x) /\ Proven(x) /\ ~Parks(x) /\ x.call.name = n /\ x.call.prior = s
    BY <1>6, <2>1, InPhaseIs DEF Settled
  <2> QED
    BY <2>2 DEF Goal
<1>7. ~(s.kind = "do" /\ s.state = "waiting")
  BY DEF SoundStep
<1> QED
  BY <1>1, <1>2, <1>3, <1>4, <1>5, <1>6, <1>7, <1>b DEF Settled

\* They go on like that after a write.
LEMMA ContinueIs ==
  ASSUME TypeOK, NEW j \in Jobs, Formed(j), j.pc = "executing", j.epoch <= row.epoch,
         j.call = NoCall, NEW n \in Names, NEW s \in StepRows, SoundStep(s),
         NEW x, x = Continue(j, n, s)
  PROVE  /\ Follows(j, x) /\ Proven(x)
         /\ x.call.phase = "look" => x.call.name = n /\ x.call.prior = s
         /\ Parks(x) => x.outcome = "sleeping"
<1>1. CASE s.kind # "wait" /\ s.state \in {"retry_wait", "waiting"}
  <2>1. x = Parking(j, "sleeping", n, s.at)
    BY <1>1 DEF Continue
  <2>2. s.at \in Nat /\ ~Accepted(j)
    BY NoCallTyped DEF StepRows, Accepted
  <2>3. Follows(j, x) /\ Proven(x)
    BY <2>1, <2>2, FollowsParking
  <2>4. x.outcome = "sleeping" /\ x.call = NoCall
    BY <2>1, <2>2, ParkingIs, KeptTyped DEF Outcomes
  <2> QED
    BY <2>3, <2>4, NoCallTyped
<1>2. CASE ~(s.kind # "wait" /\ s.state \in {"retry_wait", "waiting"})
  <2>1. x = Proceed(j, n, s)
    BY <1>2 DEF Continue
  <2> QED
    BY <2>1, ProceedIs
<1> QED
  BY <1>1, <1>2

-----------------------------------------------------------------------------
(* Steps in which no context starts or is prolonged and no claim is taken.  *)

\* A context stays as it is, loses its Host or ends.
Fades(x, y) ==
  /\ x = NoContext => y = NoContext
  /\ y.state \in {"paused", "running"} => y.state = x.state /\ y.until = x.until
  /\ y.until <= x.until
  /\ y.host # None => y.state # "none"

\* The claim of the row stays or is given up.
RowFades ==
  /\ row'.epoch = row.epoch
  /\ row'.owned => row.owned /\ row'.lease = row.lease
  /\ row'.lease <= row.lease

ContextsFade == \A e \in Epochs : Fades(context[e], context'[e])

\* What a call was or has become of it.
Moves(j, x) == x = j \/ Follows(j, x)

LEMMA MovesFacts ==
  ASSUME ClaimInv, NEW d \in Controllers, NEW x, Moves(job[d], x)
  PROVE  /\ x \in Jobs /\ Formed(x) /\ x.epoch <= row.epoch
         /\ Drives(x) => Drives(job[d]) /\ x.epoch = job[d].epoch
         /\ x.pc \in {"claimed", "open"} =>
              job[d].pc \in {"claimed", "open"} /\ x.at = job[d].at /\ x.epoch = job[d].epoch
         /\ x.pc = "opened" => x = job[d]
         /\ x.pc = "claim" => x.at <= now
         /\ x.pc = "executing" =>
              /\ job[d].pc = "executing" /\ x.epoch = job[d].epoch
              /\ x.renewed = job[d].renewed /\ x.beat = job[d].beat
<1>1. TypeOK /\ Formed(job[d]) /\ Timely(job[d])
  BY DEF ClaimInv, JobsFormed, JobsTimely
<1>2. job[d] \in Jobs
  BY <1>1, EpochTyped
<1>3. CASE x = job[d]
  BY <1>1, <1>2, <1>3 DEF Timely
<1>4. CASE Follows(job[d], x)
  BY <1>4 DEF Follows, Drives, Runner
<1> QED
  BY <1>3, <1>4 DEF Moves

LEMMA QuietKept ==
  ASSUME ClaimInv, TypeOK', now' \in {now, now + 1}, RowFades, ContextsFade,
         \A d \in Controllers : Moves(job[d], job'[d]),
         NEW e, Quiet(e)
  PROVE  Quiet(e)'
<1>1. Claimed(e)' => Claimed(e)
  BY DEF Claimed, RowFades
<1> SUFFICES ASSUME Claimed(e)', Claimed(e)
             PROVE  Quiet(e)'
  BY <1>1 DEF Quiet
<1>2. /\ e \in Epochs /\ context[e].state \in {"paused", "running"} => context[e].until <= now
      /\ \A d \in Controllers : job[d].epoch = e =>
           (job[d].pc \in {"claimed", "open"} => job[d].at <= now)
  BY DEF Quiet, Overdue
<1>3. TypeOK /\ now \in Nat /\ now' \in Nat /\ now <= now'
  BY EpochTyped DEF ClaimInv
<1>4. e \in Epochs /\ context'[e].state \in {"paused", "running"} => Overdue(e)'
  <2> SUFFICES ASSUME e \in Epochs, context'[e].state \in {"paused", "running"}
               PROVE  context'[e].until <= now'
    BY DEF Overdue
  <2>1. context'[e].state = context[e].state /\ context'[e].until = context[e].until
    BY DEF ContextsFade, Fades
  <2>2. context[e].until \in Nat
    BY <1>3 DEF TypeOK
  <2> QED
    BY <1>2, <1>3, <2>1, <2>2
<1>5. ASSUME NEW d \in Controllers, job'[d].epoch = e
      PROVE  job'[d].pc \in {"claimed", "open"} => job'[d].at <= now'
  <2>1. job'[d].pc \in {"claimed", "open"} =>
             job[d].pc \in {"claimed", "open"} /\ job'[d].at = job[d].at /\ job'[d].epoch = job[d].epoch
    BY MovesFacts
  <2>2. job[d] \in Jobs /\ job[d].at \in Nat
    BY <1>3, EpochTyped DEF Jobs
  <2> QED
    BY <1>2, <1>3, <1>5, <2>1, <2>2
<1> QED
  BY <1>4, <1>5 DEF Quiet

LEMMA FadeStep ==
  ASSUME ClaimInv, TypeOK', now' \in {now, now + 1}, RowFades, ContextsFade, CodeUnderClaim',
         \A d \in Controllers : Moves(job[d], job'[d]),
         \A d \in Controllers : Proven(job'[d]) \/ Proven(job[d])'
  PROVE  ClaimInv'
<1>1. TypeOK /\ JobsFormed /\ OneDriver /\ LeaseBounded /\ JobsTimely /\ ContextsBounded
  BY DEF ClaimInv
<1>2. /\ now \in Nat /\ now' \in Nat /\ now' >= now /\ row.lease \in Nat /\ row'.lease \in Nat
      /\ row.epoch \in Nat
  <2>1. row'.lease \in Nat
    BY DEF TypeOK, Rows
  <2> QED
    BY <1>1, <2>1, EpochTyped
<1>3. JobsFormed'
  BY MovesFacts DEF JobsFormed
<1>4. OneDriver'
  <2> SUFFICES ASSUME NEW c \in Controllers, NEW d \in Controllers,
                      job'[c].epoch = job'[d].epoch, Drives(job'[c]), Drives(job'[d])
               PROVE  c = d
    BY DEF OneDriver
  <2>1. Drives(job[c]) /\ job'[c].epoch = job[c].epoch
    BY MovesFacts
  <2>2. Drives(job[d]) /\ job'[d].epoch = job[d].epoch
    BY MovesFacts
  <2> QED
    BY <1>1, <2>1, <2>2 DEF OneDriver
<1>5. LeaseBounded'
  <2>1. row'.lease <= Deadline
    BY <1>1, <1>2, ConstantsTyped DEF LeaseBounded, RowFades
  <2>2. row'.lease <= now' + LeaseMs
    BY <1>1, <1>2, ConstantsTyped DEF LeaseBounded, RowFades
  <2> QED
    BY <1>1, <2>1, <2>2 DEF LeaseBounded, RowFades
<1>6. JobsTimely'
  <2> SUFFICES ASSUME NEW d \in Controllers
               PROVE  Timely(job[d])'
    BY DEF JobsTimely
  <2> DEFINE j == job[d]
             x == job'[d]
  <2>1. /\ j \in Jobs /\ Formed(j) /\ Timely(j)
    BY <1>1, EpochTyped DEF JobsFormed, JobsTimely
  <2>2. /\ x \in Jobs /\ Formed(x) /\ x.epoch <= row.epoch
        /\ x.pc \in {"claimed", "open"} =>
             j.pc \in {"claimed", "open"} /\ x.at = j.at /\ x.epoch = j.epoch
        /\ x.pc = "opened" => x = j
        /\ x.pc = "claim" => x.at <= now
        /\ x.pc = "executing" =>
             /\ j.pc = "executing" /\ x.epoch = j.epoch
             /\ x.renewed = j.renewed /\ x.beat = j.beat
    BY MovesFacts
  <2>3. /\ x.epoch \in 0..MaxEpoch /\ x.at \in Nat /\ x.renewed \in Nat /\ x.beat \in Nat
        /\ Runner(x) => x.epoch \in Epochs
    <3>1. x.epoch \in 0..MaxEpoch /\ x.at \in Nat /\ x.renewed \in Nat /\ x.beat \in Nat
      BY <2>2 DEF Jobs
    <3> QED
      BY <2>2, <3>1, ConstantsTyped DEF Formed, Epochs
  <2>e. PICK e : e = job'[d].epoch
    OBVIOUS
  <2>4. Claimed(e)' => Claimed(e) /\ row'.lease = row.lease
    BY DEF Claimed, RowFades
  <2>f. x.epoch = e
    BY <2>e
  <2> HIDE DEF x, j
  <2>5. ASSUME x.pc \in {"claimed", "open"}
        PROVE  /\ context'[x.epoch] = NoContext
               /\ x.at <= Deadline
               /\ Claimed(e)' => x.at <= row'.lease
    <3>1. x.epoch \in Epochs
      BY <2>3, <2>5 DEF Runner
    <3>2. /\ context[x.epoch] = NoContext /\ x.at <= Deadline
          /\ Claimed(x.epoch) => x.at <= row.lease
      BY <2>1, <2>2, <2>5 DEF Timely
    <3> QED
      BY <2>4, <2>f, <3>1, <3>2 DEF ContextsFade, Fades
  <2>7. ASSUME x.pc = "executing"
        PROVE  /\ x.renewed <= Deadline
               /\ Claimed(e)' => /\ x.renewed <= row'.lease
                                 /\ x.renewed = 0 => row'.lease <= x.beat + LeaseMs
    BY <2>1, <2>2, <2>4, <2>7, <2>f DEF Timely
  <2>8. x.epoch <= row'.epoch /\ (x.pc = "claim" => x.at <= now')
    BY <1>2, <2>2, <2>3 DEF RowFades
  <2> QED
    BY <2>5, <2>7, <2>8, <2>e DEF Timely, x
<1>7. ContextsBounded'
  <2> SUFFICES ASSUME NEW e \in Epochs
               PROVE  /\ e > row'.epoch => context'[e] = NoContext
                      /\ context'[e].host # None => context'[e].state # "none"
                      /\ context'[e].until <= Deadline
                      /\ context'[e].state \in {"paused", "running"} /\ Claimed(e)' =>
                           context'[e].until <= row'.lease
    BY DEF ContextsBounded
  <2>1. /\ e > row.epoch => context[e] = NoContext
        /\ context[e].until <= Deadline
        /\ context[e].state \in {"paused", "running"} /\ Claimed(e) => context[e].until <= row.lease
    BY <1>1 DEF ContextsBounded
  <2>2. Fades(context[e], context'[e])
    BY DEF ContextsFade
  <2>3. context[e].until \in Nat /\ context'[e].until \in Nat
    <3>1. context[e].until \in Nat
      BY <1>1 DEF TypeOK
    <3>2. context'[e].until \in Nat
      BY DEF TypeOK
    <3> QED
      BY <3>1, <3>2
  <2>4. e > row'.epoch => context'[e] = NoContext
    BY <2>1, <2>2 DEF Fades, RowFades
  <2>5. context'[e].host # None => context'[e].state # "none"
    BY <2>2 DEF Fades
  <2>6. context'[e].until <= Deadline
    BY <2>1, <2>2, <2>3, ConstantsTyped DEF Fades
  <2>8. context'[e].state \in {"paused", "running"} /\ Claimed(e)' => context'[e].until <= row'.lease
    BY <2>1, <2>2 DEF Fades, Claimed, RowFades
  <2> QED
    BY <2>4, <2>5, <2>6, <2>8
<1>8. StopsProved'
  <2> SUFFICES ASSUME NEW d \in Controllers
               PROVE  Proven(job[d])'
    BY DEF StopsProved, Proven, PastStop
  <2> SUFFICES ASSUME Proven(job'[d]), PastStop(job'[d])
               PROVE  Proven(job[d])'
    BY DEF Proven
  <2>1. PICK e : e = job'[d].epoch
    OBVIOUS
  <2>2. Quiet(e)
    BY <2>1 DEF Proven
  <2>3. Quiet(e)'
    BY <2>2, QuietKept
  <2> QED
    BY <2>1, <2>3 DEF Proven
<1> QED
  BY <1>3, <1>4, <1>5, <1>6, <1>7, <1>8 DEF ClaimInv

-----------------------------------------------------------------------------
(* Claims, contexts that open, start or are prolonged, and renewals.        *)

\* One call has become x.
LEMMA BecomeIs ==
  ASSUME TypeOK, NEW c \in Controllers, NEW x, Become(c, x)
  PROVE  \A d \in Controllers : job'[d] = IF d = c THEN x ELSE job[d]
<1>1. job \in [Controllers -> Jobs]
  BY DEF TypeOK, Jobs
<1>2. job' = [job EXCEPT ![c] = x]
  BY DEF Become
<1> QED
  BY <1>1, <1>2

LEMMA NextBeatIs ==
  ASSUME TypeOK
  PROVE  NextBeat \in Nat /\ NextBeat >= now
<1>1. now \in Nat /\ LeaseMs \in Nat
  BY EpochTyped, ConstantsTyped
<1>2. LeaseMs \div 2 \in Nat
  BY <1>1
<1> QED
  BY <1>1, <1>2 DEF NextBeat

\* The driver of an epoch keeps it.
LEMMA DriverKept ==
  ASSUME TypeOK, OneDriver, NEW c \in Controllers, NEW x, Become(c, x),
         Drives(x) => Drives(job[c]) /\ x.epoch = job[c].epoch
  PROVE  OneDriver'
<1>1. \A d \in Controllers : job'[d] = IF d = c THEN x ELSE job[d]
  BY BecomeIs
<1>2. \A d \in Controllers : Drives(job'[d]) => Drives(job[d]) /\ job'[d].epoch = job[d].epoch
  BY <1>1
<1> SUFFICES ASSUME NEW a \in Controllers, NEW b \in Controllers,
                    job'[a].epoch = job'[b].epoch, Drives(job'[a]), Drives(job'[b])
             PROVE  a = b
  BY DEF OneDriver
<1>3. job[a].epoch = job[b].epoch /\ Drives(job[a]) /\ Drives(job[b])
  BY <1>2
<1> QED
  BY <1>3 DEF OneDriver

LEMMA FormedKept ==
  ASSUME TypeOK, JobsFormed, NEW c \in Controllers, NEW x, Become(c, x), Formed(x)
  PROVE  JobsFormed'
BY BecomeIs DEF JobsFormed

\* The claim is taken: whatever still runs is overdue, for the lease of an earlier claim is over.
LEMMA ClaimKeeps ==
  ASSUME ClaimInv, TypeOK', NEW c \in Controllers, NEW x, NEW until, NEW e, Become(c, x),
         job[c].pc = "claim", until = Least(Deadline, job[c].at + LeaseMs),
         row.epoch = job[c].epoch, row.owned => row.lease <= job[c].at,
         e = row.epoch + 1,
         row'.epoch = e, row'.owned = TRUE, row'.lease = until,
         x \in Jobs, x.pc = "claimed", x.epoch = e, x.at = until, x.host = job[c].host,
         x.call = NoCall,
         UNCHANGED <<now, context>>
  PROVE  ClaimInv'
<1>1. TypeOK /\ JobsFormed /\ OneDriver /\ LeaseBounded /\ JobsTimely /\ ContextsBounded /\ CodeUnderClaim
  BY DEF ClaimInv
<1>2. /\ now \in Nat /\ row.lease \in Nat /\ row.epoch \in Nat /\ LeaseMs \in Nat /\ Deadline \in Nat
      /\ job[c] \in Jobs /\ job[c].at \in Nat /\ Formed(job[c]) /\ Timely(job[c])
  BY <1>1, EpochTyped, ConstantsTyped DEF JobsFormed, JobsTimely, Jobs
<1>3. until \in Nat /\ until <= Deadline /\ until <= now + LeaseMs
  BY <1>2 DEF Least, Timely
<1>4. \A d \in Controllers : job'[d] = IF d = c THEN x ELSE job[d]
  BY <1>1, BecomeIs
<1>5. \A d \in Controllers : job[d].epoch \in Nat /\ job[d].epoch < e
  <2> SUFFICES ASSUME NEW d \in Controllers
               PROVE  job[d].epoch \in Nat /\ job[d].epoch < e
    OBVIOUS
  <2>1. job[d].epoch \in Nat /\ job[d].epoch <= row.epoch
    BY <1>1, EpochTyped, ConstantsTyped DEF JobsTimely, Timely
  <2> QED
    BY <1>2, <2>1
<1>6. e \in Epochs /\ context[e] = NoContext
  <2>1. e \in Epochs
    BY <1>2, ConstantsTyped DEF Formed, Epochs
  <2> QED
    BY <1>1, <1>2, <2>1 DEF ContextsBounded
<1>7. \A i : Claimed(i)' <=> i = e
  BY DEF Claimed
<1>8. \A i \in Epochs : Executes(i) => Overdue(i)
  <2> SUFFICES ASSUME NEW i \in Epochs, Executes(i), ~Overdue(i)
               PROVE  FALSE
    OBVIOUS
  <2>1. Claimed(i) /\ context[i].until <= row.lease
    BY <1>1 DEF CodeUnderClaim, Executes, ContextsBounded
  <2>2. row.lease <= now
    BY <1>2, <2>1 DEF Claimed, Timely
  <2>3. context[i].until \in Nat
    BY <1>1 DEF TypeOK
  <2> QED
    BY <1>2, <2>1, <2>2, <2>3 DEF Overdue
<1>9. JobsFormed'
  <2>1. Formed(x)
    BY <1>2, NoCallTyped DEF Formed, Runner, Parks
  <2> QED
    BY <1>1, <2>1, FormedKept
<1>10. OneDriver'
  <2> SUFFICES ASSUME NEW a \in Controllers, NEW b \in Controllers,
                      job'[a].epoch = job'[b].epoch, Drives(job'[a]), Drives(job'[b])
               PROVE  a = b
    BY DEF OneDriver
  <2>1. CASE a = c \/ b = c
    BY <1>4, <1>5, <2>1
  <2>2. CASE a # c /\ b # c
    BY <1>1, <1>4, <2>2 DEF OneDriver
  <2> QED
    BY <2>1, <2>2
<1>11. LeaseBounded'
  BY <1>2, <1>3 DEF LeaseBounded
<1>12. JobsTimely'
  <2> SUFFICES ASSUME NEW d \in Controllers
               PROVE  Timely(job[d])'
    BY DEF JobsTimely
  <2>1. CASE d = c
    <3>1. job'[d] = x
      BY <1>4, <2>1
    <3>2. x.epoch <= row'.epoch
      BY <1>2
    <3> QED
      BY <1>2, <1>3, <1>6, <3>1, <3>2 DEF Timely
  <2>2. CASE d # c
    <3>1. job'[d] = job[d] /\ Timely(job[d])
      BY <1>1, <1>4, <2>2 DEF JobsTimely
    <3>2. job[d].epoch <= row'.epoch /\ ~Claimed(job[d].epoch)'
      BY <1>2, <1>5, <1>7, <3>1
    <3> QED
      BY <3>1, <3>2 DEF Timely
  <2> QED
    BY <2>1, <2>2
<1>13. ContextsBounded'
  <2>1. NoContext.state = "none"
    BY DEF NoContext
  <2> QED
    BY <1>1, <1>2, <1>6, <1>7, <2>1 DEF ContextsBounded, Epochs
<1>14. StopsProved'
  <2> SUFFICES ASSUME NEW d \in Controllers, PastStop(job'[d])
               PROVE  Quiet(job[d].epoch)'
    BY DEF StopsProved, PastStop
  <2>1. d # c /\ job'[d] = job[d]
    BY <1>4 DEF PastStop
  <2> QED
    BY <1>5, <1>7, <2>1 DEF Quiet
<1>15. CodeUnderClaim'
  BY <1>8 DEF CodeUnderClaim, Executes, Overdue
<1> QED
  BY <1>9, <1>10, <1>11, <1>12, <1>13, <1>14, <1>15 DEF ClaimInv

\* A context is registered, and its driver goes on or gives up.
LEMMA RegisterKeeps ==
  ASSUME ClaimInv, TypeOK', NEW c \in Controllers, NEW x, Become(c, x), job[c].pc = "open",
         context' = [context EXCEPT ![job[c].epoch] = Registered(job[c])],
         x \in Jobs, Formed(x), x.epoch = job[c].epoch,
         \/ x.pc = "opened" /\ job[c].at > now
         \/ x.pc = "stop",
         UNCHANGED <<now, row>>
  PROVE  ClaimInv'
<1> DEFINE e == job[c].epoch
<1>1. TypeOK /\ JobsFormed /\ OneDriver /\ LeaseBounded /\ JobsTimely /\ ContextsBounded /\ CodeUnderClaim
      /\ StopsProved
  BY DEF ClaimInv
<1>2. /\ now \in Nat /\ row.lease \in Nat /\ row.epoch \in Nat
      /\ job[c] \in Jobs /\ job[c].at \in Nat /\ Formed(job[c]) /\ Timely(job[c])
      /\ e \in 0..MaxEpoch
  BY <1>1, EpochTyped, ConstantsTyped DEF JobsFormed, JobsTimely, Jobs
<1>3. e \in Epochs /\ e <= row.epoch
  BY <1>2, ConstantsTyped DEF Formed, Runner, Epochs, Timely
<1>4. \A d \in Controllers : job'[d] = IF d = c THEN x ELSE job[d]
  BY <1>1, BecomeIs
<1>5. Drives(job[c])
  BY DEF Drives, Runner
<1>6. \A d \in Controllers : job[d].epoch = e /\ Runner(job[d]) => d = c
  BY <1>1, <1>5 DEF OneDriver, Drives
<1>7. /\ context'[e] = [state |-> "paused", until |-> job[c].at, host |-> job[c].host]
      /\ \A i \in Epochs \ {e} : context'[i] = context[i]
  BY <1>1, <1>3 DEF TypeOK, Registered
<1>8. \A i : Claimed(i)' <=> Claimed(i)
  BY DEF Claimed
<1> HIDE DEF e
<1>9. JobsFormed'
  BY <1>1, FormedKept
<1>10. OneDriver'
  BY <1>1, <1>5, DriverKept
<1>11. LeaseBounded'
  BY <1>1 DEF LeaseBounded
<1>12. JobsTimely'
  <2> SUFFICES ASSUME NEW d \in Controllers
               PROVE  Timely(job[d])'
    BY DEF JobsTimely
  <2>1. CASE d = c
    <3>1. job'[d] = x
      BY <1>4, <2>1
    <3> QED
      BY <1>3, <1>7, <3>1 DEF Timely, e
  <2>2. CASE d # c
    <3>1. job'[d] = job[d] /\ Timely(job[d]) /\ job[d] \in Jobs /\ Formed(job[d])
      BY <1>1, <1>4, <2>2, EpochTyped DEF JobsTimely, JobsFormed
    <3>2. ASSUME Runner(job[d])
          PROVE  context'[job[d].epoch] = context[job[d].epoch]
      <4>1. job[d].epoch # e
        BY <1>6, <2>2, <3>2
      <4>2. job[d].epoch \in Epochs
        BY <3>1, <3>2, ConstantsTyped DEF Formed, Jobs, Epochs
      <4> QED
        BY <1>7, <4>1, <4>2
    <3>3. /\ job[d].pc \in {"claimed", "open"} => context'[job[d].epoch] = NoContext
          /\ job[d].pc = "opened" => context'[job[d].epoch] = context[job[d].epoch]
      BY <3>1, <3>2 DEF Runner, Timely
    <3> QED
      BY <1>8, <3>1, <3>3 DEF Timely
  <2> QED
    BY <2>1, <2>2
<1>13. ContextsBounded'
  <2> SUFFICES ASSUME NEW i \in Epochs
               PROVE  /\ i > row'.epoch => context'[i] = NoContext
                      /\ context'[i].host # None => context'[i].state # "none"
                      /\ context'[i].until <= Deadline
                      /\ context'[i].state \in {"paused", "running"} /\ Claimed(i)' =>
                           context'[i].until <= row'.lease
    BY DEF ContextsBounded
  <2>1. CASE i = e
    <3>1. ~(i > row'.epoch)
      BY <1>2, <1>3, <2>1
    <3>2. /\ context'[i].state = "paused" /\ context'[i].until = job[c].at
      BY <1>7, <2>1
    <3>3. job[c].at <= Deadline /\ (Claimed(e) => job[c].at <= row.lease)
      BY <1>2 DEF Timely, e
    <3> QED
      BY <1>8, <2>1, <3>1, <3>2, <3>3
  <2>2. CASE i # e
    BY <1>1, <1>7, <1>8, <2>2 DEF ContextsBounded
  <2> QED
    BY <2>1, <2>2
<1>14. StopsProved'
  <2> SUFFICES ASSUME NEW d \in Controllers, PastStop(job'[d])
               PROVE  Quiet(job[d].epoch)'
    BY DEF StopsProved, PastStop
  <2>1. d # c /\ job'[d] = job[d] /\ Quiet(job[d].epoch)
    BY <1>1, <1>4 DEF PastStop, StopsProved
  <2>2. PICK i : i = job[d].epoch
    OBVIOUS
  <2> SUFFICES ASSUME Claimed(i)', Claimed(i), Quiet(i)
               PROVE  Quiet(i)'
    BY <1>8, <2>1, <2>2 DEF Quiet
  <2>3. /\ i \in Epochs /\ context[i].state \in {"paused", "running"} => context[i].until <= now
        /\ \A b \in Controllers : job[b].epoch = i =>
             (job[b].pc \in {"claimed", "open"} => job[b].at <= now)
    BY DEF Quiet, Overdue
  <2>4. ASSUME i \in Epochs, context'[i].state \in {"paused", "running"}
        PROVE  Overdue(i)'
    <3>1. CASE i = e
      <4>1. job[c].at <= now
        BY <2>3, <3>1 DEF e
      <4> QED
        BY <1>7, <3>1, <4>1 DEF Overdue
    <3>2. CASE i # e
      BY <1>7, <2>3, <2>4, <3>2 DEF Overdue
    <3> QED
      BY <3>1, <3>2
  <2>5. ASSUME NEW b \in Controllers, job'[b].epoch = i
        PROVE  job'[b].pc \in {"claimed", "open"} => job'[b].at <= now'
    BY <1>4, <2>3, <2>5
  <2> QED
    BY <2>4, <2>5 DEF Quiet
<1>15. CodeUnderClaim'
  <2> SUFFICES ASSUME NEW i \in Epochs, context'[i].state = "running"
               PROVE  (Claimed(i)' /\ row'.status = "running") \/ Overdue(i)'
    BY DEF CodeUnderClaim, Executes
  <2>1. context'[i] = context[i]
    BY <1>7
  <2> QED
    BY <1>1, <1>8, <2>1 DEF CodeUnderClaim, Executes, Overdue
<1> QED
  BY <1>9, <1>10, <1>11, <1>12, <1>13, <1>14, <1>15 DEF ClaimInv

\* The application starts, or its context is prolonged to the renewed lease.
LEMMA RunKeeps ==
  ASSUME ClaimInv, TypeOK', NEW c \in Controllers, NEW x, NEW y, NEW e, Become(c, x),
         e = job[c].epoch, Claimed(e), row.status = "running", ~Overdue(e),
         \/ job[c].pc = "opened" /\ context[e].state = "paused"
         \/ job[c].pc = "executing" /\ context[e].state = "running",
         context' = [context EXCEPT ![e] = y],
         y.state = "running", y.until <= Deadline, y.until <= row.lease,
         x \in Jobs, Formed(x), x.epoch = e, x.pc = "executing", x.renewed = 0, x.beat >= now,
         UNCHANGED <<now, row>>
  PROVE  ClaimInv'
<1>1. TypeOK /\ JobsFormed /\ OneDriver /\ LeaseBounded /\ JobsTimely /\ ContextsBounded /\ CodeUnderClaim
      /\ StopsProved
  BY DEF ClaimInv
<1>2. /\ now \in Nat /\ row.lease \in Nat /\ row.epoch \in Nat
      /\ job[c] \in Jobs /\ Formed(job[c]) /\ Timely(job[c])
      /\ e \in 0..MaxEpoch /\ x.beat \in Nat /\ Deadline \in Nat /\ LeaseMs \in Nat
  BY <1>1, EpochTyped, ConstantsTyped DEF JobsFormed, JobsTimely, Jobs
<1>3. e \in Epochs /\ e <= row.epoch
  BY <1>2, ConstantsTyped DEF Formed, Runner, Epochs, Timely
<1>4. \A d \in Controllers : job'[d] = IF d = c THEN x ELSE job[d]
  BY <1>1, BecomeIs
<1>5. Drives(job[c])
  BY DEF Drives, Runner
<1>6. \A d \in Controllers : job[d].epoch = e /\ Runner(job[d]) => d = c
  BY <1>1, <1>5 DEF OneDriver, Drives
<1>7. context'[e] = y /\ \A i \in Epochs \ {e} : context'[i] = context[i]
  BY <1>1, <1>3 DEF TypeOK
<1>8. \A i : Claimed(i)' <=> Claimed(i)
  BY DEF Claimed
<1>9. JobsFormed'
  BY <1>1, FormedKept
<1>10. OneDriver'
  BY <1>1, <1>5, DriverKept
<1>11. LeaseBounded'
  BY <1>1 DEF LeaseBounded
<1>12. JobsTimely'
  <2> SUFFICES ASSUME NEW d \in Controllers
               PROVE  Timely(job[d])'
    BY DEF JobsTimely
  <2>1. CASE d = c
    <3>1. job'[d] = x
      BY <1>4, <2>1
    <3>2. row.lease <= x.beat + LeaseMs
      BY <1>1, <1>2 DEF LeaseBounded
    <3> QED
      BY <1>2, <1>3, <3>1, <3>2 DEF Timely
  <2>2. CASE d # c
    <3>1. job'[d] = job[d] /\ Timely(job[d]) /\ job[d] \in Jobs /\ Formed(job[d])
      BY <1>1, <1>4, <2>2, EpochTyped DEF JobsTimely, JobsFormed
    <3>2. ASSUME Runner(job[d])
          PROVE  context'[job[d].epoch] = context[job[d].epoch]
      <4>1. job[d].epoch # e
        BY <1>6, <2>2, <3>2
      <4>2. job[d].epoch \in Epochs
        BY <3>1, <3>2, ConstantsTyped DEF Formed, Jobs, Epochs
      <4> QED
        BY <1>7, <4>1, <4>2
    <3>3. /\ job[d].pc \in {"claimed", "open"} => context'[job[d].epoch] = NoContext
          /\ job[d].pc = "opened" => context'[job[d].epoch] = context[job[d].epoch]
      BY <3>1, <3>2 DEF Runner, Timely
    <3> QED
      BY <1>8, <3>1, <3>3 DEF Timely
  <2> QED
    BY <2>1, <2>2
<1>13. ContextsBounded'
  <2> SUFFICES ASSUME NEW i \in Epochs
               PROVE  /\ i > row'.epoch => context'[i] = NoContext
                      /\ context'[i].host # None => context'[i].state # "none"
                      /\ context'[i].until <= Deadline
                      /\ context'[i].state \in {"paused", "running"} /\ Claimed(i)' =>
                           context'[i].until <= row'.lease
    BY DEF ContextsBounded
  <2>1. CASE i = e
    <3>1. ~(i > row'.epoch)
      BY <1>2, <1>3, <2>1
    <3> QED
      BY <1>7, <2>1, <3>1
  <2>2. CASE i # e
    BY <1>1, <1>7, <1>8, <2>2 DEF ContextsBounded
  <2> QED
    BY <2>1, <2>2
<1>14. StopsProved'
  <2> SUFFICES ASSUME NEW d \in Controllers, PastStop(job'[d])
               PROVE  Quiet(job[d].epoch)'
    BY DEF StopsProved, PastStop
  <2>1. d # c /\ job'[d] = job[d] /\ Quiet(job[d].epoch)
    BY <1>1, <1>4 DEF PastStop, StopsProved
  <2>2. ~Quiet(e)
    BY <1>3 DEF Quiet
  <2>3. ~Claimed(job[d].epoch)
    BY <2>1, <2>2 DEF Claimed
  <2> QED
    BY <1>8, <2>1, <2>3 DEF Quiet
<1>15. CodeUnderClaim'
  <2> SUFFICES ASSUME NEW i \in Epochs, context'[i].state = "running"
               PROVE  (Claimed(i)' /\ row'.status = "running") \/ Overdue(i)'
    BY DEF CodeUnderClaim, Executes
  <2> QED
    BY <1>1, <1>7, <1>8 DEF CodeUnderClaim, Executes, Overdue
<1> QED
  BY <1>9, <1>10, <1>11, <1>12, <1>13, <1>14, <1>15 DEF ClaimInv

\* The lease is renewed: it never gets shorter, for the instant was read after the beat.
LEMMA RenewKeeps ==
  ASSUME ClaimInv, TypeOK', NEW c \in Controllers, NEW x, NEW t \in Instants, NEW until, Become(c, x),
         job[c].pc = "executing", job[c].renewed = 0,
         t >= Least(Deadline, job[c].beat), ~(t >= Deadline),
         until = Least(Deadline, t + LeaseMs), Runnable(job[c].epoch, t),
         row' = [row EXCEPT !.lease = until], x = [job[c] EXCEPT !.renewed = until],
         UNCHANGED <<now, context>>
  PROVE  ClaimInv'
<1> DEFINE j == job[c]
           e == job[c].epoch
<1>1. TypeOK /\ JobsFormed /\ OneDriver /\ LeaseBounded /\ JobsTimely /\ ContextsBounded /\ CodeUnderClaim
      /\ StopsProved
  BY DEF ClaimInv
<1>2. /\ now \in Nat /\ row.lease \in Nat /\ row.epoch \in Nat
      /\ j \in Jobs /\ Formed(j) /\ Timely(j) /\ j.beat \in Nat
      /\ e \in 0..MaxEpoch /\ Deadline \in Nat /\ LeaseMs \in Nat
  BY <1>1, EpochTyped, ConstantsTyped DEF JobsFormed, JobsTimely, Jobs
<1>3. t \in Nat /\ t <= now
  BY <1>2 DEF Instants
<1>4. until \in Nat /\ until <= Deadline /\ until <= now + LeaseMs
  BY <1>2, <1>3 DEF Least
<1>5. Claimed(e)
  BY DEF Runnable
<1>6. row.lease <= until
  <2>1. row.lease <= Deadline /\ row.lease <= j.beat + LeaseMs
    BY <1>1, <1>2, <1>5 DEF LeaseBounded, Timely
  <2>2. t >= j.beat
    BY <1>2, <1>3 DEF Least
  <2> QED
    BY <1>2, <1>3, <2>1, <2>2 DEF Least
<1>7. /\ row'.epoch = row.epoch /\ row'.owned = row.owned /\ row'.status = row.status
      /\ row'.lease = until
  BY <1>1 DEF TypeOK, Rows
<1>8. /\ x \in Jobs /\ x.pc = j.pc /\ x.epoch = j.epoch /\ x.host = j.host /\ x.call = j.call
      /\ x.next = j.next /\ x.renewed = until
  <2> HIDE DEF j
  <2>1. x = [j EXCEPT !.renewed = until]
    BY DEF j
  <2> QED
    BY <1>2, <1>4, <2>1 DEF Jobs
<1>9. \A d \in Controllers : job'[d] = IF d = c THEN x ELSE job[d]
  BY <1>1, BecomeIs
<1>10. Drives(j)
  BY DEF Drives, Runner
<1>11. \A d \in Controllers : job[d].epoch = e /\ Runner(job[d]) => d = c
  BY <1>1, <1>10 DEF OneDriver, Drives
<1>12. \A i : Claimed(i)' <=> Claimed(i)
  BY <1>7 DEF Claimed
<1>13. JobsFormed'
  <2>1. Formed(x)
    BY <1>2, <1>8 DEF Formed, Runner, Parks
  <2> QED
    BY <1>1, <2>1, FormedKept
<1>14. OneDriver'
  BY <1>1, <1>8, <1>10, DriverKept
<1>15. LeaseBounded'
  BY <1>1, <1>4, <1>7 DEF LeaseBounded
<1>16. JobsTimely'
  <2> SUFFICES ASSUME NEW d \in Controllers
               PROVE  Timely(job[d])'
    BY DEF JobsTimely
  <2>1. CASE d = c
    <3>1. job'[d] = x
      BY <1>9, <2>1
    <3>2. until # 0
      BY <1>2, <1>3, ConstantsTyped DEF Least
    <3> QED
      BY <1>2, <1>4, <1>7, <1>8, <3>1, <3>2 DEF Timely
  <2>2. CASE d # c
    <3>1. job'[d] = job[d] /\ Timely(job[d])
      BY <1>1, <1>9, <2>2 DEF JobsTimely
    <3>2. Runner(job[d]) => ~Claimed(job[d].epoch)
      BY <1>5, <1>11, <2>2 DEF Claimed
    <3> QED
      BY <1>7, <1>12, <3>1, <3>2 DEF Timely, Runner
  <2> QED
    BY <2>1, <2>2
<1>17. ContextsBounded'
  <2> SUFFICES ASSUME NEW i \in Epochs
               PROVE  /\ i > row'.epoch => context'[i] = NoContext
                      /\ context'[i].host # None => context'[i].state # "none"
                      /\ context'[i].until <= Deadline
                      /\ context'[i].state \in {"paused", "running"} /\ Claimed(i)' =>
                           context'[i].until <= row'.lease
    BY DEF ContextsBounded
  <2>1. context[i].until \in Nat
    BY <1>1 DEF TypeOK
  <2>2. context[i].state \in {"paused", "running"} /\ Claimed(i) => context[i].until <= row'.lease
    BY <1>1, <1>2, <1>4, <1>6, <1>7, <2>1 DEF ContextsBounded
  <2> QED
    BY <1>1, <1>7, <1>12, <2>2 DEF ContextsBounded
<1>18. StopsProved'
  <2> SUFFICES ASSUME NEW d \in Controllers, PastStop(job'[d])
               PROVE  Quiet(job[d].epoch)'
    BY DEF StopsProved, PastStop
  <2>1. d # c /\ job'[d] = job[d] /\ Quiet(job[d].epoch)
    BY <1>1, <1>8, <1>9 DEF PastStop, StopsProved
  <2>2. \A b \in Controllers : \/ job'[b] = job[b]
                               \/ job'[b].pc = "executing"
    BY <1>8, <1>9
  <2> QED
    BY <1>12, <2>1, <2>2 DEF Quiet, Overdue
<1>19. CodeUnderClaim'
  BY <1>1, <1>7, <1>12 DEF CodeUnderClaim, Executes, Overdue
<1> QED
  BY <1>13, <1>14, <1>15, <1>16, <1>17, <1>18, <1>19 DEF ClaimInv

-----------------------------------------------------------------------------
(* What each operation makes of its call.                                   *)

\* The call goes somewhere it may go, and knows what it must know of a wait there.
Sound(j, x) == Follows(j, x) /\ Proven(x) /\ (Blind(x) \/ Looked(x))
CallMoves(c) == \E x : Become(c, x) /\ Sound(job[c], x)

LEMMA CallFacts ==
  ASSUME ClaimInv, NEW c \in Controllers
  PROVE  /\ TypeOK /\ job[c] \in Jobs /\ Formed(job[c]) /\ Timely(job[c])
         /\ job[c].epoch \in 0..MaxEpoch /\ job[c].epoch <= row.epoch
         /\ job[c].pc # "idle" => job[c].host \in Hosts
         /\ job[c].pc \notin {"executing", "stop", "terminalize", "release"} => job[c].call = NoCall
         /\ job[c].pc \in {"claimed", "open", "opened", "executing", "stop", "park"} => job[c].epoch # 0
         /\ PastStop(job[c]) => Quiet(job[c].epoch)
<1>1. /\ TypeOK /\ job[c] \in Jobs /\ Formed(job[c]) /\ Timely(job[c])
      /\ job[c].epoch \in 0..MaxEpoch /\ StopsProved
  BY EpochTyped DEF ClaimInv, JobsFormed, JobsTimely
<1>2. job[c].epoch <= row.epoch
  BY <1>1 DEF Timely
<1>3. /\ job[c].pc # "idle" => job[c].host \in Hosts
      /\ job[c].pc \notin {"executing", "stop", "terminalize", "release"} => job[c].call = NoCall
      /\ job[c].pc \in {"claimed", "open", "opened", "executing", "stop", "park"} => job[c].epoch # 0
  BY <1>1 DEF Formed, Runner
<1> QED
  BY <1>1, <1>2, <1>3 DEF StopsProved, PastStop

LEMMA MovesToNoJob ==
  ASSUME ClaimInv, NEW c \in Controllers, Become(c, NoJob)
  PROVE  CallMoves(c)
BY CallFacts, FollowsNoJob DEF CallMoves, Sound

LEMMA MovesToGiveUp ==
  ASSUME ClaimInv, NEW c \in Controllers, Become(c, GiveUp(job[c])),
         job[c].pc \in {"claimed", "open", "opened", "executing", "stop", "park"}
  PROVE  CallMoves(c)
BY CallFacts, FollowsGiveUp DEF CallMoves, Sound

LEMMA MovesToFinish ==
  ASSUME ClaimInv, NEW c \in Controllers, NEW o \in Outcomes, Become(c, Finish(job[c], o)),
         job[c].pc \in {"executing", "stop"}
  PROVE  CallMoves(c)
BY CallFacts, FollowsFinish DEF CallMoves, Sound

LEMMA MovesReread ==
  ASSUME ClaimInv, NEW c \in Controllers, Reread(c)
  PROVE  CallMoves(c)
<1>1. job[c].pc = "reread" /\ Become(c, IF row.termination THEN Recovering(job[c], row) ELSE NoJob)
  BY DEF Reread
<1>2. SameClaim(row)
  BY CallFacts DEF SameClaim, TypeOK
<1>3. CASE row.termination
  BY <1>1, <1>2, <1>3, CallFacts, FollowsRecovering DEF CallMoves, Sound
<1>4. CASE ~row.termination
  BY <1>1, <1>4, MovesToNoJob
<1> QED
  BY <1>3, <1>4

LEMMA MovesBeforeOpen ==
  ASSUME ClaimInv, NEW c \in Controllers, job[c].pc = "claimed", NEW pc \in {"open", "reread"}, To(c, pc)
  PROVE  CallMoves(c)
<1> DEFINE j == job[c]
           x == [j EXCEPT !.pc = pc]
<1>1. /\ j \in Jobs /\ Formed(j) /\ j.epoch <= row.epoch /\ j.host \in Hosts /\ j.call = NoCall
      /\ j.pc = "claimed" /\ TypeOK /\ j.epoch # 0
  BY CallFacts
<1>2. Become(c, x) /\ x = [j EXCEPT !.pc = pc]
  BY DEF To
<1> HIDE DEF x, j
<1>3. x \in Jobs /\ x.pc = pc /\ x.epoch = j.epoch /\ x.host = j.host /\ x.call = j.call /\ x.at = j.at
  BY <1>1, <1>2 DEF Jobs
<1>4. CASE pc = "open"
  <2>1. Formed(x)
    BY <1>1, <1>3, <1>4, NoCallTyped DEF Formed, Runner, Parks
  <2>2. Drives(j)
    BY <1>1 DEF Drives, Runner
  <2>3. Follows(j, x) /\ Proven(x) /\ Blind(x)
    BY <1>1, <1>3, <1>4, <2>1, <2>2, NoCallTyped DEF Follows, Proven, PastStop, Blind, Parks
  <2> QED
    BY <1>2, <2>3 DEF CallMoves, Sound, j
<1>5. CASE pc = "reread"
  <2>1. ~Runner(x) /\ ~Parks(x) /\ ~PastStop(x)
    BY <1>3, <1>5 DEF Runner, Parks, PastStop
  <2>2. Follows(j, x) /\ Blind(x)
    BY <1>1, <1>3, <1>5, <2>1, FollowsAtRest
  <2> QED
    BY <1>2, <2>1, <2>2 DEF CallMoves, Sound, Proven, j
<1> QED
  BY <1>4, <1>5

\* The runs that only end their execution.
LEMMA MovesRunRejects ==
  ASSUME ClaimInv, NEW c \in Controllers, RunRejects(c) \/ Return(c) \/ Mismatch(c) \/ StopFails(c)
  PROVE  CallMoves(c)
<1>1. CASE RunRejects(c)
  BY <1>1, MovesToGiveUp DEF RunRejects
<1>2. CASE Return(c)
  <2>1. PICK o \in {"complete", "failed"} : Become(c, Finish(job[c], o))
    BY <1>2 DEF Return
  <2>2. job[c].pc = "executing"
    BY <1>2 DEF Return
  <2> QED
    BY <2>1, <2>2, MovesToFinish DEF Outcomes
<1>3. CASE Mismatch(c)
  <2>1. job[c].pc \in {"executing", "stop"} /\ Become(c, Finish(job[c], "failed"))
    BY <1>3 DEF Mismatch
  <2> QED
    BY <2>1, MovesToFinish DEF Outcomes
<1>4. CASE StopFails(c)
  <2>1. /\ job[c].pc = "stop"
        /\ Become(c, IF job[c].next \in {"park", "terminalize"} THEN GiveUp(job[c]) ELSE NoJob)
    BY <1>4 DEF StopFails, AsksHost
  <2> QED
    BY <2>1, MovesToGiveUp, MovesToNoJob
<1> QED
  BY <1>1, <1>2, <1>3, <1>4

\* A call that has stopped its context publishes, or not, and goes on to release.
LEMMA MovesToRelease ==
  ASSUME ClaimInv, NEW c \in Controllers, job[c].pc \in {"terminalize", "park"},
         Drained(job[c].epoch), Become(c, At(job[c], "release", job[c].epoch))
  PROVE  CallMoves(c)
<1> DEFINE j == job[c]
           x == At(j, "release", j.epoch)
<1>1. /\ j \in Jobs /\ Formed(j) /\ j.epoch <= row.epoch /\ j.host \in Hosts /\ j.epoch \in 0..MaxEpoch
      /\ TypeOK /\ Quiet(j.epoch)
  BY CallFacts DEF PastStop
<1>2. ~Accepted(j)
  BY DEF Drained
<1>3. x \in Jobs /\ x.pc = "release" /\ x.epoch = j.epoch /\ x.host = j.host /\ x.call = NoCall
  BY <1>1, <1>2, AtIs DEF PCs, Kept
<1>4. ~Runner(x) /\ ~Parks(x)
  BY <1>3 DEF Runner, Parks
<1>5. Become(c, x)
  OBVIOUS
<1> HIDE DEF x
<1>6. Follows(j, x) /\ Blind(x)
  BY <1>1, <1>3, <1>4, FollowsAtRest
<1> QED
  BY <1>1, <1>3, <1>5, <1>6 DEF CallMoves, Sound, Proven

LEMMA MovesMark ==
  ASSUME ClaimInv, NEW c \in Controllers, Mark(c)
  PROVE  CallMoves(c)
<1> DEFINE j == job[c]
           x == At(j, "marked", j.epoch)
<1>1. j.pc = "mark" /\ (Become(c, x) \/ Become(c, Inconclusive(j)))
  BY DEF Mark
<1>2. /\ j \in Jobs /\ Formed(j) /\ j.epoch <= row.epoch /\ j.host \in Hosts /\ j.epoch \in 0..MaxEpoch
      /\ TypeOK /\ j.call = NoCall
  BY <1>1, CallFacts
<1>3. CASE Become(c, x)
  <2>1. x \in Jobs /\ x.pc = "marked" /\ x.epoch = j.epoch /\ x.host = j.host /\ x.call = NoCall
    BY <1>2, AtIs, KeptTyped DEF PCs
  <2> HIDE DEF x
  <2>2. ~Runner(x) /\ ~Parks(x) /\ ~PastStop(x)
    BY <2>1 DEF Runner, Parks, PastStop
  <2>3. Follows(j, x) /\ Blind(x)
    BY <1>2, <2>1, <2>2, FollowsAtRest
  <2> QED
    BY <1>3, <2>2, <2>3 DEF CallMoves, Sound, Proven
<1>4. CASE Become(c, Inconclusive(j))
  BY <1>2, <1>4, FollowsInconclusive DEF CallMoves, Sound
<1> QED
  BY <1>1, <1>3, <1>4

LEMMA MovesLookingAgain ==
  ASSUME ClaimInv, NEW c \in Controllers, job[c].pc \in {"marked", "recheck", "finalize"},
         Become(c, LookingAgain(job[c]))
  PROVE  CallMoves(c)
BY CallFacts, FollowsLookingAgain DEF CallMoves, Sound

LEMMA MovesRecheck ==
  ASSUME ClaimInv, NEW c \in Controllers, Recheck(c)
  PROVE  CallMoves(c)
<1> DEFINE j == job[c]
           a == At(j, "finalize", j.epoch)
           o == row.owned
           x == [a EXCEPT !.owned = o]
<1>1. /\ j.pc = "recheck"
      /\ Become(c, Inconclusive(j)) \/ Become(c, x) \/ Become(c, LookingAgain(j))
  BY DEF Recheck
<1>2. /\ j \in Jobs /\ Formed(j) /\ j.epoch <= row.epoch /\ j.host \in Hosts /\ j.epoch \in 0..MaxEpoch
      /\ TypeOK /\ j.call = NoCall /\ Quiet(j.epoch)
  BY <1>1, CallFacts DEF PastStop
<1>3. CASE Become(c, x)
  <2>1. a \in Jobs /\ a.pc = "finalize" /\ a.epoch = j.epoch /\ a.host = j.host /\ a.call = NoCall
    BY <1>2, AtIs, KeptTyped DEF PCs
  <2>2. x = [a EXCEPT !.owned = o] /\ o \in BOOLEAN
    BY <1>2, EpochTyped
  <2> HIDE DEF x, a, o
  <2>3. x \in Jobs /\ x.pc = "finalize" /\ x.epoch = j.epoch /\ x.host = j.host /\ x.call = NoCall
    BY <2>1, <2>2, OwnedSet
  <2>4. ~Runner(x) /\ ~Parks(x)
    BY <2>3 DEF Runner, Parks
  <2>5. Follows(j, x) /\ Blind(x)
    BY <1>2, <2>3, <2>4, FollowsAtRest
  <2> QED
    BY <1>2, <1>3, <2>3, <2>5 DEF CallMoves, Sound, Proven
<1>4. CASE Become(c, Inconclusive(j))
  BY <1>2, <1>4, FollowsInconclusive DEF CallMoves, Sound
<1>5. CASE Become(c, LookingAgain(j))
  BY <1>1, <1>5, MovesLookingAgain
<1> QED
  BY <1>1, <1>3, <1>4, <1>5

\* A stop that proves what it must, or is told to ask again.
LEMMA ProvedIs ==
  ASSUME ClaimInv, NEW c \in Controllers, job[c].pc = "stop", NEW x, x = Proved(job[c])
  PROVE  /\ Follows(job[c], x) /\ x.epoch = job[c].epoch
         /\ Looked(job[c]) => Blind(x) \/ Looked(x)
         /\ x.pc \notin {"claimed", "open", "opened"}
<1> DEFINE j == job[c]
           p == j.next
           y == [j EXCEPT !.pc = p]
<1>1. /\ j \in Jobs /\ Formed(j) /\ j.epoch <= row.epoch /\ j.host \in Hosts /\ j.epoch # 0
      /\ j.pc = "stop"
  BY CallFacts
<1>2. x = [y EXCEPT !.beat = 0] /\ y = [j EXCEPT !.pc = p] /\ p = j.next
  BY DEF Proved
<1>3. p \in {"park", "terminalize", "release", "recheck", "clearbit"}
  BY <1>1 DEF Formed, Jobs
<1> HIDE DEF j, p, y
<1>4. /\ y \in Jobs /\ y.pc = p /\ y.epoch = j.epoch /\ y.host = j.host /\ y.call = j.call
      /\ y.outcome = j.outcome /\ y.name = j.name
  BY <1>1, <1>2, <1>3 DEF Jobs
<1>5. /\ x \in Jobs /\ x.pc = p /\ x.epoch = j.epoch /\ x.host = j.host /\ x.call = j.call
      /\ x.outcome = j.outcome /\ x.name = j.name
  <2>1. x = [y EXCEPT !.beat = 0] /\ y \in Jobs
    BY <1>2, <1>4
  <2>2. x \in Jobs
    BY <2>1 DEF Jobs
  <2>3. /\ x.pc = y.pc /\ x.epoch = y.epoch /\ x.host = y.host /\ x.call = y.call
        /\ x.outcome = y.outcome /\ x.name = y.name
    BY <2>1 DEF Jobs
  <2> QED
    BY <1>4, <2>2, <2>3
<1>6. ~Runner(x) /\ (Parks(x) <=> Parks(j))
  BY <1>1, <1>2, <1>3, <1>5 DEF Runner, Parks
<1>7. Formed(x)
  <2>1. Accepted(x) <=> Accepted(j)
    BY <1>5 DEF Accepted
  <2>2. j.call # NoCall => Accepted(j) /\ p \in {"terminalize", "release"}
    BY <1>1, <1>2 DEF Formed
  <2>3. Parks(x) => x.outcome \in {"sleeping", "waiting"} /\ x.call = NoCall
    BY <1>1, <1>5, <1>6 DEF Formed
  <2>4. SoundCall(x.call)
    BY <1>1, <1>5 DEF Formed
  <2> QED
    BY <1>1, <1>3, <1>5, <1>6, <2>1, <2>2, <2>3, <2>4 DEF Formed
<1>8. Follows(j, x)
  BY <1>1, <1>3, <1>5, <1>6, <1>7 DEF Follows, Drives
<1>9. Looked(j) => Looked(x)
  BY <1>5, <1>6 DEF Looked
<1> QED
  BY <1>3, <1>5, <1>8, <1>9 DEF j

LEMMA MovesUnanswered ==
  ASSUME ClaimInv, JobsLooked, NEW c \in Controllers, Stop(c), context[job[c].epoch].host # job[c].host
  PROVE  CallMoves(c)
<1> DEFINE j == job[c]
<1>1. j.pc = "stop" /\ Looked(j)
  BY DEF Stop, AsksHost, JobsLooked
<1>2. /\ j \in Jobs /\ Formed(j) /\ j.epoch <= row.epoch /\ j.host \in Hosts /\ j.epoch # 0
      /\ j.epoch \in 0..MaxEpoch /\ TypeOK
  BY <1>1, CallFacts
<1>3. Become(c, IF ~Claimed(j.epoch) \/ row.lease <= now \/ Deadline <= now
                THEN Proved(j) ELSE [j EXCEPT !.beat = Least(row.lease, Deadline)])
  BY DEF Stop, HostStops
<1>4. CASE ~Claimed(j.epoch) \/ row.lease <= now \/ Deadline <= now
  <2>1. Quiet(j.epoch)
    BY <1>2, <1>4, LapsedQuiet
  <2> QED
    BY <1>1, <1>3, <1>4, <2>1, ProvedIs DEF CallMoves, Sound, Proven
<1>5. CASE ~(~Claimed(j.epoch) \/ row.lease <= now \/ Deadline <= now)
  <2> DEFINE b == Least(row.lease, Deadline)
             x == [j EXCEPT !.beat = b]
  <2>1. b \in Nat /\ Become(c, x) /\ x = [j EXCEPT !.beat = b]
    BY <1>2, <1>3, <1>5, EpochTyped, ConstantsTyped DEF Least
  <2> HIDE DEF x, b, j
  <2>2. /\ x \in Jobs /\ x.pc = j.pc /\ x.epoch = j.epoch /\ x.host = j.host /\ x.call = j.call
        /\ x.outcome = j.outcome /\ x.name = j.name /\ x.next = j.next
    BY <1>2, <2>1 DEF Jobs
  <2>3. /\ Runner(x) <=> Runner(j)
        /\ Parks(x) <=> Parks(j)
        /\ Accepted(x) <=> Accepted(j)
    BY <2>2 DEF Runner, Parks, Accepted
  <2>4. Formed(x)
    BY <1>1, <1>2, <2>2, <2>3 DEF Formed
  <2>5. Follows(j, x)
    BY <1>1, <1>2, <2>2, <2>3, <2>4 DEF Follows, Drives
  <2>6. Looked(x) /\ Proven(x)
    BY <1>1, <2>2, <2>3 DEF Looked, Proven, PastStop
  <2> QED
    BY <2>1, <2>5, <2>6 DEF CallMoves, Sound, j
<1> QED
  BY <1>4, <1>5

\* The first of a set of numbers is one of them.
LEMMA MinIsOne ==
  ASSUME NEW S \in SUBSET Nat, S # {}
  PROVE  Min(S) \in S
<1> DEFINE R == {p \in Nat \X Nat : p[1] < p[2]}
<1>1. IsWellFoundedOn(R, Nat)
  BY NatLessThanWellFounded DEF OpToRel
<1>2. PICK m \in S : \A k \in S : ~(<<k, m>> \in R)
  <2> HIDE DEF R
  <2> QED
    BY <1>1, WFMin
<1>3. ASSUME NEW k \in S
      PROVE  m <= k
  <2>1. m \in Nat /\ k \in Nat
    OBVIOUS
  <2>2. <<k, m>> \in Nat \X Nat /\ <<k, m>>[1] = k /\ <<k, m>>[2] = m
    BY <2>1
  <2>3. ~(k < m)
    BY <1>2, <2>2
  <2> QED
    BY <2>1, <2>3
<1> QED
  BY <1>2, <1>3 DEF Min

LEMMA MatchingIs ==
  ASSUME TypeOK, NEW t, Matching(t) # {}
  PROVE  Min(Matching(t)) \in DOMAIN queue /\ queue[Min(Matching(t))].event \in Events
<1>1. queue \in Seq([event: Events, at: Nat])
  BY DEF TypeOK
<1>2. DOMAIN queue = 1..Len(queue) /\ Len(queue) \in Nat
  BY <1>1, LenProperties
<1>3. Matching(t) \in SUBSET Nat /\ Matching(t) \subseteq DOMAIN queue
  BY <1>2 DEF Matching
<1>4. Min(Matching(t)) \in DOMAIN queue
  BY <1>3, MinIsOne
<1>5. queue[Min(Matching(t))] \in [event: Events, at: Nat]
  BY <1>1, <1>2, <1>4, ElementOfSeq
<1> QED
  BY <1>4, <1>5

LEMMA MovesCallStep ==
  ASSUME ClaimInv, StepsSound, NEW c \in Controllers, NEW n \in Names, NEW k \in {"do", "sleep", "wait"},
         CallStep(c, n, k)
  PROVE  CallMoves(c)
<1> DEFINE j == job[c]
<1>1. j.pc = "executing"
  BY DEF CallStep
<1>2. /\ j \in Jobs /\ Formed(j) /\ j.epoch <= row.epoch /\ j.host \in Hosts /\ j.epoch # 0
      /\ TypeOK /\ now \in Nat
  BY <1>1, CallFacts, EpochTyped
<1>3. CASE j.call # NoCall
  <2>1. Become(c, Finish(j, "failed"))
    BY <1>3 DEF CallStep
  <2> QED
    BY <1>1, <2>1, MovesToFinish DEF Outcomes
<1>4. CASE j.call = NoCall /\ ~Runnable(j.epoch, now)
  <2>1. Become(c, GiveUp(j))
    BY <1>4 DEF CallStep
  <2> QED
    BY <1>1, <2>1, MovesToGiveUp
<1>5. CASE j.call = NoCall /\ Runnable(j.epoch, now) /\ n \notin Recorded
  <2> DEFINE new == NewStep(k)
             l == [phase |-> "insert", name |-> n, prior |-> None, to |-> None, event |-> None]
             m == [phase |-> "insert", name |-> n, prior |-> None, to |-> new, event |-> None]
             y == InPhase(j, "insert", n, None)
             x == [y EXCEPT !.call.to = new]
  <2>1. Become(c, x)
    BY <1>5 DEF CallStep
  <2>2. new \in StepRows /\ SoundStep(new) /\ new.result = None
    <3>1. 0 \in 0..Retries /\ now + Delay \in Nat
      BY <1>2, ConstantsTyped
    <3> QED
      BY <3>1 DEF NewStep, StepRows, SoundStep
  <2>3. y = [j EXCEPT !.call = l] /\ x = [y EXCEPT !.call.to = new]
    BY DEF InPhase
  <2> HIDE DEF new
  <2>4. l \in Calls /\ m \in Calls /\ m = [l EXCEPT !.to = new] /\ m.phase # "look"
    BY <2>2 DEF Calls
  <2>5. SoundCall(m)
    BY <2>2 DEF SoundCall
  <2> HIDE DEF l, m, y, x
  <2>6. x = [j EXCEPT !.call = m]
    BY <1>2, <2>3, <2>4 DEF Jobs
  <2>7. Follows(j, x) /\ Proven(x) /\ ~Parks(x) /\ x.call = m
    BY <1>1, <1>2, <2>4, <2>5, <2>6, FollowsCall
  <2> QED
    BY <2>1, <2>4, <2>7 DEF CallMoves, Sound, Blind
<1>6. CASE j.call = NoCall /\ Runnable(j.epoch, now) /\ n \in Recorded /\ steps[n].kind # k
  <2>1. Become(c, Finish(j, "failed"))
    BY <1>6 DEF CallStep
  <2> QED
    BY <1>1, <2>1, MovesToFinish DEF Outcomes
<1>7. CASE j.call = NoCall /\ Runnable(j.epoch, now) /\ n \in Recorded /\ steps[n].kind = k
  <2> DEFINE x == Proceed(j, n, steps[n])
  <2>1. Become(c, x)
    BY <1>7 DEF CallStep
  <2>2. steps[n] \in StepRows /\ SoundStep(steps[n])
    BY <1>2, <1>7 DEF TypeOK, Recorded, StepsSound
  <2>3. /\ Follows(j, x) /\ Proven(x)
        /\ x.call.phase = "look" => x.call.name = n /\ x.call.prior = steps[n]
        /\ Parks(x) => x.outcome = "sleeping"
    BY <1>1, <1>2, <1>7, <2>2, ProceedIs
  <2> HIDE DEF x
  <2>4. Looked(x)
    BY <2>3 DEF Looked
  <2> QED
    BY <2>1, <2>3, <2>4 DEF CallMoves, Sound
<1> QED
  BY <1>3, <1>4, <1>5, <1>6, <1>7

LEMMA MovesEffect ==
  ASSUME ClaimInv, NEW c \in Controllers, Effect(c)
  PROVE  CallMoves(c)
<1> DEFINE j == job[c]
           s == j.call.prior
           n == j.call.name
           again == [s EXCEPT !.state = "retry_wait", !.attempt = @ + 1, !.at = now + Delay]
<1>1. j.pc = "executing" /\ j.call.phase = "effect"
  BY DEF Effect
<1>2. /\ j \in Jobs /\ Formed(j) /\ j.epoch <= row.epoch /\ j.host \in Hosts /\ j.epoch # 0
      /\ TypeOK /\ now \in Nat
  BY <1>1, CallFacts, EpochTyped
<1>3. n \in Names /\ s \in StepRows /\ SoundStep(s) /\ s.state \notin Settled
  BY <1>1, <1>2 DEF Formed, SoundCall
<1>4. \/ Become(c, Writing(j, n, s, SettledStep(s, "complete", None)))
      \/ Become(c, Writing(j, n, s, SettledStep(s, "errored", None)))
      \/ s.attempt < Retries /\ Become(c, Writing(j, n, s, again))
  BY DEF Effect
<1>5. ASSUME s.attempt < Retries
      PROVE  again \in StepRows /\ SoundStep(again) /\ again.result = None
  <2>1. s.attempt \in 0..Retries /\ s.result = None
    BY <1>3 DEF StepRows, SoundStep
  <2> DEFINE a == s.attempt + 1
             t == now + Delay
  <2>2. a \in 0..Retries /\ t \in Nat
    BY <1>2, <1>5, <2>1, ConstantsTyped
  <2>3. again = [s EXCEPT !.state = "retry_wait", !.attempt = a, !.at = t]
    BY <1>3 DEF StepRows
  <2> HIDE DEF a, t, again, s
  <2>4. again \in StepRows
    BY <1>3, <2>2, <2>3 DEF StepRows
  <2>5. again.state = "retry_wait" /\ again.result = None
    BY <1>3, <2>1, <2>3 DEF StepRows
  <2> QED
    BY <2>4, <2>5 DEF SoundStep
<1>6. \A to \in StepRows : SoundStep(to) /\ to.result = None /\ Become(c, Writing(j, n, s, to)) => CallMoves(c)
  <2> SUFFICES ASSUME NEW to \in StepRows, SoundStep(to), to.result = None,
                      Become(c, Writing(j, n, s, to))
               PROVE  CallMoves(c)
    OBVIOUS
  <2> QED
    BY <1>1, <1>2, <1>3, WritingIs DEF CallMoves, Sound
<1>7. \A o \in Settled : /\ SettledStep(s, o, None) \in StepRows
                         /\ SoundStep(SettledStep(s, o, None)) /\ SettledStep(s, o, None).result = None
  <2> HIDE DEF s
  <2>1. \A v \in Events \cup {None} : \A o \in Settled :
          /\ SettledStep(s, o, v) \in StepRows
          /\ SoundStep(SettledStep(s, o, v)) /\ SettledStep(s, o, v).result = v
    BY <1>3, SettledIs
  <2> QED
    BY <2>1
<1>8. "complete" \in Settled /\ "errored" \in Settled
  BY DEF Settled
<1> HIDE DEF j, s, n, again
<1> QED
  BY <1>4, <1>5, <1>6, <1>7, <1>8

LEMMA MovesLook ==
  ASSUME ClaimInv, JobsLooked, NEW c \in Controllers, Look(c)
  PROVE  CallMoves(c)
<1> DEFINE j == job[c]
           s == j.call.prior
           n == j.call.name
           v == queue[Min(Matching(s.at))].event
<1>1. j.pc = "executing" /\ j.call.phase = "look"
  BY DEF Look
<1>2. /\ j \in Jobs /\ Formed(j) /\ j.epoch <= row.epoch /\ j.host \in Hosts /\ j.epoch # 0
      /\ TypeOK /\ now \in Nat /\ Looked(j)
  BY <1>1, CallFacts, EpochTyped DEF JobsLooked
<1>3. /\ n \in Names /\ s \in StepRows /\ SoundStep(s) /\ s.state \notin Settled
      /\ s.kind = "wait" /\ s.state = "waiting" /\ s.at \in Nat
  BY <1>1, <1>2 DEF Formed, SoundCall, StepRows
<1>4. /\ Matching(s.at) # {} =>
           Become(c, [j EXCEPT !.call = [phase |-> "consume", name |-> n, prior |-> s,
                                         to |-> SettledStep(s, "complete", v), event |-> v]])
      /\ Matching(s.at) = {} /\ s.at <= now => Become(c, Writing(j, n, s, SettledStep(s, "errored", None)))
      /\ Matching(s.at) = {} /\ ~(s.at <= now) => Become(c, Parking(j, "waiting", n, s.at))
  BY DEF Look
<1>5. CASE Matching(s.at) # {}
  <2> DEFINE to == SettledStep(s, "complete", v)
             k == [phase |-> "consume", name |-> n, prior |-> s, to |-> to, event |-> v]
             x == [j EXCEPT !.call = k]
  <2>1. v \in Events
    BY <1>2, <1>5, MatchingIs
  <2>2. to \in StepRows /\ SoundStep(to) /\ to.result = v
    BY <1>3, <2>1, StepBecomes DEF Settled
  <2>3. Become(c, x)
    BY <1>4, <1>5
  <2> HIDE DEF to, v, j, s, n
  <2>4. k \in Calls /\ k.phase # "look"
    BY <1>3, <2>1, <2>2 DEF Calls
  <2>5. SoundCall(k)
    BY <1>3, <2>1, <2>2 DEF SoundCall
  <2> HIDE DEF k
  <2>6. Follows(j, x) /\ Proven(x) /\ ~Parks(x) /\ x.call = k
    BY <1>1, <1>2, <2>4, <2>5, FollowsCall
  <2> HIDE DEF x
  <2> QED
    BY <2>3, <2>4, <2>6 DEF CallMoves, Sound, Blind, j
<1>6. CASE Matching(s.at) = {} /\ s.at <= now
  <2> DEFINE to == SettledStep(s, "errored", None)
             x == Writing(j, n, s, to)
  <2>1. to \in StepRows /\ SoundStep(to) /\ to.result = None
    BY <1>3, StepBecomes DEF Settled
  <2>2. Become(c, x)
    BY <1>4, <1>6
  <2> HIDE DEF to
  <2>3. Follows(j, x) /\ Proven(x) /\ Blind(x)
    BY <1>1, <1>2, <1>3, <2>1, WritingIs
  <2> QED
    BY <2>2, <2>3 DEF CallMoves, Sound
<1>7. CASE Matching(s.at) = {} /\ ~(s.at <= now)
  <2> DEFINE x == Parking(j, "waiting", n, s.at)
  <2>1. Become(c, x)
    BY <1>4, <1>7
  <2>2. ~Accepted(j)
    BY <1>1 DEF Accepted
  <2>3. Follows(j, x) /\ Proven(x)
    BY <1>1, <1>2, <1>3, <2>2, FollowsParking
  <2>4. x.name = n /\ x.epoch = j.epoch /\ x.call = NoCall
    BY <1>2, <1>3, <2>2, ParkingIs DEF Outcomes, Kept
  <2> HIDE DEF x
  <2>5. Looked(x)
    <3>1. Claimed(j.epoch) /\ row.status = "running" => steps[n] = s
      BY <1>1, <1>2 DEF Looked
    <3>2. s # None
      BY <1>3, NoneIsNoRow
    <3> QED
      BY <1>3, <2>4, <3>1, <3>2, NoCallTyped DEF Looked, Waits
  <2> QED
    BY <2>1, <2>3, <2>5 DEF CallMoves, Sound
<1> QED
  BY <1>5, <1>6, <1>7

LEMMA NewCallTyped ==
  ASSUME NEW h \in Hosts, NEW op \in {"run", "terminate"}, NEW j,
         j = [op |-> op, host |-> h, pc |-> "idle", epoch |-> 0, at |-> 0, owned |-> FALSE,
              next |-> "none", outcome |-> "none", name |-> None, beat |-> 0, renewed |-> 0,
              call |-> NoCall]
  PROVE  j \in Jobs /\ j.pc = "idle" /\ j.call = NoCall /\ j.host = h
BY NoCallTyped, ConstantsTyped DEF Jobs

LEMMA NewCallIs ==
  ASSUME NEW h \in Hosts, NEW op \in {"run", "terminate"},
         NEW j, j = [NoJob EXCEPT !.op = op, !.host = h]
  PROVE  j \in Jobs /\ j.pc = "idle" /\ j.call = NoCall /\ j.host = h
<1>1. j = [op |-> op, host |-> h, pc |-> "idle", epoch |-> 0, at |-> 0, owned |-> FALSE,
           next |-> "none", outcome |-> "none", name |-> None, beat |-> 0, renewed |-> 0,
           call |-> NoCall]
  BY DEF NoJob
<1> QED
  BY <1>1, NewCallTyped

\* A call that begins.
LEMMA MovesBegin ==
  ASSUME ClaimInv, NEW c \in Controllers, NEW h \in Hosts, NEW op \in {"run", "terminate"},
         NEW r, SameClaim(r), Become(c, Reading([NoJob EXCEPT !.op = op, !.host = h], r))
  PROVE  CallMoves(c)
<1> DEFINE j == [NoJob EXCEPT !.op = op, !.host = h]
           x == Reading(j, r)
<1>1. j = [NoJob EXCEPT !.op = op, !.host = h]
  OBVIOUS
<1>2. j \in Jobs /\ j.pc = "idle" /\ j.call = NoCall /\ j.host = h
  BY <1>1, NewCallIs
<1> HIDE DEF j
<1>3. Formed(j) /\ ~Drives(j)
  BY <1>2, NoCallTyped DEF Formed, Runner, Parks, Drives
<1>4. Follows(j, x) /\ Proven(x) /\ Blind(x)
  BY <1>2, <1>3, FollowsReading
<1>5. Become(c, x)
  BY DEF j
<1> HIDE DEF x
<1>6. Follows(job[c], x)
  BY <1>2, <1>3, <1>4 DEF Follows
<1> QED
  BY <1>4, <1>5, <1>6 DEF CallMoves, Sound

\* What an accepted mutation makes of its call once it has landed or was refused.
LEMMA AfterAnswer ==
  ASSUME ClaimInv, NEW c \in Controllers, job[c].pc = "executing", NEW x, Follows(Answered(job[c]), x)
  PROVE  Follows(job[c], x)
<1> DEFINE j == job[c]
<1>1. j \in Jobs
  BY CallFacts
<1>2. /\ Answered(j).pc = "executing" /\ Answered(j).epoch = j.epoch
      /\ Answered(j).renewed = j.renewed /\ Answered(j).beat = j.beat
  BY <1>1 DEF Answered, Jobs
<1>3. Drives(j)
  BY DEF Drives, Runner
<1> QED
  BY <1>2, <1>3 DEF Follows

LEMMA MovesLand ==
  ASSUME ClaimInv, NEW c \in Controllers, Land(c)
  PROVE  LET k == job[c].call IN
         \E x :
           /\ Become(c, x) /\ Follows(job[c], x) /\ Proven(x)
           /\ \/ Blind(x) /\ UNCHANGED journal
              \/ /\ \E t \in Instants : Mutation(job[c].epoch, t, k)
                 /\ steps' = [steps EXCEPT ![k.name] = k.to]
                 /\ IF k.phase = "consume"
                    THEN \E i \in DOMAIN queue : queue[i].event = k.event /\ queue' = RemoveAt(queue, i)
                    ELSE UNCHANGED queue
                 /\ x.call.phase = "look" => x.call.name = k.name /\ x.call.prior = k.to
                 /\ Parks(x) => x.outcome = "sleeping"
<1> DEFINE j == job[c]
           k == j.call
           a == Answered(j)
           Changed == /\ \E t \in Instants : Mutation(j.epoch, t, k)
                      /\ steps' = [steps EXCEPT ![k.name] = k.to]
                      /\ IF k.phase = "consume"
                         THEN \E i \in DOMAIN queue : queue[i].event = k.event /\ queue' = RemoveAt(queue, i)
                         ELSE UNCHANGED queue
           Goal(x) ==
             /\ Become(c, x) /\ Follows(j, x) /\ Proven(x)
             /\ \/ Blind(x) /\ UNCHANGED journal
                \/ /\ Changed
                   /\ x.call.phase = "look" => x.call.name = k.name /\ x.call.prior = k.to
                   /\ Parks(x) => x.outcome = "sleeping"
<1> SUFFICES \E x : Goal(x)
  OBVIOUS
<1>1. Accepted(j) /\ TypeOK /\ j \in Jobs /\ Formed(j) /\ j.epoch <= row.epoch
  BY CallFacts DEF Land
<1>2. k.phase \in {"insert", "write", "consume"} /\ k # NoCall
  BY <1>1, NoCallTyped DEF Accepted
<1>3. k.name \in Names /\ k.to \in StepRows /\ SoundStep(k.to)
  BY <1>1, <1>2 DEF Formed, SoundCall
<1>4. CASE j.pc = "executing"
  <2>0. j.pc # "idle" /\ j.epoch # 0
    BY <1>4, CallFacts
  <2>1. a \in Jobs /\ Formed(a) /\ a.call = NoCall /\ a.pc = "executing" /\ a.epoch = j.epoch
    BY <1>1, <1>4, AnsweredIs
  <2>2. \/ Changed /\ Become(c, Continue(a, k.name, k.to))
        \/ UNCHANGED journal /\ (Become(c, Finish(a, "failed")) \/ Become(c, GiveUp(a)))
    BY <1>4 DEF Land
  <2> HIDE DEF a, Changed
  <2>3. CASE Changed /\ Become(c, Continue(a, k.name, k.to))
    <3> DEFINE x == Continue(a, k.name, k.to)
    <3>1. /\ Follows(a, x) /\ Proven(x)
          /\ x.call.phase = "look" => x.call.name = k.name /\ x.call.prior = k.to
          /\ Parks(x) => x.outcome = "sleeping"
      BY <1>1, <1>3, <2>1, ContinueIs
    <3>2. Follows(j, x)
      BY <1>4, <3>1, AfterAnswer DEF a
    <3> HIDE DEF x
    <3>3. Goal(x)
      BY <2>3, <3>1, <3>2 DEF x
    <3> QED
      BY <3>3
  <2>4. CASE UNCHANGED journal /\ Become(c, Finish(a, "failed"))
    <3> DEFINE x == Finish(a, "failed")
    <3>1. Follows(a, x) /\ Proven(x) /\ Blind(x)
      BY <1>1, <2>0, <2>1, FollowsFinish DEF Outcomes
    <3>2. Follows(j, x)
      BY <1>4, <3>1, AfterAnswer DEF a
    <3> HIDE DEF x
    <3>3. Goal(x)
      BY <2>4, <3>1, <3>2 DEF x
    <3> QED
      BY <3>3
  <2>5. CASE UNCHANGED journal /\ Become(c, GiveUp(a))
    <3> DEFINE x == GiveUp(a)
    <3>1. Follows(a, x) /\ Proven(x) /\ Blind(x)
      BY <1>1, <2>0, <2>1, FollowsGiveUp
    <3>2. Follows(j, x)
      BY <1>4, <3>1, AfterAnswer DEF a
    <3> HIDE DEF x
    <3>3. Goal(x)
      BY <2>5, <3>1, <3>2 DEF x
    <3> QED
      BY <3>3
  <2> QED
    BY <2>2, <2>3, <2>4, <2>5
<1>5. CASE j.pc # "executing"
  <2>1. Become(c, a) /\ (Changed \/ UNCHANGED journal)
    BY <1>5 DEF Land
  <2>2. a = [j EXCEPT !.call = NoCall]
    BY DEF Answered
  <2>3. j.pc \in {"stop", "terminalize", "release"} /\ ~Parks(j) /\ Drives(j)
    BY <1>1, <1>2, <1>5 DEF Formed, Parks, Drives
  <2> HIDE DEF a, Changed, k
  <2>4. a \in Jobs /\ a.pc = j.pc /\ a.epoch = j.epoch /\ a.host = j.host /\ a.call = NoCall /\ a.next = j.next
    BY <1>1, <2>2, NoCallTyped DEF Jobs
  <2>5. ~Runner(a) /\ ~Parks(a)
    BY <2>3, <2>4 DEF Runner, Parks
  <2>6. Follows(j, a) /\ Blind(a)
    <3>1. j.host \in Hosts /\ (j.pc = "stop" => j.epoch # 0 /\ j.next # "none")
      BY <1>1, <2>3 DEF Formed
    <3> QED
      BY <1>1, <2>3, <2>4, <2>5, <3>1, FollowsAtRest
  <2>7. Proven(a)
    BY <2>4, CallFacts DEF Proven, PastStop
  <2>8. Goal(a)
    BY <2>1, <2>5, <2>6, <2>7 DEF Blind
  <2> QED
    BY <2>8
<1> QED
  BY <1>4, <1>5

-----------------------------------------------------------------------------
(* What becomes of the row.                                                 *)

LEMMA EndedIs ==
  ASSUME NEW r \in Rows, NEW o \in Terminal, NEW q, q = Ended(r, o)
  PROVE  /\ q \in Rows /\ q.status = o /\ q.epoch = r.epoch /\ q.owned = r.owned /\ q.lease = r.lease
         /\ q.termination = r.termination
<1>1. q \in Rows /\ q.status = o
  BY DEF Ended, Rows
<1>2. q.epoch = r.epoch /\ q.owned = r.owned /\ q.lease = r.lease /\ q.termination = r.termination
  BY DEF Ended, Rows
<1> QED
  BY <1>1, <1>2

LEMMA UnownedIs ==
  ASSUME NEW r \in Rows, NEW q, q = Unowned(r)
  PROVE  /\ q \in Rows /\ q.status = r.status /\ q.epoch = r.epoch /\ q.owned = FALSE /\ q.lease = 0
         /\ q.termination = r.termination /\ q.pending = r.pending /\ q.wakeAt = r.wakeAt
<1>1. q \in Rows /\ q.status = r.status /\ q.epoch = r.epoch
  BY DEF Unowned, Rows
<1>2. q.owned = FALSE /\ q.lease = 0
  BY DEF Unowned, Rows
<1>3. q.termination = r.termination /\ q.pending = r.pending /\ q.wakeAt = r.wakeAt
  BY DEF Unowned, Rows
<1> QED
  BY <1>1, <1>2, <1>3

LEMMA TerminationSet ==
  ASSUME NEW r \in Rows, NEW b \in BOOLEAN, NEW q, q = [r EXCEPT !.termination = b]
  PROVE  /\ q \in Rows /\ q.status = r.status /\ q.epoch = r.epoch /\ q.owned = r.owned /\ q.lease = r.lease
         /\ q.pending = r.pending /\ q.wakeAt = r.wakeAt
<1>1. q \in Rows
  BY DEF Rows
<1>2. q.status = r.status /\ q.epoch = r.epoch /\ q.owned = r.owned /\ q.lease = r.lease
  BY DEF Rows
<1>3. q.pending = r.pending /\ q.wakeAt = r.wakeAt
  BY DEF Rows
<1> QED
  BY <1>1, <1>2, <1>3

LEMMA WakeSet ==
  ASSUME NEW r \in Rows, NEW t \in Nat, NEW q, q = [r EXCEPT !.wakeAt = t]
  PROVE  /\ q \in Rows /\ q.status = r.status /\ q.epoch = r.epoch /\ q.owned = r.owned /\ q.lease = r.lease
         /\ q.pending = r.pending /\ q.wakeAt = t /\ q.termination = r.termination
<1>1. q \in Rows
  BY DEF Rows
<1>2. q.status = r.status /\ q.epoch = r.epoch /\ q.owned = r.owned /\ q.lease = r.lease
  BY DEF Rows
<1>3. q.pending = r.pending /\ q.wakeAt = t /\ q.termination = r.termination
  BY DEF Rows
<1> QED
  BY <1>1, <1>2, <1>3

-----------------------------------------------------------------------------
(* Steps of one call.                                                       *)

OthersTyped ==
  /\ steps \in [Names -> StepRows \cup {None}]
  /\ queue \in Seq([event: Events, at: Nat])
  /\ send \in [Events -> [pc: {"idle", "commit", "accepted", "refused"},
                          at: Nat, direct: Names \cup {None}]]
  /\ fresh \subseteq Events
  /\ faults \in 0..MaxFaults

\* Nobody runs code but in a context whose deadline has come.
NobodyRuns == \A e \in Epochs : Executes(e) => Overdue(e)

\* The row stays running under its claim unless nobody runs code under it.
RowHeld == NobodyRuns \/ (row'.status = row.status /\ row'.owned = row.owned)

LEMMA QuietRests ==
  ASSUME ClaimInv, Quiet(row.epoch)
  PROVE  NobodyRuns
<1> SUFFICES ASSUME NEW e \in Epochs, Executes(e), ~Overdue(e)
             PROVE  FALSE
  BY DEF NobodyRuns
<1>1. Claimed(e)
  BY DEF ClaimInv, CodeUnderClaim
<1>2. e = row.epoch
  BY <1>1 DEF Claimed
<1> QED
  BY <1>1, <1>2 DEF Quiet, Executes

LEMMA UnclaimedRests ==
  ASSUME ClaimInv, ~row.owned \/ row.status # "running"
  PROVE  NobodyRuns
BY DEF NobodyRuns, ClaimInv, CodeUnderClaim, Claimed

LEMMA LapsedRests ==
  ASSUME ClaimInv, Deadline <= now
  PROVE  NobodyRuns
<1>1. row.epoch \in 0..MaxEpoch
  BY EpochTyped DEF ClaimInv
<1> QED
  BY <1>1, LapsedQuiet, QuietRests

LEMMA SameContextsFade ==
  ASSUME TypeOK, ContextsBounded, UNCHANGED <<now, context>>
  PROVE  ContextsFade
<1>1. \A e \in Epochs : context[e].until \in Nat /\ (context[e].host # None => context[e].state # "none")
  BY DEF TypeOK, ContextsBounded
<1> QED
  BY <1>1 DEF ContextsFade, Fades

LEMMA HeldKeepsCode ==
  ASSUME ClaimInv, RowFades, RowHeld, UNCHANGED <<now, context>>
  PROVE  CodeUnderClaim'
<1> SUFFICES ASSUME NEW e \in Epochs, Executes(e)', ~Overdue(e)'
             PROVE  Claimed(e)' /\ row'.status = "running"
  BY DEF CodeUnderClaim
<1>1. Executes(e) /\ ~Overdue(e)
  BY DEF Executes, Overdue
<1>2. Claimed(e) /\ row.status = "running"
  BY <1>1 DEF ClaimInv, CodeUnderClaim
<1> QED
  BY <1>1, <1>2 DEF RowHeld, NobodyRuns, RowFades, Claimed

LEMMA CallStepKeeps ==
  ASSUME ClaimInv, NEW c \in Controllers, NEW x, Become(c, x), Follows(job[c], x), Proven(x),
         UNCHANGED <<now, context>>, row' \in Rows, OthersTyped', RowFades, RowHeld
  PROVE  ClaimInv'
<1>1. TypeOK /\ ContextsBounded /\ StopsProved
  BY DEF ClaimInv
<1>2. x \in Jobs
  BY DEF Follows
<1>3. TypeOK'
  <2>1. job' \in [Controllers -> Jobs]
    <3>1. job \in [Controllers -> Jobs]
      BY <1>1 DEF TypeOK, Jobs
    <3> QED
      BY <1>2, <3>1 DEF Become
  <2> QED
    BY <1>1, <2>1 DEF TypeOK, OthersTyped, Jobs
<1>4. \A d \in Controllers : job'[d] = IF d = c THEN x ELSE job[d]
  BY <1>1, BecomeIs
<1>5. \A d \in Controllers : Moves(job[d], job'[d])
  BY <1>4 DEF Moves
<1>6. \A d \in Controllers : Proven(job'[d])
  BY <1>1, <1>4 DEF Proven, PastStop, StopsProved
<1>7. now' \in {now, now + 1} /\ ContextsFade /\ CodeUnderClaim'
  BY <1>1, SameContextsFade, HeldKeepsCode
<1> QED
  BY <1>3, <1>5, <1>6, <1>7, FadeStep

\* The same where no call moves.
LEMMA NoCallStepKeeps ==
  ASSUME ClaimInv, UNCHANGED <<now, context, job>>, row' \in Rows, OthersTyped', RowFades, RowHeld
  PROVE  ClaimInv'
<1>1. TypeOK /\ ContextsBounded /\ StopsProved
  BY DEF ClaimInv
<1>2. TypeOK'
  BY <1>1 DEF TypeOK, OthersTyped
<1>3. \A d \in Controllers : Moves(job[d], job'[d])
  BY DEF Moves
<1>4. \A d \in Controllers : Proven(job'[d])
  BY <1>1 DEF Proven, PastStop, StopsProved
<1>5. now' \in {now, now + 1} /\ ContextsFade /\ CodeUnderClaim'
  BY <1>1, SameContextsFade, HeldKeepsCode
<1> QED
  BY <1>2, <1>3, <1>4, <1>5, FadeStep

LEMMA KeptRowFades ==
  ASSUME TypeOK, row' = row
  PROVE  row' \in Rows /\ RowFades /\ RowHeld
<1>1. row \in Rows /\ row.lease \in Nat
  BY DEF TypeOK, Rows
<1> QED
  BY <1>1 DEF RowFades, RowHeld

-----------------------------------------------------------------------------
(* The journal.                                                             *)

\* What is asked of the journal and the sends, the calls aside.
RecordsInv == StepsSound /\ SendsFresh /\ WaitersParked /\ WaitersWoken /\ EventsPlaced

LEMMA LookedKept ==
  ASSUME JobsLooked, RowFades,
         row'.status = "running" => row.status = "running" /\ steps' = steps,
         \A d \in Controllers : job'[d] = job[d] \/ Blind(job'[d]) \/ Looked(job'[d])
  PROVE  JobsLooked'
<1> SUFFICES ASSUME NEW d \in Controllers
             PROVE  Looked(job[d])'
  BY DEF JobsLooked
<1>1. CASE Blind(job'[d])
  BY <1>1 DEF Blind, Looked
<1>2. CASE Looked(job'[d]) \/ job'[d] = job[d]
  <2>1. Looked(job'[d])
    BY <1>2 DEF JobsLooked
  <2> SUFFICES ASSUME row'.epoch = job'[d].epoch, row'.owned, row'.status = "running"
               PROVE  /\ job'[d].call.phase = "look" => steps'[job'[d].call.name] = job'[d].call.prior
                      /\ Parks(job'[d]) /\ job'[d].outcome = "waiting" =>
                           job'[d].name \in Names /\ Waits(job[d].name)'
    BY DEF Looked, Claimed
  <2>2. row.epoch = job'[d].epoch /\ row.owned /\ row.status = "running" /\ steps' = steps
    BY DEF RowFades
  <2> QED
    BY <2>1, <2>2 DEF Looked, Claimed, Waits
<1> QED
  BY <1>1, <1>2

\* Steps that leave the journal alone and do not park.
LEMMA RecordsKept ==
  ASSUME TypeOK, RecordsInv, UNCHANGED <<steps, queue, send>>, now' \in {now, now + 1},
         KeepRow \/ fresh' = {},
         Active(row)' = Active(row),
         row'.status = "waiting" => /\ row.status = "waiting" /\ ~row'.owned
                                    /\ row'.pending = row.pending /\ row'.wakeAt = row.wakeAt
  PROVE  RecordsInv'
<1>1. now \in Nat /\ row.wakeAt \in Nat /\ \A v \in Events : send[v].at \in Nat
  BY EpochTyped DEF TypeOK, Rows
<1>2. StepsSound'
  BY DEF RecordsInv, StepsSound
<1>3. SendsFresh'
  <2>1. \A v \in Events : send'[v].at <= now'
    BY <1>1 DEF RecordsInv, SendsFresh
  <2>2. CASE fresh' = {}
    BY <2>1, <2>2 DEF SendsFresh
  <2>3. CASE KeepRow
    <3>1. row' = row /\ fresh' = fresh
      BY <2>3 DEF KeepRow
    <3>2. \A t : PendingWait(t)' = PendingWait(t)
      BY <3>1 DEF PendingWait, Recorded
    <3> QED
      BY <2>1, <3>1, <3>2 DEF RecordsInv, SendsFresh
  <2> QED
    BY <2>2, <2>3
<1>4. WaitersParked'
  BY DEF RecordsInv, WaitersParked
<1>5. WaitersWoken'
  BY <1>1 DEF RecordsInv, WaitersWoken, Matching
<1>6. EventsPlaced'
  BY DEF RecordsInv, EventsPlaced, InQueue, IsTaken, Recorded
<1> QED
  BY <1>2, <1>3, <1>4, <1>5, <1>6 DEF RecordsInv

\* The instance ends.
LEMMA RecordsDropped ==
  ASSUME TypeOK, ~Active(row)', DropJournal, fresh' = {}, now' = now,
         \A v \in Events : send'[v].at <= now
  PROVE  RecordsInv'
<1>1. steps' = [n \in Names |-> None] /\ queue' = <<>>
  BY DEF DropJournal
<1>2. StepsSound' /\ SendsFresh'
  BY <1>1 DEF StepsSound, SendsFresh
<1>3. WaitersParked' /\ WaitersWoken'
  BY DEF WaitersParked, WaitersWoken, Active, Terminal
<1>4. EventsPlaced'
  BY <1>1 DEF EventsPlaced, InQueue, IsTaken, Recorded
<1> QED
  BY <1>2, <1>3, <1>4 DEF RecordsInv

\* The instance is parked, due at once when the event it waits for is there.
LEMMA RecordsParked ==
  ASSUME ClaimInv, RecordsInv, JobsLooked, NEW c \in Controllers, NEW t \in Instants,
         job[c].pc = "park", Runnable(job[c].epoch, t), fresh' = {},
         UNCHANGED <<now, steps, queue, send>>,
         row'.status = job[c].outcome, row'.pending = job[c].name, ~row'.owned,
         row'.wakeAt = IF job[c].outcome = "waiting" /\ Matching(steps[job[c].name].at) # {}
                       THEN t ELSE job[c].at
  PROVE  RecordsInv'
<1> DEFINE j == job[c]
<1>1. TypeOK /\ Formed(j) /\ Looked(j) /\ now \in Nat /\ j.outcome \in {"sleeping", "waiting"}
  BY CallFacts, EpochTyped DEF JobsLooked, Formed, Parks
<1>2. t <= now
  BY DEF Instants
<1>3. j.outcome = "waiting" => j.name \in Names /\ Waits(j.name)
  BY <1>1 DEF Looked, Runnable, Parks
<1>4. StepsSound'
  BY DEF RecordsInv, StepsSound
<1>5. SendsFresh'
  BY DEF RecordsInv, SendsFresh
<1>6. WaitersParked'
  BY <1>3 DEF WaitersParked, Waits
<1>7. WaitersWoken'
  <2> SUFFICES ASSUME j.outcome = "waiting",
                      steps[j.name].state = "complete" \/ Matching(steps[j.name].at) # {}
               PROVE  row'.wakeAt <= now
    BY DEF WaitersWoken, Matching
  <2>1. steps[j.name].state = "waiting"
    BY <1>3 DEF Waits
  <2> QED
    BY <1>2, <2>1
<1>8. EventsPlaced'
  <2>1. Active(row) /\ Active(row)'
    BY <1>1 DEF Runnable, Active, Terminal
  <2> QED
    BY <2>1 DEF RecordsInv, EventsPlaced, InQueue, IsTaken, Recorded
<1> QED
  BY <1>4, <1>5, <1>6, <1>7, <1>8 DEF RecordsInv

-----------------------------------------------------------------------------
(* Writes of the journal.                                                   *)

LEMMA RemoveAtIs ==
  ASSUME NEW S, NEW q \in Seq(S), NEW i \in 1..Len(q)
  PROVE  /\ RemoveAt(q, i) \in Seq(S) /\ Len(RemoveAt(q, i)) = Len(q) - 1
         /\ \A k \in 1..(Len(q) - 1) : RemoveAt(q, i)[k] = IF k < i THEN q[k] ELSE q[k + 1]
<1> DEFINE a == SubSeq(q, 1, i - 1)
           b == SubSeq(q, i + 1, Len(q))
<1>1. Len(q) \in Nat /\ i \in Nat /\ i >= 1 /\ i <= Len(q)
  BY LenProperties
<1>2. RemoveAt(q, i) = a \o b
  BY DEF RemoveAt
<1>3. a \in Seq(S) /\ Len(a) = i - 1 /\ \A k \in 1..(i - 1) : a[k] = q[k]
  <2>1. \A k \in 1..(i - 1) : k \in 1..Len(q)
    BY <1>1
  <2> QED
    BY <1>1, <2>1, SubSeqProperties
<1>4. b \in Seq(S) /\ Len(b) = Len(q) - i /\ \A k \in 1..(Len(q) - i) : b[k] = q[i + k]
  <2>1. \A k \in (i + 1)..Len(q) : k \in 1..Len(q)
    BY <1>1
  <2> QED
    BY <1>1, <2>1, SubSeqProperties
<1> HIDE DEF a, b
<1>5. a \o b \in Seq(S) /\ Len(a \o b) = Len(q) - 1
  <2>1. a \o b \in Seq(S) /\ Len(a \o b) = Len(a) + Len(b)
    BY <1>3, <1>4, ConcatProperties
  <2> QED
    BY <1>1, <1>3, <1>4, <2>1
<1>6. ASSUME NEW k \in 1..(Len(q) - 1)
      PROVE  (a \o b)[k] = IF k < i THEN q[k] ELSE q[k + 1]
  <2>1. (a \o b)[k] = IF k <= Len(a) THEN a[k] ELSE b[k - Len(a)]
    BY <1>1, <1>3, <1>4, ConcatProperties
  <2>2. CASE k < i
    BY <1>1, <1>3, <2>1, <2>2
  <2>3. CASE ~(k < i)
    <3>1. k - (i - 1) \in 1..(Len(q) - i) /\ i + (k - (i - 1)) = k + 1
      BY <1>1, <2>3
    <3> QED
      BY <1>1, <1>3, <1>4, <2>1, <2>3, <3>1
  <2> QED
    BY <2>2, <2>3
<1> QED
  BY <1>2, <1>5, <1>6

\* The events of the queue are all different.
Distinct(q) == \A i, k \in DOMAIN q : q[i].event = q[k].event => i = k
Holds(q, v) == \E i \in DOMAIN q : q[i].event = v

\* Of different events, the others stay.
LEMMA RemovedIs ==
  ASSUME NEW S, NEW q \in Seq(S), Distinct(q), NEW i \in DOMAIN q, NEW p, p = RemoveAt(q, i)
  PROVE  /\ p \in Seq(S) /\ Distinct(p)
         /\ \A v : Holds(p, v) <=> Holds(q, v) /\ v # q[i].event
<1> DEFINE m == Len(q)
           At0(k) == IF k < i THEN k ELSE k + 1
<1>1. m \in Nat /\ DOMAIN q = 1..m /\ i \in 1..m
  BY LenProperties
<1>2. p \in Seq(S) /\ Len(p) = m - 1 /\ \A k \in 1..(m - 1) : p[k] = q[At0(k)]
  BY <1>1, RemoveAtIs
<1>3. DOMAIN p = 1..(m - 1)
  BY <1>2, LenProperties
<1> HIDE DEF m
<1>4. \A k \in 1..(m - 1) : At0(k) \in 1..m /\ At0(k) # i
  BY <1>1
<1>5. \A k, l \in 1..(m - 1) : At0(k) = At0(l) => k = l
  BY <1>1
<1>6. \A a \in 1..m : a # i => \E k \in 1..(m - 1) : At0(k) = a
  <2> SUFFICES ASSUME NEW a \in 1..m, a # i
               PROVE  \E k \in 1..(m - 1) : At0(k) = a
    OBVIOUS
  <2>1. CASE a < i
    <3>1. a \in 1..(m - 1) /\ At0(a) = a
      BY <1>1, <2>1
    <3> QED
      BY <3>1
  <2>2. CASE ~(a < i)
    <3>1. a - 1 \in 1..(m - 1) /\ At0(a - 1) = a
      BY <1>1, <2>2
    <3> QED
      BY <3>1
  <2> QED
    BY <2>1, <2>2
<1> HIDE DEF At0
<1>7. Distinct(p)
  BY <1>1, <1>2, <1>3, <1>4, <1>5 DEF Distinct
<1>8. ASSUME NEW v
      PROVE  Holds(p, v) <=> Holds(q, v) /\ v # q[i].event
  <2>1. ASSUME NEW k \in DOMAIN p, p[k].event = v
        PROVE  Holds(q, v) /\ v # q[i].event
    <3>1. At0(k) \in DOMAIN q /\ At0(k) # i /\ q[At0(k)].event = v
      BY <1>1, <1>2, <1>3, <1>4, <2>1
    <3> QED
      BY <3>1 DEF Holds, Distinct
  <2>2. ASSUME NEW a \in DOMAIN q, q[a].event = v, v # q[i].event
        PROVE  Holds(p, v)
    <3>1. PICK k \in 1..(m - 1) : At0(k) = a
      BY <1>1, <1>6, <2>2
    <3>2. k \in DOMAIN p /\ p[k].event = v
      BY <1>2, <1>3, <2>2, <3>1
    <3> QED
      BY <3>2 DEF Holds
  <2> QED
    BY <2>1, <2>2 DEF Holds
<1> QED
  BY <1>2, <1>7, <1>8

LEMMA AppendedIs ==
  ASSUME NEW S, NEW q \in Seq(S), Distinct(q), NEW x \in S, ~Holds(q, x.event), NEW p, p = Append(q, x)
  PROVE  /\ p \in Seq(S) /\ Distinct(p)
         /\ \A v : Holds(p, v) <=> Holds(q, v) \/ v = x.event
<1> DEFINE m == Len(q)
<1>1. m \in Nat /\ DOMAIN q = 1..m
  BY LenProperties
<1>2. p \in Seq(S) /\ Len(p) = m + 1 /\ (\A k \in 1..m : p[k] = q[k]) /\ p[m + 1] = x
  BY AppendProperties
<1>3. DOMAIN p = 1..(m + 1)
  BY <1>2, LenProperties
<1> HIDE DEF m
<1>4. \A k \in DOMAIN p : k \in DOMAIN q \/ k = m + 1
  BY <1>1, <1>3
<1>5. \A k \in DOMAIN q : k \in DOMAIN p /\ p[k] = q[k]
  BY <1>1, <1>2, <1>3
<1>6. m + 1 \in DOMAIN p /\ p[m + 1].event = x.event
  BY <1>1, <1>2, <1>3
<1>7. Distinct(p)
  <2> SUFFICES ASSUME NEW a \in DOMAIN p, NEW b \in DOMAIN p, p[a].event = p[b].event
               PROVE  a = b
    BY DEF Distinct
  <2>1. CASE a \in DOMAIN q /\ b \in DOMAIN q
    BY <1>5, <2>1 DEF Distinct
  <2>2. CASE a = m + 1 /\ b = m + 1
    BY <2>2
  <2>3. CASE a \in DOMAIN q /\ b = m + 1
    BY <1>5, <1>6, <2>3 DEF Holds
  <2>4. CASE b \in DOMAIN q /\ a = m + 1
    BY <1>5, <1>6, <2>4 DEF Holds
  <2> QED
    BY <1>4, <2>1, <2>2, <2>3, <2>4
<1>8. ASSUME NEW v
      PROVE  Holds(p, v) <=> Holds(q, v) \/ v = x.event
  BY <1>4, <1>5, <1>6 DEF Holds
<1> QED
  BY <1>2, <1>7, <1>8

\* A mutation of the driver: the instance runs, so that nobody waits and no event is taken
\* directly; the step it settles takes the event it consumes out of the queue.
LEMMA RecordsLanded ==
  ASSUME ClaimInv, RecordsInv, NEW c \in Controllers, NEW t \in Instants, NEW k, k = job[c].call,
         Accepted(job[c]), Mutation(job[c].epoch, t, k),
         steps' = [steps EXCEPT ![k.name] = k.to],
         IF k.phase = "consume"
         THEN \E i \in DOMAIN queue : queue[i].event = k.event /\ queue' = RemoveAt(queue, i)
         ELSE UNCHANGED queue,
         UNCHANGED <<now, row, send, fresh, faults>>
  PROVE  RecordsInv' /\ OthersTyped'
<1> DEFINE n == k.name
<1>1. TypeOK /\ k \in Calls /\ SoundCall(k) /\ k.phase \in {"insert", "write", "consume"}
  BY CallFacts DEF Accepted, Formed, Jobs
<1>2. /\ n \in Names /\ k.to \in StepRows /\ SoundStep(k.to) /\ k.to.result = k.event /\ k.to # None
      /\ k.phase = "consume" => k.event \in Events
      /\ k.phase # "consume" => k.event = None
  BY <1>1, NoneIsNoRow DEF SoundCall
<1>3. /\ row.status = "running" /\ row.owned /\ steps[n] = k.prior
      /\ steps[n] # None => steps[n].result = None
  BY <1>1 DEF Mutation, Runnable, Claimed, SoundCall, SoundStep
<1>4. \A m \in Names : steps'[m] = IF m = n THEN k.to ELSE steps[m]
  BY <1>1 DEF TypeOK
<1>5. steps' \in [Names -> StepRows \cup {None}]
  BY <1>1, <1>2 DEF TypeOK
<1>6. Distinct(queue) /\ queue \in Seq([event: Events, at: Nat])
  BY <1>1 DEF RecordsInv, EventsPlaced, Distinct, TypeOK
<1>7. /\ queue' \in Seq([event: Events, at: Nat]) /\ Distinct(queue')
      /\ \A v : Holds(queue', v) <=> Holds(queue, v) /\ (k.phase = "consume" => v # k.event)
  <2>1. CASE k.phase = "consume"
    <3>1. PICK i \in DOMAIN queue : queue[i].event = k.event /\ queue' = RemoveAt(queue, i)
      BY <2>1
    <3>2. /\ queue' \in Seq([event: Events, at: Nat]) /\ Distinct(queue')
          /\ \A v : Holds(queue', v) <=> Holds(queue, v) /\ v # queue[i].event
      BY <1>6, <3>1, RemovedIs
    <3> QED
      BY <2>1, <3>1, <3>2
  <2>2. CASE k.phase # "consume"
    BY <1>6, <2>2
  <2> QED
    BY <2>1, <2>2
<1>8. k.phase = "consume" => Holds(queue, k.event)
  BY DEF Holds
<1>9. StepsSound'
  BY <1>2, <1>4 DEF StepsSound, RecordsInv
<1>10. SendsFresh'
  <2>1. \A u : PendingWait(u) = {} /\ PendingWait(u)' = {}
    BY <1>3 DEF PendingWait
  <2> QED
    BY <2>1 DEF RecordsInv, SendsFresh
<1>11. WaitersParked' /\ WaitersWoken'
  BY <1>3 DEF WaitersParked, WaitersWoken
<1>12. EventsPlaced'
  <2>1. \A v : InQueue(v) <=> Holds(queue, v)
    BY DEF InQueue, Holds
  <2>2. \A v : InQueue(v)' <=> Holds(queue', v)
    BY DEF InQueue, Holds
  <2>3. \A v \in Events : IsTaken(v)' <=> IsTaken(v) \/ v = k.event
    BY <1>2, <1>3, <1>4, ConstantsTyped DEF IsTaken
  <2>4. Active(row)
    BY <1>3 DEF Active, Terminal
  <2>5. /\ \A v \in Events : ~(InQueue(v) /\ IsTaken(v))
        /\ \A v \in Events : (InQueue(v) \/ IsTaken(v)) <=> send[v].pc = "accepted"
    BY <2>4 DEF RecordsInv, EventsPlaced
  <2>6. \A v \in Events : ~(InQueue(v) /\ IsTaken(v))'
    BY <1>2, <1>7, <2>1, <2>2, <2>3, <2>5, ConstantsTyped
  <2>7. \A v \in Events : (InQueue(v)' \/ IsTaken(v)') <=> send'[v].pc = "accepted"
    <3> SUFFICES ASSUME NEW v \in Events
                 PROVE  (InQueue(v)' \/ IsTaken(v)') <=> send[v].pc = "accepted"
      OBVIOUS
    <3>1. InQueue(v)' \/ IsTaken(v)' <=> InQueue(v) \/ IsTaken(v)
      BY <1>2, <1>7, <1>8, <2>1, <2>2, <2>3, ConstantsTyped
    <3> QED
      BY <2>5, <3>1
  <2>8. ASSUME NEW a \in Names, NEW b \in Names, steps'[a] # None, steps'[b] # None,
               steps'[a].result # None, steps'[a].result = steps'[b].result
        PROVE  a = b
    <3>1. k.event # None => \A m \in Names : steps[m] # None => steps[m].result # k.event
      BY <1>2, <1>8, <2>1, <2>5 DEF IsTaken
    <3>2. \A m, l \in Names :
            /\ steps[m] # None /\ steps[l] # None
            /\ steps[m].result # None /\ steps[m].result = steps[l].result
            => m = l
      BY DEF RecordsInv, EventsPlaced
    <3>3. CASE a # n /\ b # n
      BY <1>4, <2>8, <3>2, <3>3
    <3>4. CASE a = n /\ b # n
      BY <1>2, <1>4, <2>8, <3>1, <3>4
    <3>5. CASE a # n /\ b = n
      BY <1>2, <1>4, <2>8, <3>1, <3>5
    <3> QED
      BY <3>3, <3>4, <3>5
  <2>9. \A i, l \in DOMAIN queue' : queue'[i].event = queue'[l].event => i = l
    BY <1>7 DEF Distinct
  <2>10. Active(row)'
    BY <2>4 DEF Active
  <2> QED
    BY <2>6, <2>7, <2>8, <2>9, <2>10 DEF EventsPlaced
<1>13. OthersTyped'
  BY <1>1, <1>5, <1>7 DEF TypeOK, OthersTyped
<1> QED
  BY <1>9, <1>10, <1>11, <1>12, <1>13 DEF RecordsInv

-----------------------------------------------------------------------------
(* Events.                                                                  *)

SendRecords == [pc: {"idle", "commit", "accepted", "refused"}, at: Nat, direct: Names \cup {None}]

LEMMA SendsTyped ==
  ASSUME TypeOK
  PROVE  send \in [Events -> SendRecords] /\ \A v \in Events : send[v] \in SendRecords /\ send[v].at \in Nat
BY DEF TypeOK, SendRecords

\* No event that has not been accepted has a place.
LEMMA NotPlaced ==
  ASSUME EventsPlaced, Active(row), NEW v \in Events, send[v].pc # "accepted"
  PROVE  ~InQueue(v) /\ ~IsTaken(v)
BY DEF EventsPlaced

LEMMA RecordsAttempted ==
  ASSUME TypeOK, RecordsInv, NEW v \in Events, NEW t \in Nat, t <= now, v \notin fresh,
         send[v].pc \in {"idle", "commit"}, Attempt(v, t),
         UNCHANGED <<now, row, steps, queue, faults>>
  PROVE  RecordsInv' /\ OthersTyped'
<1> DEFINE n == send'[v].direct
<1>1. /\ send' \in [Events -> SendRecords] /\ fresh' \subseteq Events
      /\ \A u \in Events : u # v => send'[u] = send[u]
      /\ send'[v].pc # "accepted" /\ send'[v].at <= now
      /\ fresh' = fresh \/ (fresh' = fresh \cup {v} /\ send'[v].pc = "commit" /\ send'[v].at = t
                            /\ (PendingWait(t) = {} => n = None)
                            /\ (PendingWait(t) # {} => n \in PendingWait(t)))
  <2>0. fresh \subseteq Events /\ now \in Nat
    BY EpochTyped DEF TypeOK
  <2>1. CASE Active(row)
    <3> DEFINE m == IF PendingWait(t) = {} THEN None ELSE CHOOSE k \in PendingWait(t) : TRUE
    <3>1. PendingWait(t) \subseteq Names
      BY DEF PendingWait, Recorded
    <3>2. m \in Names \cup {None} /\ (PendingWait(t) = {} => m = None) /\ (PendingWait(t) # {} => m \in PendingWait(t))
      BY <3>1
    <3>3. fresh' = fresh \cup {v} /\ send' = [send EXCEPT ![v] = [pc |-> "commit", at |-> t, direct |-> m]]
      BY <2>1 DEF Attempt
    <3> HIDE DEF m
    <3>4. [pc |-> "commit", at |-> t, direct |-> m] \in SendRecords
      BY <3>2 DEF SendRecords
    <3>5. /\ send' \in [Events -> SendRecords] /\ \A u \in Events : u # v => send'[u] = send[u]
          /\ send'[v] = [pc |-> "commit", at |-> t, direct |-> m]
      BY <3>3, <3>4, SendsTyped
    <3>6. send'[v].pc = "commit" /\ send'[v].at = t /\ n = m
      BY <3>5
    <3> QED
      BY <2>0, <3>2, <3>3, <3>5, <3>6
  <2>2. CASE ~Active(row)
    <3>1. fresh' = fresh /\ send' = [send EXCEPT ![v] = [pc |-> "refused", at |-> 0, direct |-> None]]
      BY <2>2 DEF Attempt
    <3>2. [pc |-> "refused", at |-> 0, direct |-> None] \in SendRecords
      BY DEF SendRecords
    <3>3. /\ send' \in [Events -> SendRecords] /\ \A u \in Events : u # v => send'[u] = send[u]
          /\ send'[v] = [pc |-> "refused", at |-> 0, direct |-> None]
      BY <3>1, <3>2, SendsTyped
    <3>4. send'[v].pc = "refused" /\ send'[v].at = 0
      BY <3>3
    <3> QED
      BY <2>0, <3>1, <3>3, <3>4
  <2> QED
    BY <2>1, <2>2
<1>2. \A u : PendingWait(u)' = PendingWait(u)
  BY DEF PendingWait, Recorded
<1>3. SendsFresh'
  <2>1. \A u \in Events : send'[u].at <= now'
    BY <1>1 DEF RecordsInv, SendsFresh
  <2> SUFFICES ASSUME NEW u \in fresh'
               PROVE  /\ send'[u].pc = "commit"
                      /\ send'[u].direct = None => PendingWait(send'[u].at) = {}
                      /\ send'[u].direct # None => send'[u].direct \in PendingWait(send'[u].at)
    BY <1>2, <2>1 DEF SendsFresh
  <2>2. u \in Events
    BY <1>1
  <2>3. CASE u # v
    BY <1>1, <2>2, <2>3 DEF RecordsInv, SendsFresh
  <2>4. CASE u = v
    <3>1. PendingWait(t) \subseteq Names
      BY DEF PendingWait, Recorded
    <3> QED
      BY <1>1, <2>4, <3>1, ConstantsTyped
  <2> QED
    BY <2>3, <2>4
<1>4. StepsSound' /\ WaitersParked' /\ WaitersWoken'
  BY DEF RecordsInv, StepsSound, WaitersParked, WaitersWoken, Matching
<1>5. EventsPlaced'
  <2>1. \A u \in Events : send'[u].pc = "accepted" <=> send[u].pc = "accepted"
    BY <1>1
  <2> QED
    BY <2>1 DEF RecordsInv, EventsPlaced, InQueue, IsTaken, Recorded, Active
<1>6. OthersTyped'
  BY <1>1 DEF OthersTyped, TypeOK, SendRecords
<1> QED
  BY <1>3, <1>4, <1>5, <1>6 DEF RecordsInv

\* An event leaves the calls of sendEvent.
LEMMA BecameIs ==
  ASSUME TypeOK, NEW v \in Events, NEW pc \in {"accepted", "refused"},
         send' = [send EXCEPT ![v] = [pc |-> pc, at |-> 0, direct |-> None]]
  PROVE  /\ send' \in [Events -> SendRecords] /\ \A u \in Events : u # v => send'[u] = send[u]
         /\ send'[v].pc = pc /\ send'[v].at = 0
<1>1. [pc |-> pc, at |-> 0, direct |-> None] \in SendRecords
  BY DEF SendRecords
<1>2. /\ send' \in [Events -> SendRecords] /\ \A u \in Events : u # v => send'[u] = send[u]
      /\ send'[v] = [pc |-> pc, at |-> 0, direct |-> None]
  BY <1>1, SendsTyped
<1> QED
  BY <1>2

\* The wait that was read takes the event.
LEMMA RecordsDirect ==
  ASSUME TypeOK, RecordsInv, NEW v \in fresh, NEW n, NEW t, n = send[v].direct, t = send[v].at, n # None,
         steps' = [steps EXCEPT ![n] = SettledStep(@, "complete", v)],
         row' = [row EXCEPT !.wakeAt = t], fresh' = {},
         send' = [send EXCEPT ![v] = [pc |-> "accepted", at |-> 0, direct |-> None]],
         UNCHANGED <<now, queue, faults>>
  PROVE  RecordsInv' /\ OthersTyped'
<1> DEFINE x == SettledStep(steps[n], "complete", v)
<1>1. v \in Events /\ now \in Nat /\ t \in Nat /\ send[v].pc = "commit" /\ t <= now /\ n \in PendingWait(t)
  BY EpochTyped, SendsTyped DEF TypeOK, RecordsInv, SendsFresh
<1>2. /\ n \in Names /\ steps[n] # None /\ steps[n].kind = "wait" /\ steps[n].state = "waiting"
      /\ row.status = "waiting" /\ row.pending = n /\ ~row.owned
  BY <1>1 DEF PendingWait, Recorded
<1>3. steps[n] \in StepRows /\ steps[n].result = None
  BY <1>2 DEF TypeOK, RecordsInv, StepsSound, SoundStep, Settled
<1>4. x \in StepRows /\ SoundStep(x) /\ x.result = v /\ x.state = "complete" /\ x.kind = "wait" /\ x # None
  <2>1. "complete" \in Settled /\ v \in Events \cup {None}
    BY <1>1 DEF Settled
  <2>2. x \in StepRows /\ SoundStep(x) /\ x.result = v /\ x.state = "complete" /\ x.kind = steps[n].kind
    BY <1>3, <2>1, SettledIs
  <2> QED
    BY <1>2, <2>2, NoneIsNoRow
<1>5. steps' = [steps EXCEPT ![n] = x]
  BY <1>2 DEF TypeOK
<1> HIDE DEF x
<1>6. steps' \in [Names -> StepRows \cup {None}] /\ \A m \in Names : steps'[m] = IF m = n THEN x ELSE steps[m]
  BY <1>4, <1>5 DEF TypeOK
<1>7. row' \in Rows /\ row'.status = "waiting" /\ row'.pending = n /\ row'.owned = row.owned /\ row'.wakeAt = t
  BY <1>1, <1>2, WakeSet DEF TypeOK
<1>8. /\ send' \in [Events -> SendRecords] /\ \A u \in Events : u # v => send'[u] = send[u]
      /\ send'[v].pc = "accepted" /\ send'[v].at = 0
  BY <1>1, BecameIs
<1>9. StepsSound'
  BY <1>4, <1>6 DEF StepsSound, RecordsInv
<1>10. SendsFresh'
  BY <1>1, <1>8 DEF SendsFresh, RecordsInv
<1>11. WaitersParked'
  BY <1>2, <1>4, <1>6, <1>7 DEF WaitersParked
<1>12. WaitersWoken'
  BY <1>1, <1>7 DEF WaitersWoken
<1>13. EventsPlaced'
  <2>1. Active(row) /\ Active(row)'
    BY <1>2, <1>7 DEF Active, Terminal
  <2>2. ~InQueue(v) /\ ~IsTaken(v)
    BY <1>1, <2>1, NotPlaced DEF RecordsInv
  <2>3. \A u : InQueue(u)' <=> InQueue(u)
    BY DEF InQueue
  <2>4. \A u \in Events : IsTaken(u)' <=> IsTaken(u) \/ u = v
    BY <1>2, <1>3, <1>4, <1>6, ConstantsTyped DEF IsTaken
  <2>5. ASSUME NEW a \in Names, NEW b \in Names, steps'[a] # None, steps'[b] # None,
               steps'[a].result # None, steps'[a].result = steps'[b].result
        PROVE  a = b
    <3>1. \A m \in Names : steps[m] # None => steps[m].result # v
      BY <2>2 DEF IsTaken
    <3>2. CASE a # n /\ b # n
      BY <1>6, <2>5, <3>2 DEF RecordsInv, EventsPlaced
    <3>3. CASE (a = n /\ b # n) \/ (b = n /\ a # n)
      BY <1>4, <1>6, <2>5, <3>1, <3>3
    <3> QED
      BY <3>2, <3>3
  <2>6. \A u \in Events : ~(InQueue(u) /\ IsTaken(u)) /\ ((InQueue(u) \/ IsTaken(u)) <=> send[u].pc = "accepted")
    BY <2>1 DEF RecordsInv, EventsPlaced
  <2>7. \A u \in Events : ~(InQueue(u)' /\ IsTaken(u)')
    BY <2>2, <2>3, <2>4, <2>6
  <2>8. \A u \in Events : (InQueue(u)' \/ IsTaken(u)') <=> send'[u].pc = "accepted"
    BY <1>8, <2>3, <2>4, <2>6
  <2>9. \A i, l \in DOMAIN queue' : queue'[i].event = queue'[l].event => i = l
    BY DEF RecordsInv, EventsPlaced
  <2> QED
    BY <2>1, <2>5, <2>7, <2>8, <2>9 DEF EventsPlaced
<1>14. OthersTyped'
  BY <1>6, <1>8 DEF OthersTyped, TypeOK, SendRecords
<1> QED
  BY <1>9, <1>10, <1>11, <1>12, <1>13, <1>14 DEF RecordsInv

\* The event is queued: a wait that could take it has been read and been found due, or its
\* timeout comes before the event.
LEMMA RecordsQueued ==
  ASSUME TypeOK, RecordsInv, NEW v \in fresh, NEW n, NEW t, n = send[v].direct, t = send[v].at,
         n # None => Matching(steps[n].at) # {},
         Active(row), ~row.termination, Deadline > t,
         queue' = Append(queue, [event |-> v, at |-> t]),
         send' = [send EXCEPT ![v] = [pc |-> "accepted", at |-> 0, direct |-> None]],
         fresh' = fresh \ {v},
         UNCHANGED <<now, row, steps, faults>>
  PROVE  RecordsInv' /\ OthersTyped'
<1> DEFINE x == [event |-> v, at |-> t]
<1>1. /\ v \in Events /\ now \in Nat /\ t \in Nat /\ send[v].pc = "commit" /\ t <= now
      /\ n = None => PendingWait(t) = {}
      /\ n # None => n \in PendingWait(t)
  BY EpochTyped, SendsTyped DEF TypeOK, RecordsInv, SendsFresh
<1>2. ~InQueue(v) /\ ~IsTaken(v)
  BY <1>1, NotPlaced DEF RecordsInv
<1>3. Distinct(queue) /\ queue \in Seq([event: Events, at: Nat]) /\ ~Holds(queue, v)
  BY <1>2 DEF RecordsInv, EventsPlaced, Distinct, TypeOK, InQueue, Holds
<1>4. x \in [event: Events, at: Nat] /\ x.event = v /\ x.at = t
  BY <1>1
<1>5. queue' = Append(queue, x)
  OBVIOUS
<1> HIDE DEF x
<1>6. /\ queue' \in Seq([event: Events, at: Nat]) /\ Distinct(queue')
      /\ \A u : Holds(queue', u) <=> Holds(queue, u) \/ u = v
  <2>1. ~Holds(queue, x.event)
    BY <1>3, <1>4
  <2> DEFINE S == [event: Events, at: Nat]
             p == queue'
             q == queue
  <2>2. q \in Seq(S) /\ x \in S /\ Distinct(q) /\ ~Holds(q, x.event) /\ p = Append(q, x)
    BY <1>3, <1>4, <1>5, <2>1
  <2> HIDE DEF S, p, q
  <2>3. p \in Seq(S) /\ Distinct(p) /\ \A u : Holds(p, u) <=> Holds(q, u) \/ u = x.event
    BY <2>2, AppendedIs
  <2> QED
    BY <1>4, <2>3 DEF S, p, q
<1>7. /\ send' \in [Events -> SendRecords] /\ \A u \in Events : u # v => send'[u] = send[u]
      /\ send'[v].pc = "accepted" /\ send'[v].at = 0
  BY <1>1, BecameIs
<1>8. StepsSound' /\ WaitersParked'
  BY DEF StepsSound, WaitersParked, RecordsInv
<1>9. SendsFresh'
  <2>1. \A u : PendingWait(u)' = PendingWait(u)
    BY DEF PendingWait, Recorded
  <2>2. \A u \in Events : send'[u].at <= now'
    BY <1>1, <1>7 DEF RecordsInv, SendsFresh
  <2>3. \A u \in fresh' : u \in fresh /\ u \in Events /\ u # v
    BY DEF TypeOK
  <2> QED
    BY <1>7, <2>1, <2>2, <2>3 DEF RecordsInv, SendsFresh
<1>10. WaitersWoken'
  <2> DEFINE p == row.pending
  <2> SUFFICES ASSUME row.status = "waiting", p # None,
                      steps[p].state = "complete" \/ Matching(steps[p].at)' # {}
               PROVE  row.wakeAt <= now
    BY DEF WaitersWoken
  <2>0. steps[p].state = "complete" \/ Matching(steps[p].at) # {} => row.wakeAt <= now
    BY DEF RecordsInv, WaitersWoken
  <2>1. /\ p \in Names /\ ~row.owned /\ steps[p] # None /\ steps[p].kind = "wait"
        /\ steps[p].state \in {"waiting", "complete"}
    BY DEF RecordsInv, WaitersParked
  <2>2. CASE n # None
    <3>1. n = p
      BY <1>1, <2>2 DEF PendingWait
    <3> QED
      BY <2>0, <2>2, <3>1
  <2>3. CASE n = None /\ steps[p].state = "waiting"
    <3>1. ~(steps[p].at >= t)
      BY <1>1, <2>1, <2>3 DEF PendingWait, Recorded
    <3>2. PICK i \in DOMAIN queue' : queue'[i].at <= steps[p].at
      BY <2>3 DEF Matching
    <3>3. Len(queue) \in Nat /\ DOMAIN queue = 1..Len(queue)
      BY <1>3, LenProperties
    <3>4. DOMAIN queue' = 1..(Len(queue) + 1)
      BY <1>3, <1>4, <1>5, <1>6, AppendProperties, LenProperties
    <3>5. queue'[Len(queue) + 1] = x /\ \A l \in 1..Len(queue) : queue'[l] = queue[l]
      BY <1>3, <1>4, <1>5, AppendProperties
    <3>6. steps[p].at \in Nat
      BY <2>1 DEF TypeOK, StepRows
    <3>7. i # Len(queue) + 1
      BY <1>1, <1>4, <3>1, <3>2, <3>5, <3>6
    <3>8. i \in DOMAIN queue /\ queue[i].at <= steps[p].at
      BY <3>2, <3>3, <3>4, <3>5, <3>7
    <3> QED
      BY <2>0, <3>8 DEF Matching
  <2> QED
    BY <2>0, <2>1, <2>2, <2>3
<1>11. EventsPlaced'
  <2>1. \A u : InQueue(u) <=> Holds(queue, u)
    BY DEF InQueue, Holds
  <2>2. \A u : InQueue(u)' <=> Holds(queue', u)
    BY DEF InQueue, Holds
  <2>3. \A u : IsTaken(u)' <=> IsTaken(u)
    BY DEF IsTaken
  <2>4. \A u \in Events : ~(InQueue(u) /\ IsTaken(u)) /\ ((InQueue(u) \/ IsTaken(u)) <=> send[u].pc = "accepted")
    BY DEF RecordsInv, EventsPlaced
  <2>5. \A u \in Events : ~(InQueue(u)' /\ IsTaken(u)')
    BY <1>2, <1>6, <2>1, <2>2, <2>3, <2>4
  <2>6. \A u \in Events : (InQueue(u)' \/ IsTaken(u)') <=> send'[u].pc = "accepted"
    BY <1>6, <1>7, <2>1, <2>2, <2>3, <2>4
  <2>7. Active(row)'
    BY DEF Active
  <2>8. \A i, l \in DOMAIN queue' : queue'[i].event = queue'[l].event => i = l
    BY <1>6 DEF Distinct
  <2>9. \A a, m \in Names :
          /\ steps'[a] # None /\ steps'[m] # None
          /\ steps'[a].result # None /\ steps'[a].result = steps'[m].result
          => a = m
    BY DEF RecordsInv, EventsPlaced
  <2> QED
    BY <2>5, <2>6, <2>7, <2>8, <2>9 DEF EventsPlaced
<1>12. OthersTyped'
  BY <1>6, <1>7 DEF OthersTyped, TypeOK, SendRecords
<1> QED
  BY <1>8, <1>9, <1>10, <1>11, <1>12 DEF RecordsInv

LEMMA RecordsRefused ==
  ASSUME TypeOK, RecordsInv, NEW v \in fresh,
         send' = [send EXCEPT ![v] = [pc |-> "refused", at |-> 0, direct |-> None]],
         fresh' = fresh \ {v}, UNCHANGED <<now, row, steps, queue, faults>>
  PROVE  RecordsInv' /\ OthersTyped'
<1>1. v \in Events /\ now \in Nat /\ send[v].pc = "commit"
  BY EpochTyped DEF TypeOK, RecordsInv, SendsFresh
<1>2. /\ send' \in [Events -> SendRecords] /\ \A u \in Events : u # v => send'[u] = send[u]
      /\ send'[v].pc = "refused" /\ send'[v].at = 0
  BY <1>1, BecameIs
<1>3. SendsFresh'
  <2>1. \A u : PendingWait(u)' = PendingWait(u)
    BY DEF PendingWait, Recorded
  <2>2. \A u \in Events : send'[u].at <= now'
    BY <1>1, <1>2 DEF RecordsInv, SendsFresh
  <2>3. \A u \in fresh' : u \in fresh /\ u \in Events /\ u # v
    BY DEF TypeOK
  <2> QED
    BY <1>2, <2>1, <2>2, <2>3 DEF RecordsInv, SendsFresh
<1>4. StepsSound' /\ WaitersParked' /\ WaitersWoken'
  BY DEF RecordsInv, StepsSound, WaitersParked, WaitersWoken, Matching
<1>5. EventsPlaced'
  <2>1. \A u \in Events : send'[u].pc = "accepted" <=> send[u].pc = "accepted"
    BY <1>1, <1>2
  <2> QED
    BY <2>1 DEF RecordsInv, EventsPlaced, InQueue, IsTaken, Recorded, Active
<1>6. OthersTyped'
  BY <1>2 DEF OthersTyped, TypeOK, SendRecords
<1> QED
  BY <1>3, <1>4, <1>5, <1>6 DEF RecordsInv

-----------------------------------------------------------------------------
(* The invariant is kept, by what a step touches.                           *)

LEMMA InvParts ==
  ASSUME WorkflowInv
  PROVE  /\ ClaimInv /\ JournalInv /\ RecordsInv /\ JobsLooked /\ TypeOK /\ OthersTyped /\ row \in Rows
         /\ now \in Nat
BY EpochTyped DEF WorkflowInv, ClaimInv, JournalInv, RecordsInv, TypeOK, OthersTyped

LEMMA InvFromParts ==
  ASSUME ClaimInv', RecordsInv', JobsLooked'
  PROVE  WorkflowInv'
BY DEF WorkflowInv, JournalInv, RecordsInv

\* The moving call aside, all calls are what they were.
LEMMA LookedStep ==
  ASSUME TypeOK, JobsLooked, RowFades, NEW c \in Controllers, NEW x, Become(c, x), Blind(x) \/ Looked(x),
         row'.status = "running" => row.status = "running" /\ steps' = steps
  PROVE  JobsLooked'
<1>1. \A d \in Controllers : job'[d] = IF d = c THEN x ELSE job[d]
  BY BecomeIs
<1>2. \A d \in Controllers : job'[d] = job[d] \/ Blind(job'[d]) \/ Looked(job'[d])
  BY <1>1
<1> QED
  BY <1>2, LookedKept

\* A call moves on and nothing else happens.
LEMMA QuietStep ==
  ASSUME WorkflowInv, NEW c \in Controllers, CallMoves(c),
         UNCHANGED <<now, row, journal, context, send, fresh>>, faults' \in 0..MaxFaults
  PROVE  WorkflowInv'
<1>1. PICK x : Become(c, x) /\ Sound(job[c], x)
  BY DEF CallMoves
<1>2. Follows(job[c], x) /\ Proven(x) /\ (Blind(x) \/ Looked(x))
  BY <1>1 DEF Sound
<1>3. /\ ClaimInv /\ RecordsInv /\ JobsLooked /\ TypeOK /\ OthersTyped /\ row' = row /\ steps' = steps
      /\ queue' = queue /\ send' = send /\ fresh' = fresh /\ now' = now /\ context' = context
  BY InvParts DEF journal
<1>4. row' \in Rows /\ RowFades /\ RowHeld
  BY <1>3, KeptRowFades
<1>5. OthersTyped'
  BY <1>3 DEF OthersTyped
<1>6. ClaimInv'
  BY <1>1, <1>2, <1>3, <1>4, <1>5, CallStepKeeps
<1>7. JobsLooked'
  BY <1>1, <1>2, <1>3, <1>4, LookedStep
<1>8. RecordsInv'
  <2>1. KeepRow /\ Active(row)' = Active(row) /\ now' \in {now, now + 1}
    BY <1>3 DEF KeepRow, Active
  <2>2. row'.status = "waiting" => /\ row.status = "waiting" /\ ~row'.owned
                                   /\ row'.pending = row.pending /\ row'.wakeAt = row.wakeAt
    BY <1>3 DEF RecordsInv, WaitersParked
  <2> QED
    BY <1>3, <2>1, <2>2, RecordsKept
<1> QED
  BY <1>6, <1>7, <1>8, InvFromParts

\* The row keeps its state; its owner or its termination may go.
RowStays ==
  /\ row' \in Rows /\ RowFades /\ RowHeld
  /\ row'.status = row.status /\ row'.pending = row.pending /\ row'.wakeAt = row.wakeAt
  /\ row'.owned => row.owned

LEMMA RowStep ==
  ASSUME WorkflowInv, NEW c \in Controllers, CallMoves(c), RowStays, fresh' = {},
         UNCHANGED <<now, journal, context, send, faults>>
  PROVE  WorkflowInv'
<1>1. PICK x : Become(c, x) /\ Sound(job[c], x)
  BY DEF CallMoves
<1>2. Follows(job[c], x) /\ Proven(x) /\ (Blind(x) \/ Looked(x))
  BY <1>1 DEF Sound
<1>3. /\ ClaimInv /\ RecordsInv /\ JobsLooked /\ TypeOK /\ OthersTyped /\ steps' = steps
      /\ queue' = queue /\ send' = send /\ now' = now /\ context' = context /\ faults' = faults
  BY InvParts DEF journal
<1>4. row' \in Rows /\ RowFades /\ RowHeld
  BY DEF RowStays
<1>5. OthersTyped'
  BY <1>3 DEF OthersTyped
<1>6. ClaimInv'
  BY <1>1, <1>2, <1>3, <1>4, <1>5, CallStepKeeps
<1>7. JobsLooked'
  BY <1>1, <1>2, <1>3, <1>4, LookedStep DEF RowStays
<1>8. RecordsInv'
  <2>1. Active(row)' = Active(row) /\ now' \in {now, now + 1}
    BY <1>3 DEF RowStays, Active
  <2>2. row'.status = "waiting" => /\ row.status = "waiting" /\ ~row'.owned
                                   /\ row'.pending = row.pending /\ row'.wakeAt = row.wakeAt
    BY <1>3 DEF RecordsInv, WaitersParked, RowStays
  <2> QED
    BY <1>3, <2>1, <2>2, RecordsKept
<1> QED
  BY <1>6, <1>7, <1>8, InvFromParts

\* The instance ends with its journal.
RowEnds == row' \in Rows /\ RowFades /\ ~Active(row)' /\ NobodyRuns

LEMMA EndStep ==
  ASSUME WorkflowInv, NEW c \in Controllers, CallMoves(c), RowEnds, DropJournal, fresh' = {},
         UNCHANGED <<now, context, send, faults>>
  PROVE  WorkflowInv'
<1>1. PICK x : Become(c, x) /\ Sound(job[c], x)
  BY DEF CallMoves
<1>2. Follows(job[c], x) /\ Proven(x) /\ (Blind(x) \/ Looked(x))
  BY <1>1 DEF Sound
<1>3. /\ ClaimInv /\ RecordsInv /\ JobsLooked /\ TypeOK /\ OthersTyped
      /\ steps' = [n \in Names |-> None] /\ queue' = <<>>
      /\ send' = send /\ now' = now /\ context' = context /\ faults' = faults
  BY InvParts DEF DropJournal
<1>4. row' \in Rows /\ RowFades /\ RowHeld
  BY DEF RowEnds, RowHeld
<1>5. OthersTyped'
  BY <1>3 DEF OthersTyped
<1>6. ClaimInv'
  BY <1>1, <1>2, <1>3, <1>4, <1>5, CallStepKeeps
<1>7. JobsLooked'
  BY <1>1, <1>2, <1>3, <1>4, LookedStep DEF RowEnds, Active, Terminal
<1>8. RecordsInv'
  <2>1. \A v \in Events : send'[v].at <= now
    BY <1>3 DEF RecordsInv, SendsFresh
  <2> QED
    BY <1>3, <2>1, RecordsDropped DEF RowEnds
<1> QED
  BY <1>6, <1>7, <1>8, InvFromParts

LEMMA EndStepAlone ==
  ASSUME WorkflowInv, RowEnds, DropJournal, fresh' = {}, UNCHANGED <<now, context, job, faults>>,
         send' \in [Events -> SendRecords], \A v \in Events : send'[v].at <= now
  PROVE  WorkflowInv'
<1>1. /\ ClaimInv /\ RecordsInv /\ JobsLooked /\ TypeOK /\ OthersTyped
      /\ steps' = [n \in Names |-> None] /\ queue' = <<>>
      /\ job' = job /\ now' = now /\ context' = context /\ faults' = faults
  BY InvParts DEF DropJournal
<1>2. row' \in Rows /\ RowFades /\ RowHeld
  BY DEF RowEnds, RowHeld
<1>3. OthersTyped'
  BY <1>1 DEF OthersTyped, SendRecords
<1>4. ClaimInv'
  BY <1>1, <1>2, <1>3, NoCallStepKeeps
<1>5. JobsLooked'
  BY <1>1, <1>2, LookedKept DEF RowEnds, Active, Terminal
<1>6. RecordsInv'
  BY <1>1, RecordsDropped DEF RowEnds
<1> QED
  BY <1>4, <1>5, <1>6, InvFromParts

\* A sendEvent that leaves the row's state alone.
LEMMA SendStep ==
  ASSUME WorkflowInv, UNCHANGED <<now, context, job, faults>>, RecordsInv', OthersTyped',
         row' \in Rows, RowFades, row'.status = row.status, row'.owned = row.owned,
         row.status = "running" => steps' = steps
  PROVE  WorkflowInv'
<1>1. ClaimInv /\ JobsLooked
  BY InvParts
<1>2. ClaimInv'
  BY <1>1, NoCallStepKeeps DEF RowHeld
<1>3. JobsLooked'
  BY <1>1, LookedKept
<1> QED
  BY <1>2, <1>3, InvFromParts

-----------------------------------------------------------------------------
(* The actions.                                                             *)

LEMMA QuietActions ==
  ASSUME WorkflowInv, NEW c \in Controllers,
         \/ Reread(c) \/ RunRejects(c) \/ Return(c) \/ Mismatch(c) \/ StopFails(c)
         \/ Effect(c) \/ Look(c) \/ Marked(c) \/ Recheck(c)
         \/ \E p \in Plan : CallStep(c, p[1], p[2])
  PROVE  WorkflowInv'
<1>1. ClaimInv /\ JobsLooked /\ StepsSound /\ faults \in 0..MaxFaults /\ MaxFaults \in Nat
  BY InvParts, ConstantsTyped DEF RecordsInv, TypeOK
<1>2. CASE Reread(c)
  <2>1. CallMoves(c)
    BY <1>1, <1>2, MovesReread
  <2> QED
    BY <1>1, <1>2, <2>1, QuietStep DEF Reread
<1>3. CASE RunRejects(c) \/ Return(c) \/ Mismatch(c)
  <2>1. CallMoves(c)
    BY <1>1, <1>3, MovesRunRejects
  <2>2. faults' \in 0..MaxFaults /\ UNCHANGED <<now, row, journal, context, send, fresh>>
    BY <1>1, <1>3 DEF RunRejects, Return, Mismatch
  <2> QED
    BY <1>1, <2>1, <2>2, QuietStep
<1>4. CASE StopFails(c)
  <2>1. CallMoves(c)
    BY <1>1, <1>4, MovesRunRejects
  <2>2. faults' \in 0..MaxFaults /\ UNCHANGED <<now, row, journal, context, send, fresh>>
    BY <1>1, <1>4 DEF StopFails
  <2> QED
    BY <2>1, <2>2, QuietStep
<1>5. CASE Effect(c)
  <2>1. CallMoves(c)
    BY <1>1, <1>5, MovesEffect
  <2>2. UNCHANGED <<now, row, journal, context, send, fresh, faults>>
    BY <1>5 DEF Effect
  <2> QED
    BY <1>1, <2>1, <2>2, QuietStep
<1>6. CASE Look(c)
  <2>1. CallMoves(c)
    BY <1>1, <1>6, MovesLook
  <2>2. UNCHANGED <<now, row, journal, context, send, fresh, faults>>
    BY <1>6 DEF Look
  <2> QED
    BY <1>1, <2>1, <2>2, QuietStep
<1>7. CASE Marked(c)
  <2>1. job[c].pc = "marked" /\ Become(c, LookingAgain(job[c]))
    BY <1>7 DEF Marked
  <2>2. CallMoves(c)
    BY <1>1, <2>1, MovesLookingAgain
  <2>3. UNCHANGED <<now, row, journal, context, send, fresh, faults>>
    BY <1>7 DEF Marked
  <2> QED
    BY <1>1, <2>2, <2>3, QuietStep
<1>8. CASE Recheck(c)
  <2>1. CallMoves(c)
    BY <1>1, <1>8, MovesRecheck
  <2>2. UNCHANGED <<now, row, journal, context, send, fresh, faults>>
    BY <1>8 DEF Recheck
  <2> QED
    BY <1>1, <2>1, <2>2, QuietStep
<1>9. CASE \E p \in Plan : CallStep(c, p[1], p[2])
  <2>1. PICK p \in Plan : CallStep(c, p[1], p[2])
    BY <1>9
  <2>2. p[1] \in Names /\ p[2] \in {"do", "sleep", "wait"}
    BY WorkflowAssumption
  <2>3. CallMoves(c)
    BY <1>1, <2>1, <2>2, MovesCallStep
  <2>4. UNCHANGED <<now, row, journal, context, send, fresh, faults>>
    BY <2>1 DEF CallStep
  <2> QED
    BY <1>1, <2>3, <2>4, QuietStep
<1> QED
  BY <1>2, <1>3, <1>4, <1>5, <1>6, <1>7, <1>8, <1>9

LEMMA SameFades ==
  ASSUME NEW z \in Contexts, z.host # None => z.state # "none"
  PROVE  Fades(z, z)
<1>1. z.until <= z.until
  BY DEF Contexts
<1> QED
  BY <1>1 DEF Fades

LEMMA DeadIs ==
  ASSUME NEW z \in Contexts, z.host # None => z.state # "none"
  PROVE  Dead(z) \in Contexts /\ Fades(z, Dead(z)) /\ Dead(z).state \notin {"paused", "running"}
<1>1. CASE z.state = "none"
  <2>1. Dead(z) = z
    BY <1>1 DEF Dead
  <2> QED
    BY <1>1, <2>1, SameFades
<1>2. CASE z.state # "none"
  <2> DEFINE y == Dead(z)
  <2>1. y = [z EXCEPT !.state = "stopped", !.until = 0]
    BY <1>2 DEF Dead
  <2>2. z # NoContext
    BY <1>2 DEF NoContext
  <2> HIDE DEF y
  <2>3. y \in Contexts /\ y.state = "stopped" /\ y.until = 0
    BY <2>1 DEF Contexts
  <2>4. z.until \in Nat
    BY DEF Contexts
  <2>5. Fades(z, y)
    BY <2>2, <2>3, <2>4 DEF Fades
  <2> QED
    BY <2>3, <2>5 DEF y
<1> QED
  BY <1>1, <1>2

\* Time passes or contexts end, and nothing else.
LEMMA FadingStep ==
  ASSUME WorkflowInv, now' \in {now, now + 1}, now' <= Horizon,
         context' \in [Epochs -> Contexts], ContextsFade,
         UNCHANGED <<row, journal, job, send, fresh, faults>>
  PROVE  WorkflowInv'
<1>1. /\ ClaimInv /\ RecordsInv /\ JobsLooked /\ TypeOK /\ OthersTyped /\ now \in Nat
      /\ StopsProved /\ CodeUnderClaim
  BY InvParts DEF ClaimInv
<1>2. /\ row' = row /\ steps' = steps /\ queue' = queue
      /\ job' = job /\ send' = send /\ fresh' = fresh /\ faults' = faults
  BY DEF journal
<1>3. now' \in Nat /\ now <= now' /\ now' \in 1..Horizon
  <2>1. now \in 1..Horizon
    BY <1>1 DEF TypeOK
  <2> QED
    BY <1>1, <2>1, ConstantsTyped
<1>4. TypeOK'
  BY <1>1, <1>2, <1>3 DEF TypeOK, Contexts
<1>5. RowFades
  BY <1>1, <1>2, KeptRowFades
<1>6. CodeUnderClaim'
  <2> SUFFICES ASSUME NEW e \in Epochs, context'[e].state = "running"
               PROVE  (Claimed(e)' /\ row'.status = "running") \/ Overdue(e)'
    BY DEF CodeUnderClaim, Executes
  <2>1. context[e].state = "running" /\ context'[e].until = context[e].until
    BY DEF ContextsFade, Fades
  <2>2. (Claimed(e) /\ row.status = "running") \/ context[e].until <= now
    BY <1>1, <2>1 DEF CodeUnderClaim, Executes, Overdue
  <2>3. context[e].until \in Nat
    BY <1>1 DEF TypeOK
  <2>4. context[e].until <= now => context'[e].until <= now'
    BY <1>1, <1>3, <2>1, <2>3
  <2> QED
    BY <1>2, <2>2, <2>4 DEF Claimed, Overdue
<1>7. \A d \in Controllers : Moves(job[d], job'[d]) /\ Proven(job'[d])
  BY <1>1, <1>2 DEF Moves, Proven, PastStop, StopsProved
<1>8. ClaimInv'
  BY <1>1, <1>2, <1>4, <1>5, <1>6, <1>7, FadeStep
<1>9. JobsLooked'
  BY <1>1, <1>2, <1>5, LookedKept
<1>10. RecordsInv'
  <2>1. KeepRow /\ Active(row)' = Active(row)
    BY <1>2 DEF KeepRow, Active
  <2>2. row'.status = "waiting" => /\ row.status = "waiting" /\ ~row'.owned
                                   /\ row'.pending = row.pending /\ row'.wakeAt = row.wakeAt
    BY <1>1, <1>2 DEF RecordsInv, WaitersParked
  <2> QED
    BY <1>1, <1>2, <2>1, <2>2, RecordsKept
<1> QED
  BY <1>8, <1>9, <1>10, InvFromParts

LEMMA TickKeeps ==
  ASSUME WorkflowInv, Tick
  PROVE  WorkflowInv'
<1>1. /\ ClaimInv /\ TypeOK /\ now \in Nat /\ ContextsBounded
  BY InvParts DEF ClaimInv
<1>2. /\ now < Horizon /\ now' = now + 1 /\ context' = context
      /\ UNCHANGED <<row, journal, job, send, fresh, faults>>
  BY DEF Tick
<1>3. context' \in [Epochs -> Contexts]
  BY <1>1, <1>2 DEF TypeOK, Contexts
<1>4. now' <= Horizon
  BY <1>1, <1>2, ConstantsTyped
<1>5. ContextsFade
  <2>1. \A e \in Epochs : context[e].until \in Nat /\ (context[e].host # None => context[e].state # "none")
    BY <1>1 DEF TypeOK, ContextsBounded
  <2> QED
    BY <1>2, <2>1 DEF ContextsFade, Fades
<1> QED
  BY <1>2, <1>3, <1>4, <1>5, FadingStep

LEMMA GuardKillsKeeps ==
  ASSUME WorkflowInv, NEW e \in Epochs, GuardKills(e)
  PROVE  WorkflowInv'
<1> DEFINE z == context[e]
           s == IF Executes(e) THEN "expired" ELSE "stopped"
           y == [z EXCEPT !.until = 0, !.state = s]
<1>1. /\ ClaimInv /\ TypeOK /\ now \in Nat /\ now <= Horizon /\ ContextsBounded
  <2>1. ClaimInv /\ TypeOK /\ ContextsBounded
    BY InvParts DEF ClaimInv
  <2>2. now \in 1..Horizon
    BY <2>1 DEF TypeOK
  <2> QED
    BY <2>1, <2>2, ConstantsTyped
<1>2. /\ now' = now /\ z.state \in {"paused", "running"}
      /\ context' = [context EXCEPT ![e].until = 0, ![e].state = s]
      /\ UNCHANGED <<row, journal, job, send, fresh, faults>>
  BY DEF GuardKills
<1>3. /\ \A i \in Epochs : context[i] \in Contexts /\ (context[i].host # None => context[i].state # "none")
      /\ context \in [Epochs -> Contexts]
  BY <1>1 DEF ContextsBounded, TypeOK, Contexts
<1>4. context'[e] = y /\ \A i \in Epochs \ {e} : context'[i] = context[i]
  BY <1>2, <1>3
<1>5. s \in {"expired", "stopped"} /\ y = [z EXCEPT !.until = 0, !.state = s] /\ z \in Contexts
  BY <1>3
<1>6. z # NoContext
  BY <1>2 DEF NoContext
<1>7. context' = [i \in Epochs |-> IF i = e THEN y ELSE context[i]]
  BY <1>2, <1>3
<1> HIDE DEF s, y, z
<1>8. y \in Contexts /\ y.state = s /\ y.until = 0 /\ y.host = z.host
  BY <1>5 DEF Contexts
<1>9. Fades(z, y)
  <2>1. z.until \in Nat
    BY <1>5 DEF Contexts
  <2> QED
    BY <1>5, <1>6, <1>8, <2>1 DEF Fades
<1>10. context' \in [Epochs -> Contexts]
  BY <1>3, <1>7, <1>8
<1>11. ContextsFade
  <2> SUFFICES ASSUME NEW i \in Epochs
               PROVE  Fades(context[i], context'[i])
    BY DEF ContextsFade
  <2>1. CASE i = e
    BY <1>4, <1>9, <2>1 DEF z
  <2>2. CASE i # e
    <3>1. Fades(context[i], context[i])
      BY <1>3, SameFades
    <3> QED
      BY <1>4, <2>2, <3>1
  <2> QED
    BY <2>1, <2>2
<1> QED
  BY <1>1, <1>2, <1>10, <1>11, FadingStep

\* An expired instance ends: every lease, and so every context, has ended with its lifetime.
LEMMA ExpireEnds ==
  ASSUME WorkflowInv, NEW t \in Instants, Expired(t), Expire, now' = now
  PROVE  /\ RowEnds /\ DropJournal /\ fresh' = {} /\ row' = Ended(row, "errored")
         /\ SameClaim(Ended(row, "errored"))
<1>1. ClaimInv /\ row \in Rows /\ now \in Nat
  BY InvParts
<1>2. row' = Ended(row, "errored") /\ fresh' = {} /\ DropJournal
  BY DEF Expire, SetRow
<1>3. "errored" \in Terminal
  BY DEF Terminal
<1>4. /\ row' \in Rows /\ row'.status = "errored" /\ row'.epoch = row.epoch /\ row'.owned = row.owned
      /\ row'.lease = row.lease
  BY <1>1, <1>2, <1>3, EndedIs
<1>5. NobodyRuns
  <2>1. Deadline <= now
    BY <1>1, ConstantsTyped DEF Expired, Instants
  <2> QED
    BY <1>1, <2>1, LapsedRests
<1>6. RowFades /\ ~Active(row)'
  <2>1. row.lease \in Nat
    BY <1>1 DEF Rows
  <2> QED
    BY <1>3, <1>4, <2>1 DEF RowFades, Active
<1> QED
  BY <1>2, <1>4, <1>5, <1>6 DEF RowEnds, SameClaim

LEMMA StatusKeeps ==
  ASSUME WorkflowInv, Status
  PROVE  WorkflowInv'
<1>1. /\ Expired(now) /\ Expire /\ now' = now /\ context' = context /\ job' = job
      /\ send' = send /\ faults' = faults
  BY DEF Status
<1>2. TypeOK /\ RecordsInv /\ now \in Nat /\ now >= 1 /\ Lag \in Nat
  BY InvParts, EpochTyped, ConstantsTyped
<1>3. now \in Instants
  BY <1>2 DEF Instants
<1>4. RowEnds /\ DropJournal /\ fresh' = {}
  BY <1>1, <1>3, ExpireEnds
<1>5. send' \in [Events -> SendRecords] /\ \A v \in Events : send'[v].at <= now
  BY <1>1, <1>2, SendsTyped DEF RecordsInv, SendsFresh
<1> QED
  BY <1>1, <1>4, <1>5, EndStepAlone

LEMMA BeginKeeps ==
  ASSUME WorkflowInv, NEW c \in Controllers, NEW h \in Hosts, NEW op \in {"run", "terminate"}, Begin(c, h, op)
  PROVE  WorkflowInv'
<1> DEFINE j == [NoJob EXCEPT !.op = op, !.host = h]
<1>1. PICK t \in Instants :
        IF Expired(t)
        THEN Expire /\ Become(c, Reading(j, Ended(row, "errored")))
        ELSE Become(c, Reading(j, row)) /\ KeepRow /\ UNCHANGED journal
  BY DEF Begin
<1>2. now' = now /\ context' = context /\ send' = send /\ faults' = faults
  BY DEF Begin
<1>3. ClaimInv /\ TypeOK /\ row \in Rows /\ faults \in 0..MaxFaults
  BY InvParts DEF TypeOK
<1>4. CASE Expired(t)
  <2>1. RowEnds /\ DropJournal /\ fresh' = {} /\ SameClaim(Ended(row, "errored"))
    BY <1>1, <1>2, <1>4, ExpireEnds
  <2>2. CallMoves(c)
    BY <1>1, <1>3, <1>4, <2>1, MovesBegin
  <2> QED
    BY <1>2, <2>1, <2>2, EndStep
<1>5. CASE ~Expired(t)
  <2>1. SameClaim(row)
    BY <1>3 DEF SameClaim
  <2>2. CallMoves(c)
    BY <1>1, <1>3, <1>5, <2>1, MovesBegin
  <2>3. UNCHANGED <<now, row, journal, context, send, fresh>>
    BY <1>1, <1>2, <1>5 DEF KeepRow
  <2> QED
    BY <1>2, <1>3, <2>2, <2>3, QuietStep
<1> QED
  BY <1>4, <1>5

\* The owner is cleared by a call whose claim is over or whose context has stopped.
LEMMA OwnerCleared ==
  ASSUME WorkflowInv, NEW e, ClearOwner(e), Claimed(e) => NobodyRuns
  PROVE  \/ row' = row /\ fresh' = fresh
         \/ RowStays /\ fresh' = {}
<1>1. row \in Rows /\ row.lease \in Nat
  BY InvParts DEF Rows
<1>2. CASE ~Claimed(e)
  BY <1>2 DEF ClearOwner, KeepRow
<1>3. CASE Claimed(e)
  <2>1. row' = Unowned(row) /\ fresh' = {}
    BY <1>3 DEF ClearOwner, SetRow
  <2>2. /\ row' \in Rows /\ row'.status = row.status /\ row'.epoch = row.epoch /\ row'.owned = FALSE
        /\ row'.lease = 0 /\ row'.pending = row.pending /\ row'.wakeAt = row.wakeAt
    BY <1>1, <2>1, UnownedIs
  <2> QED
    BY <1>1, <1>3, <2>1, <2>2 DEF RowStays, RowFades, RowHeld
<1> QED
  BY <1>2, <1>3

LEMMA ClearingStep ==
  ASSUME WorkflowInv, NEW c \in Controllers, CallMoves(c), NEW e, ClearOwner(e), Claimed(e) => NobodyRuns,
         UNCHANGED <<now, journal, context, send, faults>>
  PROVE  WorkflowInv'
<1>1. faults' \in 0..MaxFaults
  BY InvParts DEF TypeOK
<1> QED
  BY <1>1, OwnerCleared, QuietStep, RowStep

LEMMA QuietClaimRests ==
  ASSUME ClaimInv, NEW e, Quiet(e), Claimed(e)
  PROVE  NobodyRuns
<1>1. e = row.epoch
  BY DEF Claimed
<1> QED
  BY <1>1, QuietRests

\* A claim that may not be run has opened no context.
LEMMA UnopenedRests ==
  ASSUME ClaimInv, NEW c \in Controllers, job[c].pc \in {"claimed", "open"}, Claimed(job[c].epoch)
  PROVE  NobodyRuns
<1>1. context[job[c].epoch] = NoContext /\ job[c].epoch = row.epoch
  BY CallFacts DEF Timely, Claimed
<1> SUFFICES ASSUME NEW e \in Epochs, Executes(e), ~Overdue(e)
             PROVE  FALSE
  BY DEF NobodyRuns
<1>2. e = row.epoch
  BY DEF ClaimInv, CodeUnderClaim, Claimed
<1> QED
  BY <1>1, <1>2 DEF Executes, NoContext

LEMMA BeforeOpenKeeps ==
  ASSUME WorkflowInv, NEW c \in Controllers, BeforeOpen(c)
  PROVE  WorkflowInv'
<1>1. /\ job[c].pc = "claimed" /\ ClaimInv /\ faults \in 0..MaxFaults
      /\ UNCHANGED <<now, journal, context, send, faults>>
      /\ \/ To(c, "open") /\ KeepRow
         \/ ClearOwner(job[c].epoch) /\ To(c, "reread")
  BY InvParts DEF BeforeOpen, TypeOK
<1>2. CallMoves(c)
  BY <1>1, MovesBeforeOpen
<1>3. CASE KeepRow
  BY <1>1, <1>2, <1>3, QuietStep DEF KeepRow
<1>4. CASE ClearOwner(job[c].epoch)
  <2>1. Claimed(job[c].epoch) => NobodyRuns
    BY <1>1, UnopenedRests
  <2> QED
    BY <1>1, <1>2, <1>4, <2>1, ClearingStep
<1> QED
  BY <1>1, <1>3, <1>4

LEMMA ReleaseKeeps ==
  ASSUME WorkflowInv, NEW c \in Controllers, Release(c)
  PROVE  WorkflowInv'
<1>1. /\ job[c].pc = "release" /\ ClaimInv /\ ClearOwner(job[c].epoch) /\ Become(c, NoJob)
      /\ UNCHANGED <<now, journal, context, send, faults>>
  BY InvParts DEF Release
<1>2. CallMoves(c)
  BY <1>1, MovesToNoJob
<1>3. Quiet(job[c].epoch)
  BY <1>1, CallFacts DEF PastStop
<1>4. Claimed(job[c].epoch) => NobodyRuns
  BY <1>1, <1>3, QuietClaimRests
<1> QED
  BY <1>1, <1>2, <1>4, ClearingStep

LEMMA TerminalizeKeeps ==
  ASSUME WorkflowInv, NEW c \in Controllers, Terminalize(c)
  PROVE  WorkflowInv'
<1> DEFINE e == job[c].epoch
<1>1. /\ job[c].pc = "terminalize" /\ ClaimInv /\ row \in Rows /\ Drained(e)
      /\ Become(c, At(job[c], "release", e)) /\ faults \in 0..MaxFaults
      /\ UNCHANGED <<now, context, send, faults>>
  BY InvParts DEF Terminalize, TypeOK
<1>2. \/ KeepRow /\ UNCHANGED journal
      \/ Claimed(e) /\ (\E o \in Terminal : SetRow(Ended(row, o))) /\ DropJournal
  BY DEF Terminalize, Terminal
<1>3. CallMoves(c)
  BY <1>1, MovesToRelease
<1>4. CASE KeepRow /\ UNCHANGED journal
  BY <1>1, <1>3, <1>4, QuietStep DEF KeepRow
<1>5. CASE Claimed(e) /\ (\E o \in Terminal : SetRow(Ended(row, o))) /\ DropJournal
  <2>1. PICK o \in Terminal : row' = Ended(row, o) /\ fresh' = {}
    BY <1>5 DEF SetRow
  <2>2. /\ row' \in Rows /\ row'.status = o /\ row'.epoch = row.epoch /\ row'.owned = row.owned
        /\ row'.lease = row.lease
    BY <1>1, <2>1, EndedIs
  <2>3. NobodyRuns
    BY <1>1, <1>5, CallFacts, QuietClaimRests DEF PastStop
  <2>4. RowEnds
    <3>1. row.lease \in Nat
      BY <1>1 DEF Rows
    <3> QED
      BY <2>2, <2>3, <3>1 DEF RowEnds, RowFades, Active
  <2> QED
    BY <1>1, <1>3, <1>5, <2>1, <2>4, EndStep
<1> QED
  BY <1>2, <1>4, <1>5

LEMMA MarkKeeps ==
  ASSUME WorkflowInv, NEW c \in Controllers, Mark(c)
  PROVE  WorkflowInv'
<1>1. /\ ClaimInv /\ row \in Rows /\ faults \in 0..MaxFaults
      /\ UNCHANGED <<now, journal, context, send, faults>>
      /\ \/ KeepRow
         \/ row' = [row EXCEPT !.termination = TRUE] /\ fresh' = {}
  BY InvParts DEF Mark, SetRow, TypeOK
<1>2. CallMoves(c)
  BY <1>1, MovesMark
<1>3. CASE KeepRow
  BY <1>1, <1>2, <1>3, QuietStep DEF KeepRow
<1>4. CASE row' = [row EXCEPT !.termination = TRUE] /\ fresh' = {}
  <2>1. /\ row' \in Rows /\ row'.status = row.status /\ row'.epoch = row.epoch /\ row'.owned = row.owned
        /\ row'.lease = row.lease /\ row'.pending = row.pending /\ row'.wakeAt = row.wakeAt
    BY <1>1, <1>4, TerminationSet
  <2>2. row.lease \in Nat
    BY <1>1 DEF Rows
  <2>3. RowStays
    BY <2>1, <2>2 DEF RowStays, RowFades, RowHeld
  <2> QED
    BY <1>1, <1>2, <1>4, <2>3, RowStep
<1> QED
  BY <1>1, <1>3, <1>4

LEMMA FinalizeKeeps ==
  ASSUME WorkflowInv, NEW c \in Controllers, FinalizeTermination(c)
  PROVE  WorkflowInv'
<1> DEFINE j == job[c]
<1>1. /\ j.pc = "finalize" /\ ClaimInv /\ row \in Rows /\ faults \in 0..MaxFaults
      /\ UNCHANGED <<now, context, send, faults>>
  BY InvParts DEF FinalizeTermination, TypeOK
<1>2. \/ KeepRow /\ UNCHANGED journal /\ Become(c, LookingAgain(j))
      \/ /\ row.epoch = j.epoch /\ DropJournal /\ Become(c, NoJob)
         /\ \E o \in Terminal : SetRow([Unowned(Ended(row, o)) EXCEPT !.termination = FALSE])
  BY DEF FinalizeTermination, Terminal
<1>3. CASE KeepRow /\ UNCHANGED journal /\ Become(c, LookingAgain(j))
  <2>1. CallMoves(c)
    BY <1>1, <1>3, MovesLookingAgain
  <2> QED
    BY <1>1, <1>3, <2>1, QuietStep DEF KeepRow
<1>4. CASE /\ row.epoch = j.epoch /\ DropJournal /\ Become(c, NoJob)
           /\ \E o \in Terminal : SetRow([Unowned(Ended(row, o)) EXCEPT !.termination = FALSE])
  <2>1. PICK o \in Terminal : row' = [Unowned(Ended(row, o)) EXCEPT !.termination = FALSE] /\ fresh' = {}
    BY <1>4 DEF SetRow
  <2> DEFINE p == Ended(row, o)
             q == Unowned(p)
  <2>2. p \in Rows /\ p.status = o /\ p.epoch = row.epoch
    BY <1>1, EndedIs
  <2>3. q = Unowned(p) /\ row' = [q EXCEPT !.termination = FALSE]
    BY <2>1
  <2> HIDE DEF p, q
  <2>4. q \in Rows /\ q.status = o /\ q.epoch = row.epoch /\ q.owned = FALSE /\ q.lease = 0
    BY <2>2, <2>3, UnownedIs
  <2>5. row' \in Rows /\ row'.status = o /\ row'.epoch = row.epoch /\ row'.owned = FALSE /\ row'.lease = 0
    BY <2>3, <2>4, TerminationSet
  <2>6. NobodyRuns
    <3>1. Quiet(row.epoch)
      BY <1>1, <1>4, CallFacts DEF PastStop
    <3> QED
      BY <1>1, <3>1, QuietRests
  <2>7. RowEnds
    <3>1. row.lease \in Nat
      BY <1>1 DEF Rows
    <3> QED
      BY <2>5, <2>6, <3>1 DEF RowEnds, RowFades, Active
  <2>8. CallMoves(c)
    BY <1>1, <1>4, MovesToNoJob
  <2> QED
    BY <1>1, <1>4, <2>1, <2>7, <2>8, EndStep
<1> QED
  BY <1>2, <1>3, <1>4

LEMMA ClearBitKeeps ==
  ASSUME WorkflowInv, NEW c \in Controllers, ClearBit(c)
  PROVE  WorkflowInv'
<1>1. /\ ClaimInv /\ row \in Rows /\ faults \in 0..MaxFaults /\ Become(c, NoJob)
      /\ UNCHANGED <<now, journal, context, send, faults>>
      /\ \/ KeepRow
         \/ /\ ~Active(row)
            /\ row' = [Unowned(row) EXCEPT !.termination = FALSE] /\ fresh' = {}
  BY InvParts DEF ClearBit, SetRow, TypeOK
<1>2. CallMoves(c)
  BY <1>1, MovesToNoJob
<1>3. CASE KeepRow
  BY <1>1, <1>2, <1>3, QuietStep DEF KeepRow
<1>4. CASE /\ ~Active(row)
           /\ row' = [Unowned(row) EXCEPT !.termination = FALSE] /\ fresh' = {}
  <2> DEFINE q == Unowned(row)
  <2>1. q = Unowned(row) /\ row' = [q EXCEPT !.termination = FALSE]
    BY <1>4
  <2> HIDE DEF q
  <2>2. /\ q \in Rows /\ q.status = row.status /\ q.epoch = row.epoch /\ q.owned = FALSE /\ q.lease = 0
        /\ q.pending = row.pending /\ q.wakeAt = row.wakeAt
    BY <1>1, <2>1, UnownedIs
  <2>3. /\ row' \in Rows /\ row'.status = row.status /\ row'.epoch = row.epoch /\ row'.owned = FALSE
        /\ row'.lease = 0 /\ row'.pending = row.pending /\ row'.wakeAt = row.wakeAt
    BY <2>1, <2>2, TerminationSet
  <2>4. NobodyRuns
    BY <1>1, <1>4, UnclaimedRests DEF Active, Terminal
  <2>5. row.lease \in Nat
    BY <1>1 DEF Rows
  <2>6. RowStays
    BY <2>3, <2>4, <2>5 DEF RowStays, RowFades, RowHeld
  <2> QED
    BY <1>1, <1>2, <1>4, <2>6, RowStep
<1> QED
  BY <1>1, <1>3, <1>4

LEMMA ParkKeeps ==
  ASSUME WorkflowInv, NEW c \in Controllers, Park(c)
  PROVE  WorkflowInv'
<1> DEFINE j == job[c]
           e == j.epoch
<1>1. /\ j.pc = "park" /\ ClaimInv /\ RecordsInv /\ JobsLooked /\ TypeOK /\ OthersTyped
      /\ row \in Rows /\ faults \in 0..MaxFaults /\ Drained(e)
      /\ UNCHANGED <<now, journal, context, send, faults>> /\ now \in Nat
  BY InvParts DEF Park, TypeOK
<1>2. PICK t \in Instants :
        IF Runnable(e, t)
        THEN /\ SetRow([Unowned(row) EXCEPT
                 !.status = j.outcome, !.pending = j.name,
                 !.wakeAt = IF j.outcome = "waiting" /\ Matching(steps[j.name].at) # {}
                            THEN t ELSE j.at])
             /\ Become(c, NoJob)
        ELSE KeepRow /\ Become(c, At(j, "release", e))
  BY DEF Park
<1>3. CASE ~Runnable(e, t)
  <2>1. CallMoves(c)
    BY <1>1, <1>2, <1>3, MovesToRelease
  <2> QED
    BY <1>1, <1>2, <1>3, <2>1, QuietStep DEF KeepRow
<1>4. CASE Runnable(e, t)
  <2> DEFINE q == Unowned(row)
             o == j.outcome
             n == j.name
             w == IF o = "waiting" /\ Matching(steps[n].at) # {} THEN t ELSE j.at
  <2>1. row' = [q EXCEPT !.status = o, !.pending = n, !.wakeAt = w] /\ fresh' = {} /\ Become(c, NoJob)
    BY <1>2, <1>4 DEF SetRow
  <2>2. o \in {"sleeping", "waiting"} /\ n \in Names \cup {None} /\ w \in Nat
    <3>1. j \in Jobs /\ Formed(j) /\ t \in Nat
      BY <1>1, CallFacts DEF Instants
    <3> QED
      BY <1>1, <3>1 DEF Formed, Parks, Jobs
  <2>3. q \in Rows /\ q.epoch = row.epoch /\ q.owned = FALSE /\ q.lease = 0
    BY <1>1, UnownedIs
  <2>4. w = IF o = "waiting" /\ Matching(steps[n].at) # {} THEN t ELSE j.at
    OBVIOUS
  <2> HIDE DEF q, o, n, w
  <2>5. /\ row' \in Rows /\ row'.status = o /\ row'.epoch = row.epoch /\ row'.owned = FALSE
        /\ row'.lease = 0 /\ row'.pending = n /\ row'.wakeAt = w
    <3> DEFINE p == row'
    <3>1. p = [q EXCEPT !.status = o, !.pending = n, !.wakeAt = w]
      BY <2>1
    <3> HIDE DEF p
    <3>2. /\ p \in Rows /\ p.status = o /\ p.epoch = q.epoch /\ p.owned = q.owned /\ p.lease = q.lease
          /\ p.pending = n /\ p.wakeAt = w
      <4>1. p \in Rows
        BY <2>2, <2>3, <3>1 DEF Rows
      <4>2. p.status = o /\ p.epoch = q.epoch /\ p.owned = q.owned /\ p.lease = q.lease
        BY <2>3, <3>1 DEF Rows
      <4>3. p.pending = n /\ p.wakeAt = w
        BY <2>3, <3>1 DEF Rows
      <4> QED
        BY <4>1, <4>2, <4>3
    <3> QED
      BY <2>3, <3>2 DEF p
  <2>6. RecordsInv'
    <3>1. /\ row'.status = job[c].outcome /\ row'.pending = job[c].name /\ ~row'.owned
          /\ row'.wakeAt = IF job[c].outcome = "waiting" /\ Matching(steps[job[c].name].at) # {}
                           THEN t ELSE job[c].at
      BY <2>4, <2>5 DEF o, n
    <3> QED
      BY <1>1, <1>4, <2>1, <3>1, RecordsParked DEF journal
  <2>7. NobodyRuns
    BY <1>1, <1>4, CallFacts, QuietClaimRests DEF PastStop, Runnable
  <2>8. RowFades /\ RowHeld
    <3>1. row.lease \in Nat
      BY <1>1 DEF Rows
    <3> QED
      BY <2>5, <2>7, <3>1 DEF RowFades, RowHeld
  <2>9. OthersTyped'
    BY <1>1, <2>1 DEF OthersTyped, journal
  <2>10. Follows(j, NoJob) /\ Proven(NoJob) /\ Blind(NoJob)
    BY <1>1, FollowsNoJob
  <2>11. ClaimInv'
    BY <1>1, <2>1, <2>5, <2>8, <2>9, <2>10, CallStepKeeps
  <2>12. JobsLooked'
    BY <1>1, <2>1, <2>2, <2>5, <2>8, <2>10, LookedStep
  <2> QED
    BY <2>6, <2>11, <2>12, InvFromParts
<1> QED
  BY <1>3, <1>4

-----------------------------------------------------------------------------
(* The actions that take a claim, open, start, prolong or stop a context.   *)

LEMMA TypedStep ==
  ASSUME TypeOK, NEW c \in Controllers, NEW x \in Jobs, Become(c, x), now' = now, row' \in Rows, OthersTyped',
         context' \in [Epochs -> Contexts]
  PROVE  TypeOK'
<1>1. job' \in [Controllers -> Jobs]
  <2>1. job \in [Controllers -> Jobs]
    BY DEF TypeOK, Jobs
  <2> QED
    BY <2>1 DEF Become
<1> QED
  BY <1>1 DEF TypeOK, OthersTyped, Contexts, Jobs

LEMMA ContextsTyped ==
  ASSUME TypeOK
  PROVE  context \in [Epochs -> Contexts]
BY DEF TypeOK, Contexts

\* A run whose row keeps its state and its journal.
LEMMA RunStep ==
  ASSUME WorkflowInv, ClaimInv', NEW c \in Controllers, NEW x, Become(c, x), Blind(x) \/ Looked(x),
         row'.epoch = row.epoch, row'.owned = row.owned, row'.status = row.status,
         row'.pending = row.pending, row'.wakeAt = row.wakeAt, KeepRow \/ fresh' = {},
         UNCHANGED <<now, journal, send>>
  PROVE  WorkflowInv'
<1>1. /\ RecordsInv /\ JobsLooked /\ TypeOK /\ steps' = steps /\ queue' = queue /\ send' = send /\ now' = now
  BY InvParts DEF journal
<1>2. RecordsInv'
  <2>1. Active(row)' = Active(row) /\ now' \in {now, now + 1}
    BY <1>1 DEF Active
  <2>2. row'.status = "waiting" => /\ row.status = "waiting" /\ ~row'.owned
                                   /\ row'.pending = row.pending /\ row'.wakeAt = row.wakeAt
    BY <1>1 DEF RecordsInv, WaitersParked
  <2> QED
    BY <1>1, <2>1, <2>2, RecordsKept
<1>3. JobsLooked'
  <2>1. \A d \in Controllers : job'[d] = IF d = c THEN x ELSE job[d]
    BY <1>1, BecomeIs
  <2>3. \A d \in Controllers : Blind(job'[d]) \/ Looked(job'[d])
    BY <1>1, <2>1 DEF JobsLooked
  <2> SUFFICES ASSUME NEW d \in Controllers
               PROVE  Looked(job[d])'
    BY DEF JobsLooked
  <2>4. CASE Blind(job'[d])
    BY <2>4 DEF Blind, Looked
  <2>5. CASE Looked(job'[d])
    BY <1>1, <2>5 DEF Looked, Claimed, Waits
  <2> QED
    BY <2>3, <2>4, <2>5
<1> QED
  BY <1>2, <1>3, InvFromParts

LEMMA ClaimActionKeeps ==
  ASSUME WorkflowInv, NEW c \in Controllers, Claim(c)
  PROVE  WorkflowInv'
<1> DEFINE j == job[c]
           until == Least(Deadline, j.at + LeaseMs)
           ok == /\ row.epoch = j.epoch /\ Active(row) /\ Deadline > j.at /\ ~row.termination
                 /\ row.owned => row.lease <= j.at
                 /\ row.wakeAt <= j.at
<1>1. /\ j.pc = "claim" /\ ClaimInv /\ RecordsInv /\ JobsLooked /\ TypeOK /\ OthersTyped
      /\ row \in Rows /\ faults \in 0..MaxFaults /\ now \in Nat
      /\ now' = now /\ steps' = steps /\ queue' = queue /\ context' = context /\ send' = send /\ faults' = faults
  BY InvParts DEF Claim, TypeOK, journal
<1>2. CASE ~ok
  <2>1. KeepRow /\ Become(c, NoJob)
    BY <1>2 DEF Claim
  <2>2. CallMoves(c)
    BY <1>1, <2>1, MovesToNoJob
  <2> QED
    BY <1>1, <2>1, <2>2, QuietStep DEF KeepRow, journal
<1>3. CASE ok
  <2> DEFINE e == row.epoch + 1
             a == At(j, "claimed", e)
             x == [a EXCEPT !.at = until]
  <2>1. j \in Jobs /\ Formed(j) /\ j.at \in Nat /\ j.epoch < MaxEpoch /\ j.call = NoCall /\ j.host \in Hosts
    BY <1>1, CallFacts DEF Formed, Jobs
  <2>2. row.epoch = j.epoch /\ Active(row) /\ (row.owned => row.lease <= j.at)
    BY <1>3
  <2>3. until \in Nat /\ e \in 0..MaxEpoch /\ row.epoch \in Nat /\ e = row.epoch + 1
    BY <1>1, <2>1, <2>2, ConstantsTyped, EpochTyped DEF Least
  <2>4. /\ row' = [row EXCEPT !.status = "running", !.epoch = @ + 1, !.owned = TRUE,
                              !.lease = until, !.wakeAt = 0, !.pending = None]
        /\ fresh' = {} /\ Become(c, x)
    BY <1>3 DEF Claim, SetRow
  <2>5. a \in Jobs /\ a.pc = "claimed" /\ a.epoch = e /\ a.host = j.host /\ a.call = NoCall
    BY <2>1, <2>3, AtIs, KeptTyped DEF PCs
  <2>6. x = [a EXCEPT !.at = until] /\ until = Least(Deadline, job[c].at + LeaseMs)
    OBVIOUS
  <2> DEFINE p == row'
             r == row
  <2>7. r \in Rows /\ r = row /\ r.epoch + 1 = e
    BY <1>1
  <2>8. p = [r EXCEPT !.status = "running", !.epoch = e, !.owned = TRUE,
                      !.lease = until, !.wakeAt = 0, !.pending = None]
    BY <1>1, <2>4 DEF Rows
  <2> HIDE DEF a, x, e, until, p, r, ok
  <2>9. p \in Rows
    BY <2>3, <2>7, <2>8 DEF Rows
  <2>10. p.status = "running" /\ p.epoch = e /\ p.owned = TRUE /\ p.lease = until
    BY <2>7, <2>8 DEF Rows
  <2>11. x \in Jobs /\ x.pc = "claimed" /\ x.epoch = e /\ x.at = until /\ x.host = j.host /\ x.call = NoCall
    BY <2>3, <2>5, <2>6 DEF Jobs
  <2>12. row' \in Rows /\ row'.status = "running" /\ row'.epoch = e /\ row'.owned = TRUE /\ row'.lease = until
    BY <2>9, <2>10 DEF p
  <2>13. OthersTyped'
    BY <1>1, <2>4 DEF OthersTyped
  <2>14. TypeOK'
    BY <1>1, <2>4, <2>11, <2>12, <2>13, TypedStep, ContextsTyped
  <2>15. ClaimInv'
    BY <1>1, <2>2, <2>3, <2>4, <2>6, <2>11, <2>12, <2>14, ClaimKeeps
  <2>16. RecordsInv'
    <3>1. Active(row)'
      BY <2>12 DEF Active, Terminal
    <3>2. Active(row)' = Active(row)
      BY <2>2, <3>1 DEF Active
    <3> QED
      BY <1>1, <2>4, <2>12, <3>2, RecordsKept
  <2>17. JobsLooked'
    <3>1. \A d \in Controllers : job'[d] = IF d = c THEN x ELSE job[d]
      BY <1>1, <2>4, BecomeIs
    <3> SUFFICES ASSUME NEW d \in Controllers
                 PROVE  Looked(job[d])'
      BY DEF JobsLooked
    <3>2. CASE d = c
      <4>1. Blind(x)
        BY <2>11, NoCallTyped DEF Blind, Parks
      <4>2. job'[d] = x
        BY <3>1, <3>2
      <4>3. job'[d].call.phase # "look" /\ ~Parks(job'[d])
        BY <4>1, <4>2 DEF Blind
      <4> QED
        BY <4>3 DEF Looked
    <3>3. CASE d # c
      <4>1. job[d].epoch <= row.epoch /\ job[d].epoch \in Nat
        BY <1>1, CallFacts
      <4>2. job'[d] = job[d]
        BY <3>1, <3>3
      <4>3. row'.epoch # job'[d].epoch
        BY <2>3, <2>12, <4>1, <4>2
      <4> QED
        BY <4>3 DEF Looked, Claimed
    <3> QED
      BY <3>2, <3>3
  <2> QED
    BY <2>15, <2>16, <2>17, InvFromParts
<1> QED
  BY <1>2, <1>3

LEMMA RegisteredTyped ==
  ASSUME TypeOK, NEW c \in Controllers, context' = [context EXCEPT ![job[c].epoch] = Registered(job[c])]
  PROVE  context' \in [Epochs -> Contexts]
<1>1. job[c].at \in Nat /\ job[c].host \in Hosts \cup {None}
  BY EpochTyped DEF Jobs
<1>2. Registered(job[c]) \in Contexts
  BY <1>1 DEF Registered, Contexts
<1> QED
  BY <1>2, ContextsTyped

\* A context is registered for a call that has none yet.
LEMMA RegisterStep ==
  ASSUME WorkflowInv, NEW c \in Controllers, NEW x, Become(c, x), job[c].pc = "open",
         context' = [context EXCEPT ![job[c].epoch] = Registered(job[c])],
         x \in Jobs, Formed(x), x.epoch = job[c].epoch, Blind(x),
         \/ x.pc = "opened" /\ job[c].at > now
         \/ x.pc = "stop",
         UNCHANGED <<now, row, journal, send, fresh>>, faults' \in 0..MaxFaults
  PROVE  WorkflowInv'
<1>1. /\ ClaimInv /\ TypeOK /\ OthersTyped /\ row \in Rows /\ now' = now /\ row' = row /\ steps' = steps
      /\ queue' = queue /\ send' = send /\ fresh' = fresh
  BY InvParts DEF journal
<1>2. OthersTyped'
  BY <1>1 DEF OthersTyped
<1>3. context' \in [Epochs -> Contexts]
  BY <1>1, RegisteredTyped
<1>4. TypeOK'
  BY <1>1, <1>2, <1>3, TypedStep
<1>5. ClaimInv'
  BY <1>1, <1>4, RegisterKeeps
<1> QED
  BY <1>1, <1>5, RunStep DEF KeepRow

LEMMA OpenPausedKeeps ==
  ASSUME WorkflowInv, NEW c \in Controllers, OpenPaused(c)
  PROVE  WorkflowInv'
<1> DEFINE j == job[c]
           x == [j EXCEPT !.pc = "opened"]
<1>1. /\ j.pc = "open" /\ ClaimInv /\ faults' \in 0..MaxFaults
      /\ UNCHANGED <<now, row, journal, send, fresh>>
      /\ \/ /\ j.at > now
            /\ context' = [context EXCEPT ![j.epoch] = Registered(j)] /\ Become(c, x)
         \/ Become(c, GiveUp(j)) /\ UNCHANGED context
  BY InvParts DEF OpenPaused, To, TypeOK
<1>2. CASE Become(c, GiveUp(j)) /\ UNCHANGED context
  <2>1. CallMoves(c)
    BY <1>1, <1>2, MovesToGiveUp
  <2> QED
    BY <1>1, <1>2, <2>1, QuietStep
<1>3. CASE j.at > now /\ context' = [context EXCEPT ![j.epoch] = Registered(j)] /\ Become(c, x)
  <2>1. j \in Jobs /\ Formed(j) /\ j.call = NoCall /\ j.host \in Hosts /\ j.epoch # 0
    BY <1>1, CallFacts
  <2>2. x = [j EXCEPT !.pc = "opened"]
    OBVIOUS
  <2> HIDE DEF x, j
  <2>3. x \in Jobs /\ x.pc = "opened" /\ x.epoch = j.epoch /\ x.host = j.host /\ x.call = NoCall
    BY <2>1, <2>2 DEF Jobs
  <2>4. Formed(x) /\ Blind(x)
    BY <2>1, <2>3, NoCallTyped DEF Formed, Blind, Runner, Parks
  <2> QED
    BY <1>1, <1>3, <2>3, <2>4, RegisterStep DEF j
<1> QED
  BY <1>1, <1>2, <1>3

LEMMA OpenFailsKeeps ==
  ASSUME WorkflowInv, NEW c \in Controllers, OpenFails(c)
  PROVE  WorkflowInv'
<1> DEFINE j == job[c]
           x == GiveUp(j)
<1>1. /\ j.pc = "open" /\ ClaimInv /\ TypeOK /\ faults \in 0..MaxFaults /\ MaxFaults \in Nat
      /\ faults < MaxFaults /\ faults' = faults + 1 /\ Become(c, x)
      /\ UNCHANGED <<now, row, journal, send, fresh>>
      /\ \/ context' = [context EXCEPT ![j.epoch] = Registered(j)]
         \/ UNCHANGED context
  BY InvParts, ConstantsTyped DEF OpenFails, TypeOK
<1>2. faults' \in 0..MaxFaults
  BY <1>1
<1>3. CASE UNCHANGED context
  <2>1. CallMoves(c)
    BY <1>1, MovesToGiveUp
  <2> QED
    BY <1>1, <1>2, <1>3, <2>1, QuietStep
<1>4. CASE context' = [context EXCEPT ![j.epoch] = Registered(j)]
  <2>1. j \in Jobs /\ Formed(j) /\ j.pc # "idle" /\ j.epoch # 0 /\ j.epoch <= row.epoch
    BY <1>1, CallFacts
  <2>2. Follows(j, x) /\ Blind(x)
    BY <1>1, <2>1, FollowsGiveUp
  <2>3. x.pc = "stop" /\ x.epoch = j.epoch
    BY <2>1, StoppingIs DEF GiveUp, Nexts
  <2>4. x \in Jobs /\ Formed(x)
    BY <2>2 DEF Follows
  <2> HIDE DEF x
  <2> QED
    BY <1>1, <1>2, <1>4, <2>2, <2>3, <2>4, RegisterStep
<1> QED
  BY <1>1, <1>3, <1>4

\* A context starts to run, or goes on for longer, under the claim of its call.
LEMMA RunsOnStep ==
  ASSUME WorkflowInv, NEW c \in Controllers, NEW x, NEW y, NEW e, Become(c, x),
         e = job[c].epoch, Claimed(e), row.status = "running", ~Overdue(e),
         \/ job[c].pc = "opened" /\ context[e].state = "paused"
         \/ job[c].pc = "executing" /\ context[e].state = "running",
         context' = [context EXCEPT ![e] = y], y \in Contexts,
         y.state = "running", y.until <= Deadline, y.until <= row.lease,
         x \in Jobs, Formed(x), x.epoch = e, x.pc = "executing", x.renewed = 0, x.beat >= now,
         Blind(x) \/ Looked(x),
         UNCHANGED <<now, row, journal, send, fresh, faults>>
  PROVE  WorkflowInv'
<1>1. /\ ClaimInv /\ TypeOK /\ OthersTyped /\ row \in Rows /\ now' = now /\ row' = row /\ steps' = steps
      /\ queue' = queue /\ send' = send /\ fresh' = fresh /\ faults' = faults
  BY InvParts DEF journal
<1>2. OthersTyped'
  BY <1>1 DEF OthersTyped
<1>3. context' \in [Epochs -> Contexts]
  BY <1>1, ContextsTyped
<1>4. TypeOK'
  BY <1>1, <1>2, <1>3, TypedStep
<1>5. ClaimInv'
  BY <1>1, <1>4, RunKeeps
<1> QED
  BY <1>1, <1>5, RunStep DEF KeepRow

LEMMA StartKeeps ==
  ASSUME WorkflowInv, NEW c \in Controllers, Start(c)
  PROVE  WorkflowInv'
<1> DEFINE j == job[c]
           e == j.epoch
           ok == Runnable(e, now) /\ context[e].state = "paused" /\ ~Overdue(e)
<1>1. /\ j.pc = "opened" /\ ClaimInv /\ TypeOK /\ faults \in 0..MaxFaults
      /\ UNCHANGED <<now, row, journal, send, fresh, faults>>
  BY InvParts DEF Start, TypeOK
<1>2. j \in Jobs /\ Formed(j) /\ Timely(j) /\ e \in 0..MaxEpoch /\ e # 0 /\ j.call = NoCall /\ j.host \in Hosts
  BY <1>1, CallFacts
<1>3. CASE ~ok
  <2>1. Become(c, GiveUp(j)) /\ UNCHANGED context
    BY <1>3 DEF Start
  <2>2. CallMoves(c)
    BY <1>1, <2>1, MovesToGiveUp
  <2> QED
    BY <1>1, <2>1, <2>2, QuietStep
<1>4. CASE ok
  <2> DEFINE z == context[e]
             y == [z EXCEPT !.state = "running"]
             a == At(j, "executing", e)
             b == NextBeat
             x == [a EXCEPT !.beat = b]
  <2>1. e \in Epochs /\ z \in Contexts
    BY <1>1, <1>2, EpochTyped, ConstantsTyped DEF Epochs
  <2>2. context' = [context EXCEPT ![e] = y] /\ Become(c, x)
    BY <1>1, <1>4, <2>1, ContextsTyped DEF Start
  <2>3. Claimed(e) /\ row.status = "running" /\ z.state = "paused" /\ ~Overdue(e)
    BY <1>4 DEF Runnable
  <2>4. z.until <= Deadline /\ z.until <= row.lease
    BY <1>1, <2>1, <2>3 DEF ClaimInv, ContextsBounded
  <2>5. a \in Jobs /\ a.pc = "executing" /\ a.epoch = e /\ a.host = j.host /\ a.call = NoCall /\ a.renewed = 0
    BY <1>2, AtIs, KeptTyped DEF PCs
  <2>6. b \in Nat /\ b >= now
    BY <1>1, NextBeatIs
  <2>7. y = [z EXCEPT !.state = "running"] /\ x = [a EXCEPT !.beat = b]
    OBVIOUS
  <2>8. j.pc = "opened" /\ context[e].state = "paused" /\ e = job[c].epoch
    BY <1>1, <2>3
  <2> HIDE DEF x, y, z, a, b, j, e, ok
  <2>9. y \in Contexts /\ y.state = "running" /\ y.until = z.until
    BY <2>1, <2>7 DEF Contexts
  <2>10. /\ x \in Jobs /\ x.pc = "executing" /\ x.epoch = e /\ x.host = j.host /\ x.call = NoCall
         /\ x.renewed = 0 /\ x.beat = b
    BY <2>5, <2>6, <2>7 DEF Jobs
  <2>11. Formed(x) /\ Blind(x)
    BY <1>2, <2>10, NoCallTyped DEF Formed, Blind, Runner, Parks
  <2>12. y.until <= Deadline /\ y.until <= row.lease /\ x.beat >= now
    BY <2>4, <2>6, <2>9, <2>10
  <2> QED
    BY <1>1, <2>2, <2>3, <2>8, <2>9, <2>10, <2>11, <2>12, RunsOnStep DEF j
<1> QED
  BY <1>3, <1>4

LEMMA ExtendKeeps ==
  ASSUME WorkflowInv, NEW c \in Controllers, Extend(c)
  PROVE  WorkflowInv'
<1> DEFINE j == job[c]
           e == j.epoch
           ok == Executes(e) /\ ~Overdue(e) /\ j.renewed > context[e].until
<1>1. /\ j.pc = "executing" /\ j.renewed # 0 /\ ClaimInv /\ TypeOK /\ JobsLooked /\ faults \in 0..MaxFaults
      /\ UNCHANGED <<now, row, journal, send, fresh, faults>>
  BY InvParts DEF Extend, TypeOK
<1>2. j \in Jobs /\ Formed(j) /\ Timely(j) /\ Looked(j) /\ e \in 0..MaxEpoch /\ e # 0 /\ j.host \in Hosts
  BY <1>1, CallFacts DEF JobsLooked
<1>3. CASE ~ok
  <2>1. Become(c, GiveUp(j)) /\ UNCHANGED context
    BY <1>3 DEF Extend
  <2>2. CallMoves(c)
    BY <1>1, <2>1, MovesToGiveUp
  <2> QED
    BY <1>1, <2>1, <2>2, QuietStep
<1>4. CASE ok
  <2> DEFINE z == context[e]
             r == j.renewed
             y == [z EXCEPT !.until = r]
             b == NextBeat
             x == [j EXCEPT !.renewed = 0, !.beat = b]
  <2>1. e \in Epochs /\ z \in Contexts /\ r \in Nat /\ now \in Nat
    BY <1>1, <1>2, EpochTyped, ConstantsTyped DEF Epochs, Jobs
  <2>2. context' = [context EXCEPT ![e] = y] /\ Become(c, x)
    BY <1>1, <1>4, <2>1, ContextsTyped DEF Extend
  <2>3. Claimed(e) /\ row.status = "running" /\ z.state = "running" /\ ~Overdue(e)
    BY <1>1, <1>4, <2>1 DEF ClaimInv, CodeUnderClaim, Executes
  <2>5. r <= Deadline /\ r <= row.lease
    BY <1>1, <1>2, <2>1, <2>3 DEF Timely
  <2>6. b \in Nat /\ b >= now
    BY <1>1, NextBeatIs
  <2>7. y = [z EXCEPT !.until = r] /\ x = [j EXCEPT !.renewed = 0, !.beat = b]
    OBVIOUS
  <2>8. j.pc = "executing" /\ context[e].state = "running" /\ e = job[c].epoch
    BY <1>1, <2>3
  <2> HIDE DEF x, y, z, b, j, e, r, ok
  <2>9. y \in Contexts /\ y.state = "running" /\ y.until = r
    BY <2>1, <2>3, <2>7 DEF Contexts
  <2>10. x \in Jobs
    BY <1>2, <2>6, <2>7 DEF Jobs
  <2>11. /\ x.pc = "executing" /\ x.epoch = j.epoch /\ x.host = j.host /\ x.call = j.call
         /\ x.renewed = 0 /\ x.beat = b
    BY <1>1, <1>2, <2>7 DEF Jobs
  <2>12. Formed(x)
    BY <1>1, <1>2, <2>11, NoCallTyped DEF Formed, Runner, Parks, e
  <2>13. Looked(x)
    BY <1>2, <2>11 DEF Looked, Parks
  <2>14. y.until <= Deadline /\ y.until <= row.lease /\ x.beat >= now /\ x.epoch = e
    BY <2>5, <2>6, <2>9, <2>11 DEF e
  <2> QED
    BY <1>1, <2>2, <2>3, <2>8, <2>9, <2>10, <2>11, <2>12, <2>13, <2>14, RunsOnStep DEF j
<1> QED
  BY <1>3, <1>4

LEMMA RenewActionKeeps ==
  ASSUME WorkflowInv, NEW c \in Controllers, Renew(c)
  PROVE  WorkflowInv'
<1> DEFINE j == job[c]
<1>1. /\ j.pc = "executing" /\ j.renewed = 0 /\ ClaimInv /\ TypeOK /\ OthersTyped /\ row \in Rows
      /\ JobsLooked /\ faults \in 0..MaxFaults
      /\ UNCHANGED <<now, journal, context, send, faults>>
  BY InvParts DEF Renew, TypeOK
<1>2. j \in Jobs /\ Looked(j)
  BY <1>1, CallFacts DEF JobsLooked
<1>3. PICK t \in Instants :
        /\ t >= Least(Deadline, j.beat)
        /\ IF t >= Deadline THEN KeepRow /\ Become(c, Finish(j, "failed"))
           ELSE IF Runnable(j.epoch, t)
           THEN /\ SetRow([row EXCEPT !.lease = Least(Deadline, t + LeaseMs)])
                /\ Become(c, [j EXCEPT !.renewed = Least(Deadline, t + LeaseMs)])
           ELSE KeepRow /\ Become(c, GiveUp(j))
  BY DEF Renew
<1>4. CASE KeepRow /\ (Become(c, Finish(j, "failed")) \/ Become(c, GiveUp(j)))
  <2>1. CallMoves(c)
    BY <1>1, <1>4, MovesToFinish, MovesToGiveUp DEF Outcomes
  <2> QED
    BY <1>1, <1>4, <2>1, QuietStep DEF KeepRow
<1>5. CASE ~(t >= Deadline) /\ Runnable(j.epoch, t)
  <2> DEFINE until == Least(Deadline, t + LeaseMs)
             x == [j EXCEPT !.renewed = until]
             p == row'
  <2>1. p = [row EXCEPT !.lease = until] /\ fresh' = {} /\ Become(c, x)
    BY <1>3, <1>5 DEF SetRow
  <2>2. until \in Nat
    BY ConstantsTyped DEF Least, Instants
  <2>3. x = [j EXCEPT !.renewed = until] /\ until = Least(Deadline, t + LeaseMs)
    OBVIOUS
  <2> HIDE DEF x, until, p, j
  <2>4. x \in Jobs /\ x.pc = j.pc /\ x.epoch = j.epoch /\ x.call = j.call /\ x.next = j.next
        /\ x.outcome = j.outcome /\ x.name = j.name
    BY <1>2, <2>2, <2>3 DEF Jobs
  <2>5. p \in Rows
    BY <1>1, <2>1, <2>2 DEF Rows
  <2>6. p.epoch = row.epoch /\ p.owned = row.owned /\ p.status = row.status
    BY <1>1, <2>1 DEF Rows
  <2>7. p.pending = row.pending /\ p.wakeAt = row.wakeAt
    BY <1>1, <2>1 DEF Rows
  <2>8. OthersTyped'
    BY <1>1, <2>1 DEF OthersTyped, journal
  <2>9. TypeOK'
    BY <1>1, <2>1, <2>4, <2>5, <2>8, TypedStep, ContextsTyped DEF p
  <2>10. ClaimInv'
    BY <1>1, <1>3, <1>5, <2>1, <2>3, <2>9, RenewKeeps DEF j, p
  <2>11. Looked(x)
    BY <1>2, <2>4 DEF Looked, Parks
  <2> QED
    BY <1>1, <2>1, <2>6, <2>7, <2>10, <2>11, RunStep DEF p
<1> QED
  BY <1>3, <1>4, <1>5

\* The Host that has the context stops it: from then on the epoch is quiet.
LEMMA StopKeeps ==
  ASSUME WorkflowInv, NEW c \in Controllers, Stop(c)
  PROVE  WorkflowInv'
<1> DEFINE j == job[c]
           e == j.epoch
           x == Proved(j)
<1>1. /\ j.pc = "stop" /\ ClaimInv /\ RecordsInv /\ JobsLooked /\ TypeOK /\ OthersTyped /\ row \in Rows
      /\ faults \in 0..MaxFaults
      /\ UNCHANGED <<now, row, journal, send, fresh, faults>>
  BY InvParts DEF Stop, AsksHost, TypeOK
<1>2. j \in Jobs /\ Formed(j) /\ Looked(j) /\ j.host \in Hosts /\ e \in 0..MaxEpoch /\ e # 0
  BY <1>1, CallFacts DEF JobsLooked
<1>3. CASE context[e].host # j.host
  <2>1. UNCHANGED context
    BY <1>3 DEF Stop, HostStops
  <2>2. CallMoves(c)
    BY <1>1, <1>3, MovesUnanswered
  <2> QED
    BY <1>1, <2>1, <2>2, QuietStep
<1>4. CASE context[e].host = j.host
  <2>1. context' = [context EXCEPT ![e] = Dead(context[e])] /\ Become(c, x)
    BY <1>4 DEF Stop, HostStops
  <2>2. e \in Epochs /\ context[e].host # None
    BY <1>2, <1>4, ConstantsTyped DEF Epochs
  <2>3. Follows(j, x) /\ x.epoch = e /\ (Blind(x) \/ Looked(x)) /\ x.pc \notin {"claimed", "open", "opened"}
    BY <1>1, <1>2, ProvedIs
  <2>4. x \in Jobs
    BY <2>3 DEF Follows
  <2> HIDE DEF x
  <2>5. ASSUME NEW f \in Epochs
        PROVE  /\ context[f] \in Contexts /\ (context[f].host # None => context[f].state # "none")
               /\ Fades(context[f], context[f])
    <3>1. context[f] \in Contexts /\ (context[f].host # None => context[f].state # "none")
      BY <1>1, EpochTyped DEF ClaimInv, ContextsBounded
    <3> QED
      BY <3>1, SameFades
  <2>6. Dead(context[e]) \in Contexts /\ Fades(context[e], Dead(context[e]))
        /\ Dead(context[e]).state \notin {"paused", "running"}
    BY <2>2, <2>5, DeadIs
  <2>7. \A f \in Epochs : context'[f] = IF f = e THEN Dead(context[e]) ELSE context[f]
    BY <1>1, <2>1, ContextsTyped
  <2>8. context' \in [Epochs -> Contexts]
    BY <1>1, <2>1, <2>6, ContextsTyped
  <2>9. ContextsFade
    BY <1>1, <2>5, <2>6, <2>7 DEF ContextsFade
  <2>10. CodeUnderClaim'
    <3> SUFFICES ASSUME NEW f \in Epochs, context'[f].state = "running"
                 PROVE  (Claimed(f)' /\ row'.status = "running") \/ Overdue(f)'
      BY DEF CodeUnderClaim, Executes
    <3>1. Executes(f) /\ context'[f] = context[f]
      BY <2>6, <2>7 DEF Executes
    <3> QED
      BY <1>1, <3>1 DEF ClaimInv, CodeUnderClaim, Claimed, Overdue
  <2>11. \A d \in Controllers : job'[d] = IF d = c THEN x ELSE job[d]
    BY <1>1, <2>1, BecomeIs
  <2>12. \A d \in Controllers : Moves(job[d], job'[d])
    BY <2>3, <2>11 DEF Moves
  <2>13. PICK f \in Epochs : f = e
    BY <2>2
  <2>20. Quiet(f)'
    <3>1. context'[f].state \notin {"paused", "running"}
      BY <2>2, <2>6, <2>7, <2>13
    <3>2. ASSUME NEW d \in Controllers, job'[d].epoch = f
          PROVE  job'[d].pc \notin {"claimed", "open"}
      <4>1. CASE d = c
        BY <2>3, <2>11, <4>1
      <4>2. CASE d # c
        <5>1. job'[d] = job[d] /\ Timely(job[d])
          BY <1>1, <2>11, <4>2, CallFacts
        <5>2. job[d].pc \in {"claimed", "open"} => context[f] = NoContext
          BY <3>2, <5>1 DEF Timely
        <5> QED
          BY <2>2, <2>13, <5>1, <5>2 DEF NoContext
      <4> QED
        BY <4>1, <4>2
    <3> QED
      BY <3>1, <3>2 DEF Quiet
  <2>14. ASSUME NEW d \in Controllers
         PROVE  Proven(job'[d]) \/ Proven(job[d])'
    <3>1. CASE d = c
      <4>1. job'[d].epoch = f
        BY <2>3, <2>11, <2>13, <3>1
      <4> QED
        BY <2>20, <4>1 DEF Proven, Quiet, Claimed
    <3>2. CASE d # c
      <4>1. job'[d] = job[d]
        BY <2>11, <3>2
      <4> QED
        BY <1>1, <4>1 DEF Proven, PastStop, ClaimInv, StopsProved
    <3> QED
      BY <3>1, <3>2
  <2>15. row' = row /\ RowFades
    BY <1>1, KeptRowFades
  <2>16. OthersTyped'
    BY <1>1 DEF OthersTyped, journal
  <2>17. TypeOK'
    BY <1>1, <2>1, <2>4, <2>8, <2>15, <2>16, TypedStep
  <2>18. ClaimInv'
    BY <1>1, <2>9, <2>10, <2>12, <2>14, <2>15, <2>17, FadeStep
  <2> QED
    BY <1>1, <2>1, <2>3, <2>15, <2>18, RunStep DEF KeepRow
<1> QED
  BY <1>3, <1>4

LEMMA CrashKeeps ==
  ASSUME WorkflowInv, NEW h \in Hosts, Crash(h)
  PROVE  WorkflowInv'
<1>1. /\ ClaimInv /\ RecordsInv /\ JobsLooked /\ TypeOK /\ OthersTyped /\ row \in Rows
      /\ faults < MaxFaults /\ faults' = faults + 1 /\ faults \in 0..MaxFaults /\ MaxFaults \in Nat
      /\ now' = now /\ row' = row /\ steps' = steps /\ queue' = queue /\ send' = send /\ fresh' = fresh
      /\ job' = [c \in Controllers |-> IF job[c].host = h THEN NoJob ELSE job[c]]
      /\ context' = [e \in Epochs |-> IF context[e].host = h THEN [context[e] EXCEPT !.host = None]
                                      ELSE context[e]]
  BY InvParts, ConstantsTyped DEF Crash, journal, TypeOK
<1>2. \A d \in Controllers : job'[d] = NoJob \/ job'[d] = job[d]
  BY <1>1
<1>3. ASSUME NEW e \in Epochs
      PROVE  /\ context'[e] \in Contexts /\ Fades(context[e], context'[e])
             /\ context'[e].state = context[e].state /\ context'[e].until = context[e].until
  <2> DEFINE z == context[e]
             y == context'[e]
  <2>1. z \in Contexts /\ (z.host # None => z.state # "none")
    BY <1>1, EpochTyped DEF ClaimInv, ContextsBounded
  <2>2. CASE context[e].host # h
    <3>1. context'[e] = context[e]
      BY <1>1, <2>2
    <3>2. Fades(context[e], context[e])
      BY <2>1, SameFades
    <3> QED
      BY <2>1, <3>1, <3>2
  <2>3. CASE context[e].host = h
    <3>1. y = [z EXCEPT !.host = None]
      BY <1>1, <2>3
    <3>2. z # NoContext
      BY <2>3, ConstantsTyped DEF NoContext
    <3> HIDE DEF y, z
    <3>3. y \in Contexts /\ y.host = None /\ y.state = z.state /\ y.until = z.until
      BY <2>1, <3>1 DEF Contexts
    <3>4. z.until \in Nat
      BY <2>1 DEF Contexts
    <3>5. Fades(z, y)
      BY <3>2, <3>3, <3>4 DEF Fades
    <3> QED
      BY <3>3, <3>5 DEF y, z
  <2> QED
    BY <2>2, <2>3
<1>4. job' \in [Controllers -> Jobs]
  BY <1>1, EpochTyped, NoJobTyped
<1>5. TypeOK'
  <2>1. context' \in [Epochs -> Contexts]
    BY <1>1, <1>3
  <2>2. faults' \in 0..MaxFaults
    BY <1>1
  <2> QED
    BY <1>1, <1>4, <2>1, <2>2 DEF TypeOK, Contexts, Jobs
<1>6. Follows(NoJob, NoJob) /\ Proven(NoJob) /\ Blind(NoJob) /\ \A j : Follows(j, NoJob)
  BY <1>1, FollowsNoJob
<1>7. \A d \in Controllers : Moves(job[d], job'[d]) /\ Proven(job'[d])
  BY <1>1, <1>2, <1>6 DEF Moves, Proven, PastStop, ClaimInv, StopsProved
<1>8. ContextsFade
  BY <1>1, <1>3 DEF ContextsFade
<1>9. RowFades
  BY <1>1, KeptRowFades
<1>10. CodeUnderClaim'
  BY <1>1, <1>3 DEF ClaimInv, CodeUnderClaim, Executes, Claimed, Overdue
<1>11. ClaimInv'
  BY <1>1, <1>5, <1>7, <1>8, <1>9, <1>10, FadeStep
<1>12. JobsLooked'
  <2>1. \A d \in Controllers : job'[d] = job[d] \/ Blind(job'[d]) \/ Looked(job'[d])
    BY <1>2, <1>6
  <2> QED
    BY <1>1, <1>9, <2>1, LookedKept
<1>13. RecordsInv'
  <2>1. KeepRow /\ Active(row)' = Active(row) /\ now' \in {now, now + 1}
    BY <1>1 DEF KeepRow, Active
  <2>2. row'.status = "waiting" => /\ row.status = "waiting" /\ ~row'.owned
                                   /\ row'.pending = row.pending /\ row'.wakeAt = row.wakeAt
    BY <1>1 DEF RecordsInv, WaitersParked
  <2> QED
    BY <1>1, <2>1, <2>2, RecordsKept
<1> QED
  BY <1>11, <1>12, <1>13, InvFromParts

\* A mutation lands, or finds that it may not.
LEMMA LandKeeps ==
  ASSUME WorkflowInv, NEW c \in Controllers, Land(c)
  PROVE  WorkflowInv'
<1> DEFINE k == job[c].call
<1>1. /\ ClaimInv /\ RecordsInv /\ JobsLooked /\ TypeOK /\ OthersTyped /\ row \in Rows /\ Accepted(job[c])
      /\ UNCHANGED <<now, row, context, send, fresh, faults>> /\ faults \in 0..MaxFaults
  BY InvParts DEF Land, TypeOK
<1>2. PICK x :
        /\ Become(c, x) /\ Follows(job[c], x) /\ Proven(x)
        /\ \/ Blind(x) /\ UNCHANGED journal
           \/ /\ \E t \in Instants : Mutation(job[c].epoch, t, k)
              /\ steps' = [steps EXCEPT ![k.name] = k.to]
              /\ IF k.phase = "consume"
                 THEN \E i \in DOMAIN queue : queue[i].event = k.event /\ queue' = RemoveAt(queue, i)
                 ELSE UNCHANGED queue
              /\ x.call.phase = "look" => x.call.name = k.name /\ x.call.prior = k.to
              /\ Parks(x) => x.outcome = "sleeping"
  BY <1>1, MovesLand
<1>3. CASE Blind(x) /\ UNCHANGED journal
  <2>1. CallMoves(c)
    BY <1>2, <1>3 DEF CallMoves, Sound
  <2> QED
    BY <1>1, <1>3, <2>1, QuietStep
<1>4. CASE ~(Blind(x) /\ UNCHANGED journal)
  <2>1. PICK t \in Instants : Mutation(job[c].epoch, t, k)
    BY <1>2, <1>4
  <2>2. /\ steps' = [steps EXCEPT ![k.name] = k.to]
        /\ IF k.phase = "consume"
           THEN \E i \in DOMAIN queue : queue[i].event = k.event /\ queue' = RemoveAt(queue, i)
           ELSE UNCHANGED queue
        /\ x.call.phase = "look" => x.call.name = k.name /\ x.call.prior = k.to
        /\ Parks(x) => x.outcome = "sleeping"
    BY <1>2, <1>4
  <2>3. RecordsInv' /\ OthersTyped'
    BY <1>1, <2>1, <2>2, RecordsLanded
  <2>4. row' = row /\ row' \in Rows /\ RowFades /\ RowHeld
    BY <1>1, KeptRowFades
  <2>5. ClaimInv'
    BY <1>1, <1>2, <2>3, <2>4, CallStepKeeps
  <2>6. JobsLooked'
    <3>1. \A d \in Controllers : job'[d] = IF d = c THEN x ELSE job[d]
      BY <1>1, <1>2, BecomeIs
    <3>2. Claimed(job[c].epoch) /\ Drives(job[c]) /\ k.name \in Names
      <4>1. Formed(job[c]) /\ k # NoCall
        BY <1>1, CallFacts, NoCallTyped DEF Accepted
      <4> QED
        BY <1>1, <2>1, <4>1, NoCallTyped DEF Mutation, Runnable, Drives, Formed, SoundCall, Accepted
    <3> SUFFICES ASSUME NEW d \in Controllers, Claimed(job[d].epoch)'
                 PROVE  /\ job'[d].call.phase = "look" => steps'[job'[d].call.name] = job'[d].call.prior
                        /\ ~(Parks(job'[d]) /\ job'[d].outcome = "waiting")
      BY DEF JobsLooked, Looked
    <3>3. CASE d = c
      <4>1. steps'[k.name] = k.to
        BY <1>1, <2>2, <3>2 DEF TypeOK
      <4>2. job'[d] = x
        BY <3>1, <3>3
      <4> QED
        BY <2>2, <4>1, <4>2
    <3>4. CASE d # c
      <4>1. job'[d] = job[d]
        BY <3>1, <3>4
      <4>2. job[d].epoch = job[c].epoch
        BY <2>4, <3>2, <4>1 DEF Claimed
      <4>3. ~Drives(job[d])
        BY <1>1, <3>2, <3>4, <4>2 DEF ClaimInv, OneDriver
      <4> QED
        BY <4>1, <4>3, NoCallTyped DEF Drives
    <3> QED
      BY <3>3, <3>4
  <2> QED
    BY <2>3, <2>5, <2>6, InvFromParts
<1> QED
  BY <1>3, <1>4

LEMMA SendEventKeeps ==
  ASSUME WorkflowInv, NEW v \in Events, SendEvent(v)
  PROVE  WorkflowInv'
<1>1. /\ send[v].pc = "idle" /\ TypeOK /\ RecordsInv /\ row \in Rows /\ now \in Nat
      /\ now' = now /\ context' = context /\ job' = job /\ faults' = faults
  BY InvParts DEF SendEvent
<1>2. PICK t \in Instants :
        IF Expired(t)
        THEN Expire /\ send' = [send EXCEPT ![v].pc = "refused"]
        ELSE Attempt(v, t) /\ UNCHANGED <<row, journal>>
  BY DEF SendEvent
<1>3. CASE Expired(t)
  <2>1. RowEnds /\ DropJournal /\ fresh' = {}
    BY <1>1, <1>2, <1>3, ExpireEnds
  <2> DEFINE z == send[v]
             y == [z EXCEPT !.pc = "refused"]
  <2>2. send' = [send EXCEPT ![v] = y] /\ y = [z EXCEPT !.pc = "refused"]
    BY <1>1, <1>2, <1>3, SendsTyped
  <2>3. z \in SendRecords /\ z.at <= now
    BY <1>1, SendsTyped DEF RecordsInv, SendsFresh
  <2> HIDE DEF y, z
  <2>4. y \in SendRecords /\ y.at = z.at
    BY <2>2, <2>3 DEF SendRecords
  <2>5. send' \in [Events -> SendRecords]
    BY <1>1, <2>2, <2>4, SendsTyped
  <2>6. \A u \in Events : send'[u] = IF u = v THEN y ELSE send[u]
    BY <1>1, <2>2, SendsTyped
  <2>7. \A u \in Events : send[u].at <= now
    BY <1>1 DEF RecordsInv, SendsFresh
  <2>8. \A u \in Events : send'[u].at <= now
    BY <2>3, <2>4, <2>6, <2>7
  <2> QED
    BY <1>1, <2>1, <2>5, <2>8, EndStepAlone
<1>4. CASE ~Expired(t)
  <2>1. Attempt(v, t) /\ row' = row /\ steps' = steps /\ queue' = queue
    BY <1>2, <1>4 DEF journal
  <2>2. v \notin fresh
    BY <1>1 DEF RecordsInv, SendsFresh
  <2>3. t \in Nat /\ t <= now
    BY <1>1 DEF Instants
  <2>4. RecordsInv' /\ OthersTyped'
    BY <1>1, <2>1, <2>2, <2>3, RecordsAttempted
  <2>5. RowFades
    BY <1>1, <2>1, KeptRowFades
  <2> QED
    BY <1>1, <2>1, <2>4, <2>5, SendStep
<1> QED
  BY <1>3, <1>4

LEMMA AdmitKeeps ==
  ASSUME WorkflowInv, NEW v \in Events, Admit(v)
  PROVE  WorkflowInv'
<1> DEFINE n == send[v].direct
           t == send[v].at
<1>1. /\ send[v].pc = "commit" /\ TypeOK /\ RecordsInv /\ row \in Rows /\ now \in Nat /\ row.lease \in Nat
      /\ now' = now /\ context' = context /\ job' = job /\ faults' = faults
  BY InvParts, EpochTyped DEF Admit
<1>2. t \in Nat /\ t <= now
  BY <1>1, SendsTyped DEF RecordsInv, SendsFresh
<1>3. CASE v \notin fresh
  <2>1. Attempt(v, t) /\ row' = row /\ steps' = steps /\ queue' = queue
    BY <1>3 DEF Admit, journal
  <2>2. RecordsInv' /\ OthersTyped'
    BY <1>1, <1>2, <1>3, <2>1, RecordsAttempted
  <2>3. RowFades
    BY <1>1, <2>1, KeptRowFades
  <2> QED
    BY <1>1, <2>1, <2>2, <2>3, SendStep
<1>4. CASE v \in fresh /\ n # None /\ Matching(steps[n].at) = {}
  <2>1. /\ steps' = [steps EXCEPT ![n] = SettledStep(@, "complete", v)]
        /\ row' = [row EXCEPT !.wakeAt = t] /\ fresh' = {} /\ queue' = queue
        /\ send' = [send EXCEPT ![v] = [pc |-> "accepted", at |-> 0, direct |-> None]]
    BY <1>4 DEF Admit, SetRow
  <2>2. RecordsInv' /\ OthersTyped'
    BY <1>1, <1>4, <2>1, RecordsDirect
  <2>3. row' \in Rows /\ row'.status = row.status /\ row'.epoch = row.epoch /\ row'.owned = row.owned
        /\ row'.lease = row.lease
    BY <1>1, <1>2, <2>1, WakeSet
  <2>4. row.status # "running"
    BY <1>1, <1>4 DEF RecordsInv, SendsFresh, PendingWait
  <2>5. RowFades
    BY <1>1, <2>3 DEF RowFades
  <2> QED
    BY <1>1, <2>2, <2>3, <2>4, <2>5, SendStep
<1>5. CASE v \in fresh /\ ~(n # None /\ Matching(steps[n].at) = {})
  <2>1. /\ row' = row /\ steps' = steps /\ fresh' = fresh \ {v}
        /\ \/ /\ Active(row) /\ ~row.termination /\ Deadline > t
              /\ queue' = Append(queue, [event |-> v, at |-> t])
              /\ send' = [send EXCEPT ![v] = [pc |-> "accepted", at |-> 0, direct |-> None]]
           \/ /\ queue' = queue
              /\ send' = [send EXCEPT ![v] = [pc |-> "refused", at |-> 0, direct |-> None]]
    BY <1>5 DEF Admit, journal
  <2>2. RecordsInv' /\ OthersTyped'
    BY <1>1, <1>5, <2>1, RecordsQueued, RecordsRefused
  <2>3. RowFades
    BY <1>1, <2>1, KeptRowFades
  <2> QED
    BY <1>1, <2>1, <2>2, <2>3, SendStep
<1> QED
  BY <1>3, <1>4, <1>5

-----------------------------------------------------------------------------
(* The invariant, and what follows from it.                                 *)

LEMMA InitInv ==
  ASSUME Init
  PROVE  WorkflowInv
<1>1. /\ now = 1 /\ queue = <<>> /\ fresh = {} /\ faults = 0
      /\ row = [status |-> "queued", epoch |-> 0, owned |-> FALSE, lease |-> 0, wakeAt |-> 0,
                pending |-> None, termination |-> FALSE]
      /\ steps = [n \in Names |-> None]
      /\ context = [e \in Epochs |-> NoContext]
      /\ job = [c \in Controllers |-> NoJob]
      /\ send = [v \in Events |-> [pc |-> "idle", at |-> 0, direct |-> None]]
  BY DEF Init
<1>2. /\ row \in Rows /\ row.status = "queued" /\ row.epoch = 0 /\ row.owned = FALSE /\ row.lease = 0
  BY <1>1, ConstantsTyped DEF Rows
<1>3. \A c \in Controllers : job[c] = NoJob
  BY <1>1
<1>4. \A e \in Epochs : context[e] = NoContext
  BY <1>1
<1>5. NoContext \in Contexts /\ NoContext.state = "none" /\ NoContext.until = 0 /\ NoContext.host = None
  BY DEF NoContext, Contexts
<1>6. \A v \in Events : send[v].pc = "idle" /\ send[v].at = 0
  BY <1>1
<1>7. TypeOK
  <2>1. job \in [Controllers -> Jobs]
    BY <1>1, NoJobTyped
  <2>2. context \in [Epochs -> Contexts]
    BY <1>1, <1>5
  <2>3. send \in [Events -> [pc: {"idle", "commit", "accepted", "refused"}, at: Nat, direct: Names \cup {None}]]
    BY <1>1
  <2>4. now \in 1..Horizon /\ faults \in 0..MaxFaults
    BY <1>1, ConstantsTyped
  <2>5. queue \in Seq([event: Events, at: Nat]) /\ steps \in [Names -> StepRows \cup {None}] /\ fresh \subseteq Events
    BY <1>1
  <2> QED
    BY <1>2, <2>1, <2>2, <2>3, <2>4, <2>5 DEF TypeOK, Jobs, Contexts
<1>8. JobsFormed /\ OneDriver
  BY <1>3, NoJobTyped DEF JobsFormed, OneDriver
<1>9. LeaseBounded
  BY <1>1, <1>2, ConstantsTyped DEF LeaseBounded
<1>10. JobsTimely /\ StopsProved
  BY <1>2, <1>3, NoJobTyped DEF JobsTimely, Timely, StopsProved
<1>11. ContextsBounded /\ CodeUnderClaim
  BY <1>4, <1>5, ConstantsTyped DEF ContextsBounded, CodeUnderClaim, Executes
<1>12. StepsSound /\ WaitersParked /\ WaitersWoken
  BY <1>1, <1>2 DEF StepsSound, WaitersParked, WaitersWoken
<1>13. JobsLooked /\ SendsFresh
  <2>1. SendsFresh
    BY <1>1, <1>6 DEF SendsFresh
  <2> QED
    BY <1>2, <2>1 DEF JobsLooked, Looked
<1>14. EventsPlaced
  <2>1. \A v : ~InQueue(v) /\ ~IsTaken(v)
    BY <1>1 DEF InQueue, IsTaken
  <2>2. Active(row)
    BY <1>2 DEF Active, Terminal
  <2> QED
    BY <1>1, <1>6, <2>1, <2>2 DEF EventsPlaced
<1> QED
  BY <1>7, <1>8, <1>9, <1>10, <1>11, <1>12, <1>13, <1>14 DEF WorkflowInv, ClaimInv, JournalInv

LEMMA StutterKeeps ==
  ASSUME WorkflowInv, UNCHANGED vars
  PROVE  WorkflowInv'
<1>1. /\ now' = now /\ row' = row /\ steps' = steps /\ queue' = queue /\ context' = context
      /\ job' = job /\ send' = send /\ fresh' = fresh /\ faults' = faults
  BY DEF vars, journal
<1>2. ClaimInv /\ RecordsInv /\ JobsLooked /\ TypeOK /\ OthersTyped
  BY InvParts
<1>3. row' \in Rows /\ RowFades
  BY <1>1, <1>2, KeptRowFades
<1>4. OthersTyped'
  BY <1>1, <1>2 DEF OthersTyped
<1>5. RecordsInv'
  <2>1. KeepRow /\ Active(row)' = Active(row) /\ now' \in {now, now + 1}
    BY <1>1 DEF KeepRow, Active
  <2>2. row'.status = "waiting" => /\ row.status = "waiting" /\ ~row'.owned
                                   /\ row'.pending = row.pending /\ row'.wakeAt = row.wakeAt
    BY <1>1, <1>2 DEF RecordsInv, WaitersParked
  <2> QED
    BY <1>1, <1>2, <2>1, <2>2, RecordsKept
<1> QED
  BY <1>1, <1>3, <1>4, <1>5, SendStep

LEMMA NextKeeps ==
  ASSUME WorkflowInv, [Next]_vars
  PROVE  WorkflowInv'
<1>1. CASE Tick \/ \E e \in Epochs : GuardKills(e)
  BY <1>1, TickKeeps, GuardKillsKeeps
<1>2. CASE Status
  BY <1>2, StatusKeeps
<1>3. ASSUME NEW c \in Controllers, NEW op \in {"run", "terminate"}, NEW h \in Hosts, Begin(c, h, op)
      PROVE  WorkflowInv'
  BY <1>3, BeginKeeps
<1>4. ASSUME NEW c \in Controllers, Work(c)
      PROVE  WorkflowInv'
  <2>1. CASE Claim(c)
    BY <2>1, ClaimActionKeeps
  <2>2. CASE BeforeOpen(c)
    BY <2>2, BeforeOpenKeeps
  <2>3. CASE OpenPaused(c)
    BY <2>3, OpenPausedKeeps
  <2>4. CASE Start(c)
    BY <2>4, StartKeeps
  <2>5. CASE Stop(c)
    BY <2>5, StopKeeps
  <2>6. CASE Release(c)
    BY <2>6, ReleaseKeeps
  <2>7. CASE Terminalize(c)
    BY <2>7, TerminalizeKeeps
  <2>8. CASE Park(c)
    BY <2>8, ParkKeeps
  <2>9. CASE Renew(c)
    BY <2>9, RenewActionKeeps
  <2>10. CASE Extend(c)
    BY <2>10, ExtendKeeps
  <2>11. CASE Mark(c)
    BY <2>11, MarkKeeps
  <2>12. CASE FinalizeTermination(c)
    BY <2>12, FinalizeKeeps
  <2>13. CASE ClearBit(c)
    BY <2>13, ClearBitKeeps
  <2>14. CASE Reread(c) \/ RunRejects(c) \/ Look(c) \/ Marked(c) \/ Recheck(c)
    BY <2>14, QuietActions
  <2> QED
    BY <1>4, <2>1, <2>2, <2>3, <2>4, <2>5, <2>6, <2>7, <2>8, <2>9, <2>10, <2>11, <2>12, <2>13, <2>14 DEF Work
<1>5. ASSUME NEW c \in Controllers, Application(c) \/ StopFails(c)
      PROVE  WorkflowInv'
  BY <1>5, QuietActions DEF Application
<1>6. ASSUME NEW c \in Controllers, Land(c)
      PROVE  WorkflowInv'
  BY <1>6, LandKeeps
<1>7. ASSUME NEW c \in Controllers, OpenFails(c)
      PROVE  WorkflowInv'
  BY <1>7, OpenFailsKeeps
<1>8. ASSUME NEW v \in Events, SendEvent(v) \/ Admit(v)
      PROVE  WorkflowInv'
  BY <1>8, SendEventKeeps, AdmitKeeps
<1>9. ASSUME NEW h \in Hosts, Crash(h)
      PROVE  WorkflowInv'
  BY <1>9, CrashKeeps
<1>10. CASE UNCHANGED vars
  BY <1>10, StutterKeeps
<1> QED
  BY <1>1, <1>2, <1>3, <1>4, <1>5, <1>6, <1>7, <1>8, <1>9, <1>10 DEF Next

\* The inductive invariant of the runs of an instance holds.
THEOREM WorkflowInvHolds == Spec => []WorkflowInv
BY InitInv, NextKeeps, PTL DEF Spec

\* Row, journal, calls, contexts and events keep their types: no epoch beyond its bound, no
\* step row with an attempt beyond its retries, no queued event without an instant.
THEOREM TypeCorrect == Spec => []TypeOK
<1>1. WorkflowInv => TypeOK
  BY DEF WorkflowInv, ClaimInv
<1> QED
  BY <1>1, WorkflowInvHolds, PTL

\* Application code runs in the context of the current claim of a running instance only,
\* whatever leases lapse, Hosts die and stops go unanswered.
THEOREM CodeUnderClaimHolds == Spec => []CodeUnderClaim
<1>1. WorkflowInv => CodeUnderClaim
  BY DEF WorkflowInv, ClaimInv
<1> QED
  BY <1>1, WorkflowInvHolds, PTL

\* No wake-up is lost: an instance parked on a wait whose event has come is due, however the
\* sending of the event and the parking overlapped.
THEOREM WaitersWokenHolds == Spec => []WaitersWoken
<1>1. WorkflowInv => WaitersWoken
  BY DEF WorkflowInv, JournalInv
<1> QED
  BY <1>1, WorkflowInvHolds, PTL

LEMMA PlacedOnce ==
  ASSUME EventsPlaced
  PROVE  EventsAccounted
<1> DEFINE Q(v) == {i \in DOMAIN queue : queue[i].event = v}
           T(v) == {n \in Recorded : steps[n].result = v}
<1>1. CASE ~Active(row)
  BY <1>1 DEF EventsPlaced, EventsAccounted
<1>2. CASE Active(row)
  <2> SUFFICES ASSUME NEW v \in Events
               PROVE  Cardinality(Q(v)) + Cardinality(T(v)) = IF send[v].pc = "accepted" THEN 1 ELSE 0
    BY <1>2 DEF EventsAccounted
  <2>1. /\ ~(InQueue(v) /\ IsTaken(v))
        /\ (InQueue(v) \/ IsTaken(v)) <=> send[v].pc = "accepted"
    BY <1>2 DEF EventsPlaced
  <2>2. ~InQueue(v) => Cardinality(Q(v)) = 0
    <3>1. ~InQueue(v) => Q(v) = {}
      BY DEF InQueue
    <3> QED
      BY <3>1, FS_EmptySet
  <2>3. ~IsTaken(v) => Cardinality(T(v)) = 0
    <3>1. ~IsTaken(v) => T(v) = {}
      BY DEF IsTaken, Recorded
    <3> QED
      BY <3>1, FS_EmptySet
  <2>4. ASSUME InQueue(v)
        PROVE  Cardinality(Q(v)) = 1
    <3>1. PICK i \in DOMAIN queue : queue[i].event = v
      BY <2>4 DEF InQueue
    <3>2. Q(v) = {i}
      BY <3>1 DEF EventsPlaced
    <3> QED
      BY <3>2, FS_Singleton
  <2>5. ASSUME IsTaken(v)
        PROVE  Cardinality(T(v)) = 1
    <3>1. PICK n \in Names : steps[n] # None /\ steps[n].result = v
      BY <2>5 DEF IsTaken
    <3>2. v # None
      BY ConstantsTyped
    <3>3. T(v) = {n}
      BY <3>1, <3>2 DEF EventsPlaced, Recorded
    <3> QED
      BY <3>3, FS_Singleton
  <2> HIDE DEF Q, T
  <2>6. CASE InQueue(v)
    BY <2>1, <2>3, <2>4, <2>6
  <2>7. CASE IsTaken(v)
    BY <2>1, <2>2, <2>5, <2>7
  <2>8. CASE ~InQueue(v) /\ ~IsTaken(v)
    BY <2>1, <2>2, <2>3, <2>8
  <2> QED
    BY <2>6, <2>7, <2>8
<1> QED
  BY <1>1, <1>2

\* An accepted event is in the queue or the result of one wait, never both, twice or neither,
\* and an ended instance has no journal.
THEOREM EventsAccountedHolds == Spec => []EventsAccounted
<1>1. WorkflowInv => EventsAccounted
  BY PlacedOnce DEF WorkflowInv, JournalInv
<1> QED
  BY <1>1, WorkflowInvHolds, PTL

-----------------------------------------------------------------------------
(* What a step may never do to what was recorded.                           *)

RecordsFinalStep ==
  /\ ~Active(row) => row'.status = row.status
  /\ row.termination => row'.status \in {row.status, "terminated", "errored"}
  /\ Active(row') => \A n \in Recorded : steps[n].state \in Settled => steps'[n] = steps[n]

LEMMA FinalKept ==
  ASSUME row'.status = row.status, steps' = steps
  PROVE  RecordsFinalStep
BY DEF RecordsFinalStep

LEMMA FinalExpire ==
  ASSUME row \in Rows, NEW t, Expired(t), Expire
  PROVE  RecordsFinalStep
<1>1. row' = Ended(row, "errored") /\ Active(row)
  BY DEF Expire, SetRow, Expired
<1>2. row'.status = "errored"
  BY <1>1, EndedIs DEF Terminal
<1> QED
  BY <1>1, <1>2 DEF RecordsFinalStep, Active, Terminal

LEMMA FinalClearing ==
  ASSUME row \in Rows, NEW e, ClearOwner(e)
  PROVE  row'.status = row.status
<1>1. row' = row \/ row' = Unowned(row)
  BY DEF ClearOwner, SetRow, KeepRow
<1> QED
  BY <1>1, UnownedIs

\* The calls of a run up to its execution, and its heartbeat.
LEMMA FinalWork ==
  ASSUME WorkflowInv, NEW c \in Controllers, Work(c)
  PROVE  RecordsFinalStep
<1>1. row \in Rows /\ TypeOK
  BY InvParts
<1>2. CASE Claim(c)
  <2>1. steps' = steps /\ (row' = row \/ (~row.termination /\ Active(row)))
    BY <1>2 DEF Claim, SetRow, KeepRow, journal
  <2> QED
    BY <2>1 DEF RecordsFinalStep
<1>3. CASE BeforeOpen(c) \/ Release(c)
  <2>1. steps' = steps /\ (row' = row \/ \E e : ClearOwner(e))
    BY <1>3 DEF BeforeOpen, Release, KeepRow, journal
  <2> QED
    BY <1>1, <2>1, FinalClearing, FinalKept
<1>4. CASE Terminalize(c)
  <2>1. \/ row' = row /\ steps' = steps
        \/ ~row.termination /\ Active(row) /\ \E o \in Terminal : row' = Ended(row, o)
    BY <1>4 DEF Terminalize, SetRow, KeepRow, journal, Terminal
  <2>2. CASE row' = row /\ steps' = steps
    BY <2>2, FinalKept
  <2>3. CASE ~row.termination /\ Active(row) /\ \E o \in Terminal : row' = Ended(row, o)
    <3>1. row'.status \in Terminal
      BY <1>1, <2>3, EndedIs
    <3> QED
      BY <2>3, <3>1 DEF RecordsFinalStep, Active
  <2> QED
    BY <2>1, <2>2, <2>3
<1>5. CASE Park(c)
  <2>1. steps' = steps /\ (row' = row \/ (~row.termination /\ Active(row)))
    BY <1>5 DEF Park, Runnable, KeepRow, journal, Active, Terminal
  <2> QED
    BY <2>1 DEF RecordsFinalStep
<1>6. CASE Renew(c)
  <2>1. steps' = steps /\ (row' = row \/ \E u : row' = [row EXCEPT !.lease = u])
    BY <1>6 DEF Renew, SetRow, KeepRow, journal
  <2>2. row'.status = row.status
    BY <1>1, <2>1 DEF Rows
  <2> QED
    BY <2>1, <2>2, FinalKept
<1>7. CASE Mark(c)
  <2>1. steps' = steps /\ (row' = row \/ row' = [row EXCEPT !.termination = TRUE])
    BY <1>7 DEF Mark, SetRow, KeepRow, journal
  <2>2. row'.status = row.status
    BY <1>1, <2>1, TerminationSet
  <2> QED
    BY <2>1, <2>2, FinalKept
<1>8. CASE FinalizeTermination(c)
  <2>1. \/ row' = row /\ steps' = steps
        \/ /\ Active(row)
           /\ \E o \in {"terminated", "errored"} :
                row' = [Unowned(Ended(row, o)) EXCEPT !.termination = FALSE]
    BY <1>8 DEF FinalizeTermination, SetRow, KeepRow, journal
  <2>2. CASE row' = row /\ steps' = steps
    BY <2>2, FinalKept
  <2>3. CASE Active(row) /\ \E o \in {"terminated", "errored"} :
                row' = [Unowned(Ended(row, o)) EXCEPT !.termination = FALSE]
    <3>1. PICK o \in {"terminated", "errored"} :
                row' = [Unowned(Ended(row, o)) EXCEPT !.termination = FALSE]
      BY <2>3
    <3> DEFINE p == Ended(row, o)
               q == Unowned(p)
    <3>2. p \in Rows /\ p.status = o
      BY <1>1, EndedIs DEF Terminal
    <3>3. q = Unowned(p) /\ row' = [q EXCEPT !.termination = FALSE]
      BY <3>1
    <3> HIDE DEF p, q
    <3>4. q \in Rows /\ q.status = o
      BY <3>2, <3>3, UnownedIs
    <3>5. row'.status = o
      BY <3>3, <3>4, TerminationSet
    <3> QED
      BY <2>3, <3>5 DEF RecordsFinalStep, Active, Terminal
  <2> QED
    BY <2>1, <2>2, <2>3
<1>9. CASE ClearBit(c)
  <2> DEFINE q == Unowned(row)
  <2>1. steps' = steps /\ (row' = row \/ row' = [q EXCEPT !.termination = FALSE]) /\ q = Unowned(row)
    BY <1>9 DEF ClearBit, SetRow, KeepRow, journal
  <2> HIDE DEF q
  <2>2. q \in Rows /\ q.status = row.status
    BY <1>1, <2>1, UnownedIs
  <2>3. row'.status = row.status
    BY <2>1, <2>2, TerminationSet
  <2> QED
    BY <2>1, <2>3, FinalKept
<1>10. CASE \/ Reread(c) \/ OpenPaused(c) \/ Start(c) \/ Stop(c) \/ Extend(c) \/ RunRejects(c) \/ Look(c)
            \/ Marked(c) \/ Recheck(c)
  <2>1. row' = row /\ steps' = steps
    BY <1>10 DEF Reread, OpenPaused, Start, Stop, Extend, RunRejects, Look, Marked, Recheck, journal
  <2> QED
    BY <2>1, FinalKept
<1> QED
  BY <1>2, <1>3, <1>4, <1>5, <1>6, <1>7, <1>8, <1>9, <1>10 DEF Work

\* A mutation replaces a row that it has found unsettled.
LEMMA FinalLand ==
  ASSUME WorkflowInv, NEW c \in Controllers, Land(c)
  PROVE  RecordsFinalStep
<1> DEFINE k == job[c].call
<1>1. ClaimInv /\ TypeOK /\ row' = row /\ Accepted(job[c])
  BY InvParts DEF Land
<1>2. CASE steps' = steps
  BY <1>1, <1>2, FinalKept
<1>3. CASE steps' # steps
  <2>1. steps' = [steps EXCEPT ![k.name] = k.to] /\ \E t : Mutation(job[c].epoch, t, k)
    BY <1>3 DEF Land, journal
  <2>2. steps[k.name] = k.prior
    BY <2>1 DEF Mutation
  <2>3. SoundCall(k) /\ k.phase \in {"insert", "write", "consume"}
    BY <1>1, CallFacts DEF Formed, Accepted
  <2>4. k.prior = None \/ k.prior.state \notin Settled
    BY <2>3 DEF SoundCall
  <2>5. \A n \in Names : steps[n] # None /\ steps[n].state \in Settled => steps'[n] = steps[n]
    BY <1>1, <2>1, <2>2, <2>4 DEF TypeOK
  <2> QED
    BY <1>1, <2>5 DEF RecordsFinalStep, Recorded
<1> QED
  BY <1>2, <1>3

\* An event completes a wait that was open when its row was read, and still is.
LEMMA FinalAdmit ==
  ASSUME WorkflowInv, NEW v \in Events, Admit(v)
  PROVE  RecordsFinalStep
<1> DEFINE n == send[v].direct
           t == send[v].at
<1>1. TypeOK /\ RecordsInv /\ row \in Rows
  BY InvParts
<1>2. CASE row' = row /\ steps' = steps
  BY <1>2, FinalKept
<1>3. CASE v \in fresh /\ n # None /\ Matching(steps[n].at) = {}
  <2>1. /\ steps' = [steps EXCEPT ![n] = SettledStep(@, "complete", v)]
        /\ row' = [row EXCEPT !.wakeAt = t]
    BY <1>3 DEF Admit, SetRow
  <2>2. steps[n].state = "waiting"
    BY <1>1, <1>3 DEF RecordsInv, SendsFresh, PendingWait
  <2>3. \A m \in Names : m # n => steps'[m] = steps[m]
    BY <1>1, <2>1 DEF TypeOK
  <2>4. row'.status = row.status
    BY <1>1, <2>1 DEF Rows
  <2> QED
    BY <2>2, <2>3, <2>4 DEF RecordsFinalStep, Recorded, Settled
<1> QED
  BY <1>2, <1>3 DEF Admit, journal

LEMMA FinalNext ==
  ASSUME WorkflowInv, [Next]_vars
  PROVE  RecordsFinalStep
<1>0. row \in Rows
  BY InvParts
<1>1. CASE Tick \/ UNCHANGED vars \/ \E e \in Epochs : GuardKills(e)
  <2>1. row' = row /\ steps' = steps
    BY <1>1 DEF Tick, GuardKills, vars, journal
  <2> QED
    BY <2>1, FinalKept
<1>2. CASE Status
  BY <1>0, <1>2, FinalExpire DEF Status
<1>3. ASSUME NEW c \in Controllers, NEW op \in {"run", "terminate"}, NEW h \in Hosts, Begin(c, h, op)
      PROVE  RecordsFinalStep
  <2>1. (row' = row /\ steps' = steps) \/ (\E t : Expired(t) /\ Expire)
    BY <1>3 DEF Begin, KeepRow, journal
  <2> QED
    BY <1>0, <2>1, FinalKept, FinalExpire
<1>4. ASSUME NEW c \in Controllers, Work(c)
      PROVE  RecordsFinalStep
  BY <1>4, FinalWork
<1>5. ASSUME NEW c \in Controllers, Application(c) \/ StopFails(c) \/ OpenFails(c)
      PROVE  RecordsFinalStep
  <2>1. row' = row /\ steps' = steps
    BY <1>5 DEF Application, Return, Mismatch, Effect, CallStep, StopFails, OpenFails, journal
  <2> QED
    BY <2>1, FinalKept
<1>6. ASSUME NEW c \in Controllers, Land(c)
      PROVE  RecordsFinalStep
  BY <1>6, FinalLand
<1>7. ASSUME NEW v \in Events, SendEvent(v)
      PROVE  RecordsFinalStep
  <2>1. (row' = row /\ steps' = steps) \/ (\E t : Expired(t) /\ Expire)
    BY <1>7 DEF SendEvent, journal
  <2> QED
    BY <1>0, <2>1, FinalKept, FinalExpire
<1>8. ASSUME NEW v \in Events, Admit(v)
      PROVE  RecordsFinalStep
  BY <1>8, FinalAdmit
<1>9. ASSUME NEW h \in Hosts, Crash(h)
      PROVE  RecordsFinalStep
  <2>1. row' = row /\ steps' = steps
    BY <1>9 DEF Crash, journal
  <2> QED
    BY <2>1, FinalKept
<1> QED
  BY <1>1, <1>2, <1>3, <1>4, <1>5, <1>6, <1>7, <1>8, <1>9 DEF Next

\* What a settled step recorded and a published outcome stand, and a requested termination is
\* outrun by no completion and no park, whichever late call of an older epoch lands.
THEOREM RecordsFinalHolds == Spec => RecordsFinal
<1>1. WorkflowInv /\ [Next]_vars => [RecordsFinalStep]_vars
  BY FinalNext
<1>2. Spec => [][RecordsFinalStep]_vars
  BY <1>1, WorkflowInvHolds, PTL DEF Spec
<1>3. RecordsFinal <=> [][RecordsFinalStep]_vars
  BY DEF RecordsFinal, RecordsFinalStep
<1> QED
  BY <1>2, <1>3

=============================================================================

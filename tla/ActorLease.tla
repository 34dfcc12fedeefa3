----------------------------- MODULE ActorLease -----------------------------
(***************************************************************************)
(* The file lease that keeps the native processes of an Actor namespace    *)
(* apart (src/selfhost-actor-lease.ts).  Several Host processes share one  *)
(* storage root.  The one that owns <key>.owner.json may start a native    *)
(* child on the namespace's files; a successor may take over only what a   *)
(* dead Host and its dead child left.                                      *)
(*                                                                         *)
(* Every change of the lease directory is a step, and so is every check of *)
(* an acquisition; the reads with which a holder's call begins are one.    *)
(* A Host may die between any two steps, and the files then stay as they   *)
(* are.                                                                    *)
(***************************************************************************)
EXTENDS Naturals

CONSTANTS
  Hosts,       \* Host processes; a restarted Host is another process
  Attempts,    \* calls of acquireActorNativeLease, each with its nonce and its inode
  HostOf,      \* the process that makes the call
  MaxChildren, \* bound on the native processes one lease starts
  None

ASSUME ActorLeaseAssumption ==
  /\ HostOf \in [Attempts -> Hosts]
  /\ MaxChildren \in Nat
  /\ None \notin Attempts \cup [owner: Attempts, n: 1..MaxChildren]

VARIABLES
  lock,      \* <key>.owner.json: the attempt that wrote the inode
  claim,     \* <key>.recovering: a second name of an owner inode
  marker,    \* the directory <key>
  record,    \* <key>.child.json: the attempt and the child it names
  temps,     \* attempts whose temporary name of the owner inode remains
  att,       \* progress of each attempt
  alive,     \* Host processes that run
  kid        \* the latest native child started under each attempt

files == <<lock, claim, marker, record, temps>>
vars == <<lock, claim, marker, record, temps, att, alive, kid>>

Acquiring ==
  {"lock", "marker", "child", "owner", "oldChild", "claim", "verify", "verifyLock", "verifyChild", "unlink",
   "publish", "untemp", "confirm", "noClaim", "mark", "claimed", "dropChild", "dropClaim",
   "final"}
Holding == {"held", "recording", "recorded", "releaseMarker", "releaseChild", "releaseLock"}
Progress == Acquiring \cup Holding \cup {"idle", "failed", "unlinked", "released"}

Children == [owner: Attempts, n: 1..MaxChildren]

TypeOK ==
  /\ lock \in Attempts \cup {None}
  /\ claim \in Attempts \cup {None}
  /\ marker \in BOOLEAN
  /\ record \in Children \cup {None}
  /\ temps \subseteq Attempts
  /\ att \in [Attempts -> [pc: Progress, prev: Attempts \cup {None}, recovering: BOOLEAN]]
  /\ alive \subseteq Hosts
  /\ kid \in [Attempts -> [n: 0..MaxChildren, state: {"none", "stopped", "running", "dead"}]]

Init ==
  /\ lock = None /\ claim = None /\ marker = FALSE /\ record = None /\ temps = {}
  /\ att = [a \in Attempts |-> [pc |-> "idle", prev |-> None, recovering |-> FALSE]]
  /\ alive = Hosts
  /\ kid = [a \in Attempts |-> [n |-> 0, state |-> "none"]]

-----------------------------------------------------------------------------

At(a, pc) == att[a].pc = pc /\ HostOf[a] \in alive

Goes(a, pc) == att' = [att EXCEPT ![a].pc = pc]

\* Faulty variant: a Host whose liveness is unknown is taken for dead.
OwnerNotLive(a) == a \in Attempts

\* linuxProcessLiveness of the process that wrote an owner record.
OwnerStale(a) == HostOf[a] \notin alive

\* linuxProcessLiveness of a recorded child.
ChildStale(c) == kid[c.owner].n # c.n \/ kid[c.owner].state = "dead"

\* Faulty variant: the child of a dead Host is taken for dead.
ChildGoneWithHost(a) == record # None => record.owner = a

\* No record, or that of a dead child of the owner's.
ChildGone(a) == record # None => record.owner = a /\ ChildStale(record)

\* Names of the inode an attempt wrote.
Links(a) ==
  (IF lock = a THEN 1 ELSE 0) + (IF claim = a THEN 1 ELSE 0) + (IF a \in temps THEN 1 ELSE 0)

-----------------------------------------------------------------------------
(* acquireActorNativeLease.  Every check that does not hold throws          *)
(* (GiveUp), and leaves the files as they are.                              *)

\* Acquisitions of one Host are serialized by its owner entry.
Start(a) ==
  /\ At(a, "idle")
  /\ \A b \in Attempts \ {a} : HostOf[b] = HostOf[a] =>
       att[b].pc \in {"idle", "failed", "released"}
  /\ claim = None
  /\ Goes(a, "lock")
  /\ UNCHANGED <<files, alive, kid>>

ReadLock(a) ==
  /\ At(a, "lock")
  /\ att' = [att EXCEPT ![a].prev = lock, ![a].pc = IF lock = None THEN "marker" ELSE "owner"]
  /\ UNCHANGED <<files, alive, kid>>

NoMarker(a) ==
  /\ At(a, "marker") /\ ~marker
  /\ Goes(a, "child")
  /\ UNCHANGED <<files, alive, kid>>

NoChild(a) ==
  /\ At(a, "child") /\ record = None
  /\ Goes(a, "publish")
  /\ UNCHANGED <<files, alive, kid>>

OwnerIsStale(a) ==
  /\ At(a, "owner") /\ OwnerStale(att[a].prev)
  /\ Goes(a, "oldChild")
  /\ UNCHANGED <<files, alive, kid>>

OldChildIsStale(a) ==
  /\ At(a, "oldChild") /\ ChildGone(att[a].prev)
  /\ Goes(a, "claim")
  /\ UNCHANGED <<files, alive, kid>>

\* link(lock, claim): whatever inode the lock names by now.
LinkClaim(a) ==
  /\ At(a, "claim") /\ lock # None /\ claim = None
  /\ claim' = lock
  /\ Goes(a, "verify")
  /\ UNCHANGED <<lock, marker, record, temps, alive, kid>>

\* The claim is a name of the inode that was read at first ...
VerifyClaim(a) ==
  /\ At(a, "verify") /\ claim = att[a].prev
  /\ Goes(a, "verifyLock")
  /\ UNCHANGED <<files, alive, kid>>

\* ... and so is the lock, which has no third name.
VerifyLock(a) ==
  /\ At(a, "verifyLock") /\ lock = att[a].prev
  /\ Links(lock) = 2 /\ OwnerStale(lock)
  /\ Goes(a, "verifyChild")
  /\ UNCHANGED <<files, alive, kid>>

VerifyChild(a) ==
  /\ At(a, "verifyChild") /\ ChildGone(att[a].prev)
  /\ Goes(a, "unlink")
  /\ UNCHANGED <<files, alive, kid>>

UnlinkStale(a) ==
  /\ At(a, "unlink") /\ lock # None
  /\ lock' = None
  /\ att' = [att EXCEPT ![a].pc = "publish", ![a].recovering = TRUE]
  /\ UNCHANGED <<claim, marker, record, temps, alive, kid>>

\* Faulty variant: the record is renamed into place.
PublishReplaces(a) ==
  /\ At(a, "publish")
  /\ lock' = a /\ temps' = temps \cup {a}
  /\ Goes(a, "untemp")
  /\ UNCHANGED <<claim, marker, record, alive, kid>>

\* publishFile: link(temporary, lock) fails if the lock exists.
Publish(a) ==
  /\ At(a, "publish") /\ lock = None
  /\ lock' = a /\ temps' = temps \cup {a}
  /\ Goes(a, "untemp")
  /\ UNCHANGED <<claim, marker, record, alive, kid>>

\* A failure to remove the temporary name is ignored.
UnlinkTemp(a) ==
  /\ At(a, "untemp")
  /\ temps' \in {temps, temps \ {a}}
  /\ Goes(a, "confirm")
  /\ UNCHANGED <<lock, claim, marker, record, alive, kid>>

ConfirmLock(a) ==
  /\ At(a, "confirm") /\ lock = a
  /\ Goes(a, IF att[a].recovering THEN "mark" ELSE "noClaim")
  /\ UNCHANGED <<files, alive, kid>>

ConfirmNoClaim(a) ==
  /\ At(a, "noClaim") /\ claim = None
  /\ Goes(a, "mark")
  /\ UNCHANGED <<files, alive, kid>>

MakeMarker(a) ==
  /\ At(a, "mark")
  /\ marker' = TRUE
  /\ Goes(a, "claimed")
  /\ UNCHANGED <<lock, claim, record, temps, alive, kid>>

ReadClaim(a) ==
  /\ At(a, "claimed")
  /\ claim = IF att[a].recovering THEN att[a].prev ELSE None
  /\ Goes(a, IF att[a].recovering THEN "dropChild" ELSE "final")
  /\ UNCHANGED <<files, alive, kid>>

DropChild(a) ==
  /\ At(a, "dropChild") /\ ChildGone(att[a].prev)
  /\ record' = None
  /\ Goes(a, "dropClaim")
  /\ UNCHANGED <<lock, claim, marker, temps, alive, kid>>

DropClaim(a) ==
  /\ At(a, "dropClaim")
  /\ claim' = None
  /\ Goes(a, "final")
  /\ UNCHANGED <<lock, marker, record, temps, alive, kid>>

Acquired(a) ==
  /\ At(a, "final") /\ lock = a /\ claim = None
  /\ Goes(a, "held")
  /\ UNCHANGED <<files, alive, kid>>

\* A check failed, or a call on the file system did.
GiveUp(a) ==
  /\ att[a].pc \in Acquiring /\ HostOf[a] \in alive
  /\ Goes(a, "failed")
  /\ UNCHANGED <<files, alive, kid>>

-----------------------------------------------------------------------------
(* recordNative, called for a child that is stopped before it executes      *)
(* workerd; the child continues once its record is read back.               *)

Spawn(a) ==
  /\ At(a, "held") /\ kid[a].state \in {"none", "dead"} /\ kid[a].n < MaxChildren
  /\ kid' = [kid EXCEPT ![a] = [n |-> @.n + 1, state |-> "stopped"]]
  /\ UNCHANGED <<files, att, alive>>

\* Faulty variant: the record is written before the process exists.
RecordChecksUnstarted(a) ==
  /\ At(a, "held") /\ kid[a].state # "running"
  /\ lock = a /\ claim = None /\ ChildGone(a)
  /\ Goes(a, "recording")
  /\ UNCHANGED <<files, alive, kid>>

RecordChecks(a) ==
  /\ At(a, "held") /\ kid[a].state = "stopped"
  /\ lock = a /\ claim = None /\ ChildGone(a)
  /\ Goes(a, "recording")
  /\ UNCHANGED <<files, alive, kid>>

RecordWrites(a) ==
  /\ At(a, "recording")
  /\ record' = [owner |-> a, n |-> kid[a].n]
  /\ Goes(a, "recorded")
  /\ UNCHANGED <<lock, claim, marker, temps, alive, kid>>

\* Faulty variant: the child continues while its record is being written.
ContinueEarly(a) ==
  /\ att[a].pc \in {"recording", "recorded"} /\ HostOf[a] \in alive
  /\ kid[a].state = "stopped"
  /\ kid' = [kid EXCEPT ![a].state = "running"]
  /\ Goes(a, "held")
  /\ UNCHANGED <<files, alive>>

Continue(a) ==
  /\ At(a, "recorded") /\ record = [owner |-> a, n |-> kid[a].n]
  /\ kid[a].state = "stopped"
  /\ kid' = [kid EXCEPT ![a].state = "running"]
  /\ Goes(a, "held")
  /\ UNCHANGED <<files, alive>>

\* The start is given up; the child was killed.
RecordFails(a) ==
  /\ att[a].pc \in {"recording", "recorded"} /\ HostOf[a] \in alive
  /\ kid[a].state = "dead"
  /\ Goes(a, "held")
  /\ UNCHANGED <<files, alive, kid>>

-----------------------------------------------------------------------------
(* release.                                                                 *)

ReleaseChecks(a) ==
  /\ At(a, "held") /\ kid[a].state \in {"none", "dead"}
  /\ lock = a /\ claim = None /\ ChildGone(a)
  /\ Goes(a, "releaseMarker")
  /\ UNCHANGED <<files, alive, kid>>

ReleaseMarker(a) ==
  /\ At(a, "releaseMarker")
  /\ marker' = FALSE
  /\ Goes(a, "releaseChild")
  /\ UNCHANGED <<lock, claim, record, temps, alive, kid>>

ReleaseChild(a) ==
  /\ At(a, "releaseChild")
  /\ record' = None
  /\ Goes(a, "releaseLock")
  /\ UNCHANGED <<lock, claim, marker, temps, alive, kid>>

ReleaseLock(a) ==
  /\ At(a, "releaseLock")
  /\ lock' = None
  /\ Goes(a, "unlinked")
  /\ UNCHANGED <<claim, marker, record, temps, alive, kid>>

\* It throws, and is called again, while any of the files exists.
Released(a) ==
  /\ At(a, "unlinked")
  /\ lock = None /\ claim = None /\ ~marker /\ record = None
  /\ Goes(a, "released")
  /\ UNCHANGED <<files, alive, kid>>

-----------------------------------------------------------------------------
(* Processes.                                                               *)

Crash(h) ==
  /\ h \in alive
  /\ alive' = alive \ {h}
  /\ UNCHANGED <<files, att, kid>>

\* The child exits, its Host kills it, or the kernel does some time after its Host died.
ChildExits(a) ==
  /\ kid[a].state \in {"stopped", "running"}
  /\ kid' = [kid EXCEPT ![a].state = "dead"]
  /\ UNCHANGED <<files, att, alive>>

AcquireStep(a) ==
  \/ Start(a) \/ ReadLock(a) \/ NoMarker(a) \/ NoChild(a)
  \/ OwnerIsStale(a) \/ OldChildIsStale(a) \/ LinkClaim(a) \/ VerifyClaim(a) \/ VerifyLock(a)
  \/ VerifyChild(a) \/ UnlinkStale(a) \/ Publish(a) \/ UnlinkTemp(a) \/ ConfirmLock(a) \/ ConfirmNoClaim(a)
  \/ MakeMarker(a) \/ ReadClaim(a) \/ DropChild(a) \/ DropClaim(a) \/ Acquired(a) \/ GiveUp(a)

HolderStep(a) ==
  \/ Spawn(a) \/ RecordChecks(a) \/ RecordWrites(a) \/ Continue(a) \/ RecordFails(a)
  \/ ReleaseChecks(a) \/ ReleaseMarker(a) \/ ReleaseChild(a) \/ ReleaseLock(a) \/ Released(a)

Next ==
  \/ \E a \in Attempts : AcquireStep(a) \/ HolderStep(a) \/ ChildExits(a)
  \/ \E h \in Hosts : Crash(h)

Spec == Init /\ [][Next]_vars

-----------------------------------------------------------------------------
(* Properties.                                                              *)

Owns(a) == att[a].pc \in Holding /\ HostOf[a] \in alive

\* Two live Hosts never hold the lease at once, whichever of them crash, and however many
\* of them recover the same stale lease.
SingleOwner == \A a, b \in Attempts : Owns(a) /\ Owns(b) => a = b

\* Never do two native processes run on the namespace's files, although the child of a
\* Host that died may outlive it.
SingleNative ==
  \A a, b \in Attempts : kid[a].state = "running" /\ kid[b].state = "running" => a = b

\* A running native process is on record, so a successor sees it even if its Host is gone.
RunningIsRecorded ==
  \A a \in Attempts : kid[a].state = "running" => record = [owner |-> a, n |-> kid[a].n]

\* docs/takoform-v2.md:960: "Recovery reclaims only an exact owned lease whose Host and
\* recorded child are proved dead": a recovery that comes too late pins no live owner's lock.
ClaimsOnlyDeadOwners == claim # None => OwnerStale(claim)

\* What a live holder owns is not removed under it: neither its lock nor its child's record
\* changes except by its own steps, and the marker stays.
HolderUndisturbed ==
  [][\A a \in Attempts : Owns(a) /\ att'[a] = att[a] =>
       lock' = lock /\ record' = record /\ marker' = marker]_vars

=============================================================================

---------------------------- MODULE UploadQuota ----------------------------
(***************************************************************************)
(* The upload quotas of one member.  An upload reserves a lease in a       *)
(* SERIALIZABLE transaction that counts the leases and the images of the   *)
(* member, stores the object, inserts the image row and releases the       *)
(* lease.  The reservation is therefore one action; everything after it is *)
(* not covered by that transaction.  An upload may fail or die anywhere,   *)
(* and its lease then stays until it expires.                              *)
(*                                                                         *)
(* Time is counted in ticks: a lease lasts LeaseTicks, the rate window     *)
(* WindowTicks, a day DayTicks.                                            *)
(***************************************************************************)
EXTENDS Integers, FiniteSets

CONSTANTS
    Uploads,        \* upload requests of the member
    Concurrent, WindowCount, DailyCount, DailyBytes, TotalBytes, MaxOrphans,
    LeaseTicks, WindowTicks, DayTicks,
    MaxBytes,       \* what a lease reserves: the largest image accepted
    Sizes,          \* sizes of stored images
    TimelyUploads,  \* an upload ends, one way or the other, within its lease
    MaxTime         \* bound of the clock

ASSUME ConstantsAssumption ==
    /\ {Concurrent, WindowCount, DailyCount, DailyBytes, TotalBytes,
        MaxOrphans, LeaseTicks, WindowTicks, DayTicks, MaxBytes}
         \subseteq Nat \ {0}
    /\ IsFiniteSet(Uploads)
    /\ Sizes \subseteq 1 .. MaxBytes
    /\ TimelyUploads \in BOOLEAN
    /\ MaxTime \in Nat

VARIABLES
    now,    \* the clock
    lease,  \* UploadReservation: status and creation time, by upload
    image,  \* EvidenceImage: status, size and creation time, by upload
    stage   \* how far each upload has come

vars == <<now, lease, image, stage>>

Refusals == {"concurrent", "rate", "daily", "total", "orphans"}

Stages == {"waiting", "reserved", "stored", "done"} \cup Refusals

TypeOK ==
    /\ now \in 0 .. MaxTime
    /\ lease \in [Uploads -> [status: {"none", "ACTIVE", "RELEASED"},
                              at: 0 .. MaxTime]]
    /\ image \in [Uploads -> [status: {"none", "orphaned", "linked"},
                              at: 0 .. MaxTime, size: 0 .. MaxBytes]]
    /\ stage \in [Uploads -> Stages]

-----------------------------------------------------------------------------
(* What a reservation counts.                                              *)

NoImage == [status |-> "none", at |-> 0, size |-> 0]

Today == (now \div DayTicks) * DayTicks

Leased == {u \in Uploads : lease[u].status # "none"}

\* The lease has not expired.
Holds(u) == lease[u].status = "ACTIVE" /\ lease[u].at + LeaseTicks > now

LeasesSince(t) == {u \in Leased : lease[u].at >= t}

Held == {u \in Uploads : image[u].status # "none"}

ImagesSince(t) == {u \in Held : image[u].at >= t}

Orphans == {u \in Uploads : image[u].status = "orphaned"}

\* The sum of their sizes: each image counts once for each of its bytes.
Bytes(S) ==
    Cardinality({x \in S \X (1 .. MaxBytes) : x[2] <= image[x[1]].size})

\* Mutant: the bytes of the uploads in progress are not counted.
OverTotalNow == Bytes(Held) + MaxBytes > TotalBytes

OverTotal ==
    Bytes(Held) + MaxBytes * Cardinality({u \in Uploads : Holds(u)}) + MaxBytes
        > TotalBytes

TooManyActive == Cardinality({u \in Uploads : Holds(u)}) >= Concurrent

OverRate == Cardinality(LeasesSince(now - WindowTicks)) >= WindowCount

\* A lease and the image it became count twice.
OverDay ==
    \/ Cardinality(LeasesSince(Today)) + Cardinality(ImagesSince(Today))
           >= DailyCount
    \/ Bytes(ImagesSince(Today)) + MaxBytes > DailyBytes

OverOrphans == Cardinality(Orphans) >= MaxOrphans

\* The first check that fails, in the order of the code.
Refusal ==
    CASE TooManyActive -> "concurrent"
      [] ~TooManyActive /\ OverRate -> "rate"
      [] ~TooManyActive /\ ~OverRate /\ OverDay -> "daily"
      [] ~TooManyActive /\ ~OverRate /\ ~OverDay /\ OverTotal -> "total"
      [] ~TooManyActive /\ ~OverRate /\ ~OverDay /\ ~OverTotal /\ OverOrphans
            -> "orphans"
      [] OTHER -> "none"

-----------------------------------------------------------------------------
(* An upload.                                                              *)

\* Mutant: the lease is stored by its end instead of its beginning.
ReserveUntil(u) ==
    /\ stage[u] = "waiting"
    /\ Refusal = "none"
    /\ lease' = [lease EXCEPT ![u] = [status |-> "ACTIVE",
                                     at |-> now + LeaseTicks]]
    /\ stage' = [stage EXCEPT ![u] = "reserved"]
    /\ UNCHANGED <<now, image>>

\* The expired leases are marked as released in the same transaction.
Reserve(u) ==
    /\ stage[u] = "waiting"
    /\ Refusal = "none"
    /\ lease' = [v \in Uploads |->
                   IF v = u THEN [status |-> "ACTIVE", at |-> now]
                   ELSE IF lease[v].status = "ACTIVE" /\ ~Holds(v)
                        THEN [lease[v] EXCEPT !.status = "RELEASED"]
                        ELSE lease[v]]
    /\ stage' = [stage EXCEPT ![u] = "reserved"]
    /\ UNCHANGED <<now, image>>

\* A refusal rolls the transaction back.
Refuse(u) ==
    /\ stage[u] = "waiting"
    /\ Refusal # "none"
    /\ stage' = [stage EXCEPT ![u] = Refusal]
    /\ UNCHANGED <<now, lease, image>>

\* The object is stored and the row inserted.
Store(u, size) ==
    /\ stage[u] = "reserved"
    /\ image' = [image EXCEPT ![u] = [status |-> "orphaned", at |-> now,
                                      size |-> size]]
    /\ stage' = [stage EXCEPT ![u] = "stored"]
    /\ UNCHANGED <<now, lease>>

\* releaseUpload, after the row or after an error.
Release(u) ==
    /\ stage[u] \in {"reserved", "stored"}
    /\ lease' = [lease EXCEPT ![u].status = "RELEASED"]
    /\ stage' = [stage EXCEPT ![u] = "done"]
    /\ UNCHANGED <<now, image>>

\* The process dies, or the release itself fails: its error is ignored.
Die(u) ==
    /\ stage[u] \in {"reserved", "stored"}
    /\ stage' = [stage EXCEPT ![u] = "done"]
    /\ UNCHANGED <<now, lease, image>>

\* A submission uses the image.
Link(u) ==
    /\ image[u].status = "orphaned"
    /\ image' = [image EXCEPT ![u].status = "linked"]
    /\ UNCHANGED <<now, lease, stage>>

\* The daily job removes an image that stayed orphaned for a day.
CleanUp(u) ==
    /\ image[u].status = "orphaned"
    /\ image[u].at + DayTicks < now
    /\ image' = [image EXCEPT ![u] = NoImage]
    /\ UNCHANGED <<now, lease, stage>>

InProgress == {u \in Uploads : stage[u] \in {"reserved", "stored"}}

Tick ==
    /\ now < MaxTime
    /\ TimelyUploads =>
           \A u \in InProgress : lease[u].at + LeaseTicks > now + 1
    /\ now' = now + 1
    /\ UNCHANGED <<lease, image, stage>>

Init ==
    /\ now = 0
    /\ lease = [u \in Uploads |-> [status |-> "none", at |-> 0]]
    /\ image = [u \in Uploads |-> NoImage]
    /\ stage = [u \in Uploads |-> "waiting"]

Next ==
    \/ Tick
    \/ \E u \in Uploads :
          \/ Reserve(u) \/ Refuse(u) \/ Release(u) \/ Die(u)
          \/ \E size \in Sizes : Store(u, size)
          \/ Link(u) \/ CleanUp(u)

Spec == Init /\ [][Next]_vars

-----------------------------------------------------------------------------
(* Properties.                                                             *)

\* However uploads overlap, fail and die, no more than Concurrent of them are
\* in progress at once: an upload without a lease is over.
ConcurrencyHolds == Cardinality(InProgress) <= Concurrent

\* The images the member holds, and those still being stored at their
\* largest, fit in TotalBytes: the leases stand in for the images that a
\* reservation cannot see yet.
HeldBytesHold ==
    Bytes(Held)
      + MaxBytes * Cardinality({u \in InProgress : stage[u] = "reserved"})
      <= TotalBytes

\* No day sees more images than DailyCount, including those whose lease is
\* from the day before.
DailyCountHolds == Cardinality(ImagesSince(Today)) <= DailyCount

\* The limits that the leases stand in for, together.
LimitsHold == ConcurrencyHolds /\ HeldBytesHold /\ DailyCountHolds
=============================================================================

--------------------------- MODULE UploadQuotaProofs ---------------------------
(***************************************************************************)
(* Proofs that the upload quotas hold, for any number of uploads.          *)
(*                                                                         *)
(* The checks are made when an upload reserves its lease, and the images   *)
(* come later.  What makes them sufficient is that the lease of an upload  *)
(* in progress has not expired, so that every reservation counts it.  The  *)
(* limit of a day needs more: uploads that were reserved the day before    *)
(* are not among the leases of the day, but there are no more of them than *)
(* uploads at once.                                                        *)
(***************************************************************************)
EXTENDS UploadQuota, FiniteSetTheorems, TLAPS

-----------------------------------------------------------------------------
(* The invariant.                                                          *)

\* An upload that waits has left no trace, one that is reserved has no image
\* yet, and no image is without a lease.
UploadsFit ==
    \A u \in Uploads :
        /\ lease[u].at <= now /\ image[u].at <= now
        /\ stage[u] = "waiting" =>
               lease[u].status = "none" /\ image[u].status = "none"
        /\ stage[u] = "reserved" => image[u].status = "none"
        /\ stage[u] = "reserved" \/ image[u].status # "none" =>
               lease[u].status # "none"

\* The lease of an upload in progress has not expired.
LeasesLast == \A u \in InProgress : Holds(u)

Reserved == {u \in Uploads : stage[u] = "reserved"}

\* The uploads of the day that were reserved the day before.
Carried ==
    {u \in Uploads : /\ lease[u].at < Today
                     /\ u \in Reserved \/ u \in ImagesSince(Today)}

CarriedAreFew == Cardinality(Carried) <= Concurrent

\* Every upload that is reserved may still become an image of the day.
DayHasRoom ==
    Cardinality(ImagesSince(Today)) + Cardinality(Reserved) <= DailyCount

\* Without TimelyUploads, only the first two parts hold.
IInv ==
    /\ TypeOK /\ UploadsFit
    /\ TimelyUploads =>
           LeasesLast /\ ConcurrencyHolds /\ HeldBytesHold /\ CarriedAreFew
    /\ TimelyUploads /\ 2 * Concurrent <= DailyCount + 1 => DayHasRoom
-----------------------------------------------------------------------------
(* Counting.                                                               *)

LEMMA Limits ==
    /\ Concurrent \in Nat \ {0} /\ DailyCount \in Nat \ {0}
    /\ TotalBytes \in Nat /\ MaxBytes \in Nat \ {0} /\ DayTicks \in Nat \ {0}
    /\ LeaseTicks \in Nat \ {0} /\ MaxTime \in Nat
    /\ IsFiniteSet(Uploads) /\ Sizes \subseteq 1 .. MaxBytes
BY ConstantsAssumption

LEMMA CountsOfUploads ==
    ASSUME NEW S, S \subseteq Uploads
    PROVE  IsFiniteSet(S) /\ Cardinality(S) \in Nat
BY Limits, FS_Subset, FS_CardinalityType

LEMMA FewerUploads ==
    ASSUME NEW T, T \subseteq Uploads, NEW S, S \subseteq T
    PROVE  Cardinality(S) <= Cardinality(T)
BY CountsOfUploads, FS_Subset

LEMMA OneMore ==
    ASSUME NEW S, S \subseteq Uploads, NEW u \in Uploads, u \notin S
    PROVE  Cardinality(S \cup {u}) = Cardinality(S) + 1
BY CountsOfUploads, FS_AddElement

LEMMA OneLess ==
    ASSUME NEW S, S \subseteq Uploads, NEW u \in S
    PROVE  Cardinality(S) = Cardinality(S \ {u}) + 1
<1>1. Cardinality(S \ {u}) = Cardinality(S) - 1
  BY CountsOfUploads, FS_RemoveElement
<1> QED BY <1>1, CountsOfUploads

\* Sets that do not overlap.
LEMMA TwoParts ==
    ASSUME NEW S, S \subseteq Uploads, NEW T, T \subseteq Uploads,
           S \cap T = {}
    PROVE  Cardinality(S \cup T) = Cardinality(S) + Cardinality(T)
<1>1. Cardinality(S \cup T) =
          Cardinality(S) + Cardinality(T) - Cardinality(S \cap T)
  BY CountsOfUploads, FS_Union
<1>2. Cardinality(S \cap T) = 0
  BY FS_EmptySet
<1> QED BY <1>1, <1>2, CountsOfUploads

\* Sets that may overlap.
LEMMA AtMostBoth ==
    ASSUME NEW S, S \subseteq Uploads, NEW T, T \subseteq Uploads
    PROVE  Cardinality(S \cup T) <= Cardinality(S) + Cardinality(T)
<1>1. Cardinality(S \cup T) =
          Cardinality(S) + Cardinality(T) - Cardinality(S \cap T)
  BY CountsOfUploads, FS_Union
<1>2. Cardinality(S \cap T) \in Nat
  BY CountsOfUploads
<1> QED BY <1>1, <1>2, CountsOfUploads

\* The bytes of the images, one by one.
Units == {x \in Held \X (1 .. MaxBytes) : x[2] <= image[x[1]].size}

BytesOf(u) == {u} \X (1 .. MaxBytes)

LEMMA CountsOfBytes ==
    ASSUME NEW S, S \subseteq Uploads \X (1 .. MaxBytes)
    PROVE  IsFiniteSet(S) /\ Cardinality(S) \in Nat
<1>1. IsFiniteSet(1 .. MaxBytes)
  BY Limits, FS_Interval
<1>2. IsFiniteSet(Uploads \X (1 .. MaxBytes))
  BY <1>1, Limits, FS_Product
<1> QED BY <1>2, FS_Subset, FS_CardinalityType

LEMMA UnitsCount ==
    /\ Units \subseteq Uploads \X (1 .. MaxBytes)
    /\ Bytes(Held) = Cardinality(Units)
BY DEF Units, Held, Bytes

\* One upload adds no more than its largest image.
LEMMA BytesAdded ==
    ASSUME NEW S, S \subseteq Uploads \X (1 .. MaxBytes), NEW u \in Uploads,
           NEW T, T \subseteq S \cup BytesOf(u)
    PROVE  Cardinality(T) <= Cardinality(S) + MaxBytes
<1> DEFINE B == BytesOf(u)
<1>1. B \subseteq Uploads \X (1 .. MaxBytes)
  BY DEF BytesOf
<1>2. Cardinality(B) = MaxBytes
  <2>1. IsFiniteSet(1 .. MaxBytes) /\ Cardinality(1 .. MaxBytes) = MaxBytes
    BY Limits, FS_Interval
  <2>2. IsFiniteSet({u}) /\ Cardinality({u}) = 1
    BY FS_Singleton
  <2>3. Cardinality({u} \X (1 .. MaxBytes)) =
            Cardinality({u}) * Cardinality(1 .. MaxBytes)
    BY <2>1, <2>2, FS_Product
  <2>4. 1 * MaxBytes = MaxBytes
    BY Limits
  <2> QED BY <2>1, <2>2, <2>3, <2>4 DEF BytesOf
<1> HIDE DEF B
<1>3. Cardinality(S \cup B) = Cardinality(S) + MaxBytes - Cardinality(S \cap B)
  BY <1>1, <1>2, CountsOfBytes, FS_Union
<1>4. Cardinality(S \cap B) \in Nat /\ Cardinality(S) \in Nat
  BY <1>1, CountsOfBytes
<1>5. /\ IsFiniteSet(S \cup B)
      /\ Cardinality(T) <= Cardinality(S \cup B)
      /\ Cardinality(T) \in Nat /\ Cardinality(S \cup B) \in Nat
  <2>1. S \cup B \subseteq Uploads \X (1 .. MaxBytes) /\ T \subseteq S \cup B
    BY <1>1 DEF B
  <2> QED BY <2>1, CountsOfBytes, FS_Subset
<1> QED BY <1>3, <1>4, <1>5, Limits

LEMMA TimesMonotone ==
    ASSUME NEW a \in Nat, NEW b \in Nat, NEW c \in Nat, a <= b
    PROVE  c * a <= c * b /\ c * a \in Nat /\ c * b \in Nat
           /\ c * (a + 1) = c * a + c
<1>1. PICK d \in Nat : b = a + d
  <2>1. b - a \in Nat /\ b = a + (b - a)
    OBVIOUS
  <2> QED BY <2>1
<1>2. c * b = c * a + c * d
  BY <1>1
<1>3. c * a \in Nat /\ c * b \in Nat /\ c * d \in Nat
  OBVIOUS
<1>4. c * (a + 1) = c * a + c
  OBVIOUS
<1> QED BY <1>2, <1>3, <1>4

-----------------------------------------------------------------------------
(* Days.                                                                   *)

\* The beginning of the day of a time.
DayOf(t) == (t \div DayTicks) * DayTicks

LEMMA DayBegins ==
    ASSUME NEW t \in Nat
    PROVE  DayOf(t) \in Nat /\ DayOf(t) <= t /\ t < DayOf(t) + DayTicks
<1> DEFINE q == t \div DayTicks
<1>1. q \in Nat /\ DayTicks * q <= t /\ t < DayTicks * q + DayTicks
  BY Limits
<1> HIDE DEF q
<1>2. q * DayTicks = DayTicks * q /\ DayTicks * q \in Nat
  BY <1>1, Limits
<1> QED BY <1>1, <1>2 DEF DayOf, q

\* A tick stays in the day or begins a new one.
LEMMA NextDay ==
    ASSUME NEW t \in Nat
    PROVE  DayOf(t + 1) = DayOf(t) \/ DayOf(t + 1) = t + 1
<1> DEFINE q == t \div DayTicks
           p == (t + 1) \div DayTicks
           D == DayTicks
<1>1. /\ q \in Nat /\ D * q <= t /\ t < D * q + D
      /\ p \in Nat /\ D * p <= t + 1 /\ t + 1 < D * p + D
  BY Limits
<1>2. /\ D \in Nat \ {0} /\ D * q \in Nat /\ D * p \in Nat
      /\ D * (q + 1) = D * q + D /\ D * (p + 1) = D * p + D
  BY <1>1, Limits
<1>3. DayOf(t) = D * q /\ DayOf(t + 1) = D * p
  BY <1>1, Limits DEF DayOf
<1> HIDE DEF q, p, D
<1>4. CASE p = q
  BY <1>3, <1>4
<1>5. CASE p < q
  <2>1. p + 1 <= q /\ p + 1 \in Nat
    BY <1>1, <1>5
  <2>2. D * (p + 1) <= D * q
    BY <1>1, <1>2, <2>1, TimesMonotone
  <2> QED BY <1>1, <1>2, <2>2
<1>6. CASE q < p
  <2>1. q + 1 <= p /\ q + 1 \in Nat
    BY <1>1, <1>6
  <2>2. D * (q + 1) <= D * p
    BY <1>1, <1>2, <2>1, TimesMonotone
  <2> QED BY <1>1, <1>2, <1>3, <2>2
<1> QED BY <1>1, <1>4, <1>5, <1>6
-----------------------------------------------------------------------------
(* What the actions do.                                                    *)

Lease == [status: {"none", "ACTIVE", "RELEASED"}, at: 0 .. MaxTime]

Image == [status: {"none", "orphaned", "linked"}, at: 0 .. MaxTime,
          size: 0 .. MaxBytes]

LEMMA Typed ==
    ASSUME TypeOK
    PROVE  /\ now \in Nat /\ now \in 0 .. MaxTime
           /\ lease \in [Uploads -> Lease] /\ image \in [Uploads -> Image]
           /\ stage \in [Uploads -> Stages]
           /\ \A u \in Uploads :
                  /\ lease[u] \in Lease /\ lease[u].at \in Nat
                  /\ lease[u].status \in {"none", "ACTIVE", "RELEASED"}
                  /\ image[u] \in Image /\ image[u].at \in Nat
                  /\ image[u].size \in Nat
                  /\ image[u].status \in {"none", "orphaned", "linked"}
BY Limits DEF TypeOK, Lease, Image

LEMMA RefusalIsOne ==
    ASSUME Refusal # "none"
    PROVE  Refusal \in Refusals
BY DEF Refusal, Refusals

\* The leases that the transaction of a reservation releases have expired.
LEMMA ReserveParts ==
    ASSUME TypeOK, NEW u \in Uploads, Reserve(u)
    PROVE  /\ lease' \in [Uploads -> Lease]
           /\ lease'[u].status = "ACTIVE" /\ lease'[u].at = now
           /\ \A v \in Uploads : v # u =>
                  /\ lease'[v].at = lease[v].at
                  /\ \/ lease'[v].status = lease[v].status
                     \/ /\ lease[v].status = "ACTIVE" /\ ~ Holds(v)
                        /\ lease'[v].status = "RELEASED"
<1> DEFINE Released(l) == [l EXCEPT !.status = "RELEASED"]
           new == [status |-> "ACTIVE", at |-> now]
<1>1. \A l \in Lease : /\ Released(l) \in Lease /\ Released(l).at = l.at
                       /\ Released(l).status = "RELEASED"
  BY DEF Lease
<1>2. new \in Lease /\ new.status = "ACTIVE" /\ new.at = now
  BY Typed DEF Lease
<1>3. lease' = [v \in Uploads |->
                  IF v = u THEN new
                  ELSE IF lease[v].status = "ACTIVE" /\ ~Holds(v)
                       THEN Released(lease[v])
                       ELSE lease[v]]
  BY DEF Reserve
<1> HIDE DEF Released, new
<1>4. \A v \in Uploads : lease'[v] \in Lease
  BY <1>1, <1>2, <1>3, Typed
<1>5. lease'[u] = new
  BY <1>3
<1>6. \A v \in Uploads : v # u =>
          lease'[v] = IF lease[v].status = "ACTIVE" /\ ~Holds(v)
                      THEN Released(lease[v]) ELSE lease[v]
  BY <1>3
<1> QED BY <1>1, <1>2, <1>3, <1>4, <1>5, <1>6, Typed

LEMMA ReleaseParts ==
    ASSUME TypeOK, NEW u \in Uploads, Release(u)
    PROVE  /\ lease' \in [Uploads -> Lease]
           /\ lease'[u].status = "RELEASED" /\ lease'[u].at = lease[u].at
           /\ \A v \in Uploads : v # u => lease'[v] = lease[v]
<1> DEFINE Released(l) == [l EXCEPT !.status = "RELEASED"]
<1>1. \A l \in Lease : /\ Released(l) \in Lease /\ Released(l).at = l.at
                       /\ Released(l).status = "RELEASED"
  BY DEF Lease
<1>2. lease' = [lease EXCEPT ![u] = Released(lease[u])]
  BY DEF Release
<1> HIDE DEF Released
<1> QED BY <1>1, <1>2, Typed

LEMMA StoreParts ==
    ASSUME TypeOK, NEW u \in Uploads, NEW size \in Sizes, Store(u, size)
    PROVE  /\ image' \in [Uploads -> Image]
           /\ image'[u].status = "orphaned" /\ image'[u].at = now
           /\ \A v \in Uploads : v # u => image'[v] = image[v]
<1> DEFINE new == [status |-> "orphaned", at |-> now, size |-> size]
<1>1. new \in Image /\ new.status = "orphaned" /\ new.at = now
  BY Typed, Limits DEF Image
<1>2. image' = [image EXCEPT ![u] = new]
  BY DEF Store
<1> HIDE DEF new
<1> QED BY <1>1, <1>2, Typed

\* A link, or a clean-up.
LEMMA ImageParts ==
    ASSUME TypeOK, NEW u \in Uploads, Link(u) \/ CleanUp(u)
    PROVE  /\ image' \in [Uploads -> Image] /\ image[u].status # "none"
           /\ \/ image'[u].status = "none" /\ image'[u].at = 0
              \/ /\ image'[u].status # "none" /\ image'[u].at = image[u].at
                 /\ image'[u].size = image[u].size
           /\ \A v \in Uploads : v # u => image'[v] = image[v]
<1> DEFINE Linked(i) == [i EXCEPT !.status = "linked"]
<1>1. \A i \in Image : /\ Linked(i) \in Image /\ Linked(i).at = i.at
                       /\ Linked(i).size = i.size
                       /\ Linked(i).status = "linked"
  BY DEF Image
<1>2. NoImage \in Image /\ NoImage.status = "none" /\ NoImage.at = 0
  BY Limits DEF Image, NoImage
<1>3. CASE Link(u)
  <2>1. image' = [image EXCEPT ![u] = Linked(image[u])]
    BY <1>3 DEF Link
  <2> HIDE DEF Linked
  <2>2. image[u].status = "orphaned"
    BY <1>3 DEF Link
  <2> QED BY <1>1, <2>1, <2>2, Typed
<1>4. CASE CleanUp(u)
  <2>1. image' = [image EXCEPT ![u] = NoImage]
    BY <1>4 DEF CleanUp
  <2>2. image[u].status = "orphaned"
    BY <1>4 DEF CleanUp
  <2> QED BY <1>2, <2>1, <2>2, Typed
<1> QED BY <1>3, <1>4

\* What becomes of an upload's stage.
LEMMA StageParts ==
    ASSUME TypeOK, NEW u \in Uploads, NEW x \in Stages,
           stage' = [stage EXCEPT ![u] = x]
    PROVE  /\ stage' \in [Uploads -> Stages] /\ stage'[u] = x
           /\ \A v \in Uploads : v # u => stage'[v] = stage[v]
BY Typed

\* A refusal, a release and a death end the upload.
Ends(u) ==
    /\ stage' = [stage EXCEPT ![u] = stage'[u]]
    /\ stage'[u] \in Refusals \cup {"done"}
    /\ UNCHANGED <<now, image>>
    /\ \/ Refuse(u) /\ UNCHANGED lease
       \/ Release(u)
       \/ Die(u) /\ UNCHANGED lease

LEMMA EndParts ==
    ASSUME TypeOK, NEW u \in Uploads, Refuse(u) \/ Release(u) \/ Die(u)
    PROVE  /\ Ends(u) /\ stage' \in [Uploads -> Stages]
           /\ stage'[u] \notin {"waiting", "reserved", "stored"}
           /\ \A v \in Uploads : v # u => stage'[v] = stage[v]
           /\ lease' \in [Uploads -> Lease]
           /\ lease'[u].at = lease[u].at
           /\ lease[u].status # "none" => lease'[u].status # "none"
           /\ \A v \in Uploads : v # u => lease'[v] = lease[v]
<1>1. PICK x \in Refusals \cup {"done"} : stage' = [stage EXCEPT ![u] = x]
  BY RefusalIsOne DEF Refuse, Release, Die
<1>2. x \in Stages /\ x \notin {"waiting", "reserved", "stored"}
  BY DEF Stages, Refusals
<1>3. /\ stage' \in [Uploads -> Stages] /\ stage'[u] = x
      /\ \A v \in Uploads : v # u => stage'[v] = stage[v]
  BY <1>1, <1>2, StageParts
<1>4. Ends(u)
  BY <1>1, <1>3 DEF Ends, Refuse, Release, Die
<1>5. /\ lease' \in [Uploads -> Lease] /\ lease'[u].at = lease[u].at
      /\ lease[u].status # "none" => lease'[u].status # "none"
      /\ \A v \in Uploads : v # u => lease'[v] = lease[v]
  BY ReleaseParts, Typed DEF Refuse, Die
<1> QED BY <1>2, <1>3, <1>4, <1>5

LEMMA Steps ==
    ASSUME TypeOK, Next
    PROVE  \/ Tick
           \/ \E u \in Uploads :
                 \/ Reserve(u)
                 \/ \E size \in Sizes : Store(u, size)
                 \/ Refuse(u) \/ Release(u) \/ Die(u)
                 \/ Link(u) \/ CleanUp(u)
BY DEF Next

LEMMA TypesKept ==
    ASSUME TypeOK, Next
    PROVE  TypeOK'
<1>1. now' \in 0 .. MaxTime
  BY Typed, Limits, Steps
  DEF Tick, Reserve, Store, Refuse, Release, Die, Link, CleanUp
<1>2. lease' \in [Uploads -> Lease]
  BY Typed, ReserveParts, ReleaseParts, Steps
  DEF Tick, Store, Refuse, Die, Link, CleanUp
<1>3. image' \in [Uploads -> Image]
  BY Typed, StoreParts, ImageParts, Steps
  DEF Tick, Reserve, Refuse, Release, Die
<1>4. stage' \in [Uploads -> Stages]
  <2>1. ASSUME NEW u \in Uploads, Reserve(u) PROVE stage' \in [Uploads -> Stages]
    BY <2>1, StageParts DEF Reserve, Stages
  <2>2. ASSUME NEW u \in Uploads, NEW size \in Sizes, Store(u, size)
        PROVE  stage' \in [Uploads -> Stages]
    BY <2>2, StageParts DEF Store, Stages
  <2> QED BY <2>1, <2>2, Typed, EndParts, Steps DEF Tick, Link, CleanUp
<1> QED BY <1>1, <1>2, <1>3, <1>4 DEF TypeOK, Lease, Image
-----------------------------------------------------------------------------
(* The leases stand in for the uploads in progress.                        *)

LEMMA UploadsKept ==
    ASSUME TypeOK, UploadsFit, Next
    PROVE  UploadsFit'
<1>1. \A u \in Uploads :
          /\ lease[u].at \in Nat /\ lease[u].at <= now
          /\ image[u].at \in Nat /\ image[u].at <= now
          /\ now \in Nat
  BY Typed DEF UploadsFit
<1>2. CASE Tick
  BY <1>1, <1>2, Limits DEF Tick, UploadsFit
<1>3. ASSUME NEW u \in Uploads, Reserve(u) PROVE UploadsFit'
  <2>1. /\ now' = now /\ image' = image
        /\ stage[u] = "waiting" /\ stage'[u] = "reserved"
        /\ \A v \in Uploads : v # u => stage'[v] = stage[v]
    BY <1>3, StageParts DEF Reserve, Stages
  <2>2. \A v \in Uploads : v # u =>
            /\ lease'[v].at = lease[v].at
            /\ lease'[v].status = "none" <=> lease[v].status = "none"
    BY <1>3, ReserveParts
  <2>3. lease'[u].status = "ACTIVE" /\ lease'[u].at = now
    BY <1>3, ReserveParts
  <2> QED BY <1>1, <2>1, <2>2, <2>3 DEF UploadsFit
<1>4. ASSUME NEW u \in Uploads, NEW size \in Sizes, Store(u, size)
      PROVE  UploadsFit'
  <2>1. /\ now' = now /\ lease' = lease
        /\ stage[u] = "reserved" /\ stage'[u] = "stored"
        /\ \A v \in Uploads : v # u => stage'[v] = stage[v]
    BY <1>4, StageParts DEF Store, Stages
  <2>2. lease[u].status # "none"
    BY <2>1 DEF UploadsFit
  <2> QED BY <1>1, <1>4, <2>1, <2>2, StoreParts DEF UploadsFit
<1>5. ASSUME NEW u \in Uploads, Refuse(u) \/ Release(u) \/ Die(u)
      PROVE  UploadsFit'
  <2>1. now' = now /\ image' = image
    BY <1>5, EndParts DEF Ends
  <2> QED BY <1>1, <1>5, <2>1, EndParts DEF UploadsFit
<1>6. ASSUME NEW u \in Uploads, Link(u) \/ CleanUp(u) PROVE UploadsFit'
  <2>1. UNCHANGED <<now, lease, stage>>
    BY <1>6 DEF Link, CleanUp
  <2> QED BY <1>1, <1>6, <2>1, ImageParts DEF UploadsFit
<1> QED BY <1>2, <1>3, <1>4, <1>5, <1>6, Steps
LEMMA LeasesKept ==
    ASSUME TypeOK, UploadsFit, TimelyUploads, LeasesLast, Next
    PROVE  LeasesLast'
<1>1. \A u \in Uploads : stage[u] \in {"reserved", "stored"} =>
          /\ lease[u].status = "ACTIVE" /\ lease[u].at + LeaseTicks > now
          /\ Holds(u)
  BY DEF LeasesLast, InProgress, Holds
<1> SUFFICES ASSUME NEW v \in Uploads, stage'[v] \in {"reserved", "stored"}
             PROVE  /\ lease'[v].status = "ACTIVE"
                    /\ lease'[v].at + LeaseTicks > now'
  BY DEF LeasesLast, InProgress, Holds
<1>2. CASE Tick
  BY <1>1, <1>2 DEF Tick, InProgress
<1>3. ASSUME NEW u \in Uploads, Reserve(u)
      PROVE  /\ lease'[v].status = "ACTIVE"
             /\ lease'[v].at + LeaseTicks > now'
  <2>1. CASE v = u
    BY <1>3, <2>1, ReserveParts, Typed, Limits DEF Reserve
  <2>2. CASE v # u
    <3>1. stage'[v] = stage[v] /\ now' = now
      BY <1>3, <2>2, StageParts DEF Reserve, Stages
    <3> QED BY <1>1, <1>3, <2>2, <3>1, ReserveParts
  <2> QED BY <2>1, <2>2
<1>4. ASSUME NEW u \in Uploads, NEW size \in Sizes, Store(u, size)
      PROVE  /\ lease'[v].status = "ACTIVE"
             /\ lease'[v].at + LeaseTicks > now'
  <2>1. /\ lease' = lease /\ now' = now /\ stage[u] = "reserved"
        /\ \A w \in Uploads : w # u => stage'[w] = stage[w]
    BY <1>4, StageParts DEF Store, Stages
  <2> QED BY <1>1, <2>1
<1>5. ASSUME NEW u \in Uploads, Refuse(u) \/ Release(u) \/ Die(u)
      PROVE  /\ lease'[v].status = "ACTIVE"
             /\ lease'[v].at + LeaseTicks > now'
  <2>1. v # u /\ now' = now /\ stage'[v] = stage[v] /\ lease'[v] = lease[v]
    BY <1>5, EndParts DEF Ends
  <2> QED BY <1>1, <2>1
<1>6. ASSUME NEW u \in Uploads, Link(u) \/ CleanUp(u)
      PROVE  /\ lease'[v].status = "ACTIVE"
             /\ lease'[v].at + LeaseTicks > now'
  BY <1>1, <1>6 DEF Link, CleanUp
<1> QED BY <1>2, <1>3, <1>4, <1>5, <1>6, Steps

\* What a reservation counts is no less than what is in progress.
LEMMA HoldsCount ==
    ASSUME LeasesLast
    PROVE  LET held == Cardinality({u \in Uploads : Holds(u)})
           IN  /\ held \in Nat
               /\ Cardinality(InProgress) <= held
               /\ Cardinality(Reserved) <= Cardinality(InProgress)
               /\ Cardinality(Reserved) \in Nat
               /\ Cardinality(InProgress) \in Nat
<1> DEFINE Holding == {u \in Uploads : Holds(u)}
<1>1. /\ Holding \subseteq Uploads /\ InProgress \subseteq Holding
      /\ Reserved \subseteq InProgress /\ InProgress \subseteq Uploads
      /\ Reserved \subseteq Uploads
  BY DEF LeasesLast, InProgress, Reserved
<1> HIDE DEF Holding
<1>2. /\ Cardinality(Holding) \in Nat
      /\ Cardinality(InProgress) <= Cardinality(Holding)
      /\ Cardinality(Reserved) <= Cardinality(InProgress)
      /\ Cardinality(Reserved) \in Nat /\ Cardinality(InProgress) \in Nat
  BY <1>1, CountsOfUploads, FewerUploads
<1> QED BY <1>2 DEF Holding

LEMMA RefusedOrNot ==
    ASSUME NEW u \in Uploads, Reserve(u)
    PROVE  ~ TooManyActive /\ ~ OverRate /\ ~ OverDay /\ ~ OverTotal
           /\ ~ OverOrphans
BY DEF Reserve, Refusal

LEMMA StoreReserved ==
    ASSUME TypeOK, NEW u \in Uploads, NEW size \in Sizes, Store(u, size)
    PROVE  /\ u \in Reserved
           /\ InProgress' = InProgress /\ Reserved' = Reserved \ {u}
<1>1. /\ stage[u] = "reserved" /\ stage'[u] = "stored"
      /\ \A v \in Uploads : v # u => stage'[v] = stage[v]
  BY StageParts DEF Store, Stages
<1> QED BY <1>1 DEF InProgress, Reserved

\* The stages after a step.
LEMMA ProgressMoves ==
    ASSUME TypeOK, UploadsFit, Next
    PROVE  \/ \E u \in Uploads :
                  /\ Reserve(u) /\ u \notin InProgress /\ u \notin Reserved
                  /\ InProgress' = InProgress \cup {u}
                  /\ Reserved' = Reserved \cup {u}
           \/ \E u \in Uploads, size \in Sizes :
                  /\ Store(u, size) /\ u \in Reserved
                  /\ InProgress' = InProgress /\ Reserved' = Reserved \ {u}
           \/ /\ \A u \in Uploads : ~ Reserve(u)
              /\ InProgress' \subseteq InProgress /\ Reserved' \subseteq Reserved
              /\ Tick \/ \E u \in Uploads :
                     Ends(u) \/ Link(u) \/ CleanUp(u)
<1>1. ASSUME NEW u \in Uploads, Reserve(u)
      PROVE  /\ u \notin InProgress /\ u \notin Reserved
             /\ InProgress' = InProgress \cup {u}
             /\ Reserved' = Reserved \cup {u}
  <2>1. /\ stage[u] = "waiting" /\ stage'[u] = "reserved"
        /\ \A v \in Uploads : v # u => stage'[v] = stage[v]
    BY <1>1, StageParts DEF Reserve, Stages
  <2> QED BY <2>1 DEF InProgress, Reserved
<1>2. ASSUME \A u \in Uploads : ~ Reserve(u),
             Tick \/ \E u \in Uploads :
                 Refuse(u) \/ Release(u) \/ Die(u) \/ Link(u) \/ CleanUp(u)
      PROVE  /\ InProgress' \subseteq InProgress /\ Reserved' \subseteq Reserved
             /\ Tick \/ \E u \in Uploads : Ends(u) \/ Link(u) \/ CleanUp(u)
  <2>1. CASE UNCHANGED stage
    BY <1>2, <2>1, EndParts DEF InProgress, Reserved
  <2>2. ASSUME NEW u \in Uploads, Refuse(u) \/ Release(u) \/ Die(u)
        PROVE  /\ InProgress' \subseteq InProgress
               /\ Reserved' \subseteq Reserved /\ Ends(u)
    BY <2>2, EndParts DEF InProgress, Reserved
  <2> QED BY <1>2, <2>1, <2>2 DEF Tick, Link, CleanUp
<1> QED BY <1>1, <1>2, StoreReserved, Steps

LEMMA ConcurrencyKept ==
    ASSUME TypeOK, UploadsFit, LeasesLast, ConcurrencyHolds, Next
    PROVE  ConcurrencyHolds'
<1>1. InProgress \subseteq Uploads /\ Cardinality(InProgress) <= Concurrent
  BY DEF InProgress, ConcurrencyHolds
<1>2. ASSUME NEW u \in Uploads, Reserve(u), u \notin InProgress,
             InProgress' = InProgress \cup {u}
      PROVE  Cardinality(InProgress') <= Concurrent
  <2>1. Cardinality(InProgress') = Cardinality(InProgress) + 1
    BY <1>1, <1>2, OneMore
  <2>2. Cardinality({v \in Uploads : Holds(v)}) < Concurrent
    BY <1>2, RefusedOrNot, HoldsCount, Limits DEF TooManyActive
  <2> QED BY <2>1, <2>2, HoldsCount, Limits
<1>3. ASSUME InProgress' \subseteq InProgress
      PROVE  Cardinality(InProgress') <= Concurrent
  <2>1. /\ Cardinality(InProgress') <= Cardinality(InProgress)
        /\ Cardinality(InProgress') \in Nat /\ Cardinality(InProgress) \in Nat
    BY <1>1, <1>3, FewerUploads, CountsOfUploads
  <2> QED BY <1>1, <2>1, Limits
<1> QED BY <1>2, <1>3, ProgressMoves DEF ConcurrencyHolds
-----------------------------------------------------------------------------
(* The bytes.                                                              *)

LEMMA UnitParts ==
    \A x \in Units' : /\ x[1] \in Uploads /\ x[2] \in 1 .. MaxBytes
                      /\ x = <<x[1], x[2]>>
                      /\ image'[x[1]].status # "none"
                      /\ x[2] <= image'[x[1]].size
                      /\ image'[x[1]] = image[x[1]] => x \in Units
BY DEF Units, Held

LEMMA UnitsStored ==
    ASSUME TypeOK, NEW u \in Uploads, NEW size \in Sizes, Store(u, size)
    PROVE  Units' \subseteq Units \cup BytesOf(u)
<1>1. ASSUME NEW x \in Units', x \notin Units PROVE x \in BytesOf(u)
  <2>1. x[1] = u
    BY <1>1, UnitParts, StoreParts
  <2> QED BY <2>1, UnitParts DEF BytesOf
<1> QED BY <1>1

LEMMA UnitsKept ==
    ASSUME TypeOK, Next, \A u \in Uploads, size \in Sizes : ~ Store(u, size)
    PROVE  Units' \subseteq Units
<1>1. ASSUME NEW u \in Uploads, Link(u) \/ CleanUp(u)
      PROVE  Units' \subseteq Units
  <2>1. ASSUME NEW x \in Units', x[1] = u PROVE x \in Units
    <3>1. image[u].status # "none" /\ image'[u].size = image[u].size
      BY <1>1, <2>1, UnitParts, ImageParts
    <3> QED BY <2>1, <3>1, UnitParts DEF Units, Held
  <2> QED BY <1>1, <2>1, UnitParts, ImageParts
<1>2. CASE UNCHANGED image
  BY <1>2, UnitParts
<1> QED BY <1>1, <1>2, Steps DEF Tick, Reserve, Refuse, Release, Die

\* Storing an image takes no more bytes than the lease stood for.
LEMMA BytesKept ==
    ASSUME TypeOK, UploadsFit, LeasesLast, HeldBytesHold, Next
    PROVE  HeldBytesHold'
<1> DEFINE Total(S, R) == Cardinality(S) + MaxBytes * Cardinality(R)
<1>1. Reserved = {u \in InProgress : stage[u] = "reserved"}
  BY DEF Reserved, InProgress
<1>2. Reserved' = {u \in InProgress' : stage'[u] = "reserved"}
  BY DEF Reserved, InProgress
<1>3. /\ Bytes(Held) = Cardinality(Units) /\ Bytes(Held)' = Cardinality(Units')
      /\ Units \subseteq Uploads \X (1 .. MaxBytes)
      /\ Units' \subseteq Uploads \X (1 .. MaxBytes)
      /\ Reserved \subseteq Uploads /\ Reserved' \subseteq Uploads
  BY UnitsCount DEF Units, Held, Bytes, Reserved
<1>4. /\ Cardinality(Units) \in Nat /\ Cardinality(Units') \in Nat
      /\ Cardinality(Reserved) \in Nat /\ Cardinality(Reserved') \in Nat
      /\ MaxBytes \in Nat /\ TotalBytes \in Nat
  BY <1>3, CountsOfBytes, CountsOfUploads, Limits
<1>5. Total(Units, Reserved) <= TotalBytes
  BY <1>1, <1>3 DEF HeldBytesHold
<1>6. SUFFICES Total(Units', Reserved') <= TotalBytes
  BY <1>2, <1>3 DEF HeldBytesHold
<1>7. ASSUME NEW u \in Uploads, Reserve(u), u \notin Reserved,
             Reserved' = Reserved \cup {u}
      PROVE  Total(Units', Reserved') <= TotalBytes
  <2> DEFINE held == Cardinality({v \in Uploads : Holds(v)})
             n == Cardinality(Reserved)
  <2>1. Units' = Units
    BY <1>7 DEF Reserve, Units, Held
  <2>2. Cardinality(Reserved') = n + 1
    BY <1>3, <1>7, OneMore
  <2>3. Cardinality(Units) + MaxBytes * held + MaxBytes <= TotalBytes
    <3>1. ~ OverTotal
      BY <1>7, RefusedOrNot
    <3>2. held \in Nat /\ MaxBytes * held \in Nat
      BY <1>4, HoldsCount
    <3> QED BY <1>3, <1>4, <3>1, <3>2 DEF OverTotal
  <2>4. n \in Nat /\ held \in Nat /\ n <= held
    BY HoldsCount
  <2> HIDE DEF held, n
  <2>5. /\ MaxBytes * n <= MaxBytes * held /\ MaxBytes * n \in Nat
        /\ MaxBytes * held \in Nat /\ MaxBytes * (n + 1) = MaxBytes * n + MaxBytes
    BY <1>4, <2>4, TimesMonotone
  <2> QED BY <1>4, <2>1, <2>2, <2>3, <2>5
<1>8. ASSUME NEW u \in Uploads, Units' \subseteq Units \cup BytesOf(u),
             u \in Reserved, Reserved' = Reserved \ {u}
      PROVE  Total(Units', Reserved') <= TotalBytes
  <2> DEFINE n == Cardinality(Reserved')
  <2>1. Cardinality(Reserved) = n + 1
    BY <1>3, <1>8, OneLess
  <2>2. Cardinality(Units') <= Cardinality(Units) + MaxBytes
    BY <1>3, <1>8, BytesAdded
  <2>3. MaxBytes * (n + 1) = MaxBytes * n + MaxBytes /\ MaxBytes * n \in Nat
    BY <1>4, TimesMonotone
  <2> QED BY <1>4, <1>5, <2>1, <2>2, <2>3
<1>9. ASSUME Units' \subseteq Units, Reserved' \subseteq Reserved
      PROVE  Total(Units', Reserved') <= TotalBytes
  <2>1. Cardinality(Units') <= Cardinality(Units)
    BY <1>3, <1>9, CountsOfBytes, FS_Subset
  <2>2. Cardinality(Reserved') <= Cardinality(Reserved)
    BY <1>3, <1>9, FewerUploads
  <2>3. /\ MaxBytes * Cardinality(Reserved') <= MaxBytes * Cardinality(Reserved)
        /\ MaxBytes * Cardinality(Reserved') \in Nat
        /\ MaxBytes * Cardinality(Reserved) \in Nat
    BY <1>4, <2>2, TimesMonotone
  <2> QED BY <1>4, <1>5, <2>1, <2>3
<1>10. ASSUME NEW u \in Uploads, NEW size \in Sizes, Store(u, size),
              u \in Reserved, Reserved' = Reserved \ {u}
       PROVE  Total(Units', Reserved') <= TotalBytes
  <2>1. Units' \subseteq Units \cup BytesOf(u)
    BY <1>10, UnitsStored
  <2> QED BY <1>8, <1>10, <2>1
<1>11. ASSUME \A u \in Uploads : ~ Reserve(u), Reserved' \subseteq Reserved,
              \A u \in Uploads, size \in Sizes : ~ Store(u, size)
       PROVE  Total(Units', Reserved') <= TotalBytes
  BY <1>9, <1>11, UnitsKept
<1> HIDE DEF Total
<1>12. \/ \E u \in Uploads :
              /\ Reserve(u) /\ u \notin Reserved
              /\ Reserved' = Reserved \cup {u}
       \/ \E u \in Uploads, size \in Sizes :
              /\ Store(u, size) /\ u \in Reserved
              /\ Reserved' = Reserved \ {u}
       \/ /\ \A u \in Uploads : ~ Reserve(u)
          /\ Reserved' \subseteq Reserved
  BY ProgressMoves
<1>13. ASSUME NEW u \in Uploads, NEW size \in Sizes, Store(u, size)
       PROVE  u \in Reserved /\ Reserved' = Reserved \ {u}
  BY <1>13, StoreReserved
<1> QED BY <1>7, <1>10, <1>11, <1>12, <1>13
-----------------------------------------------------------------------------
(* The days.                                                               *)

ImagesToday == ImagesSince(Today)

LEMMA DayParts ==
    ASSUME TypeOK
    PROVE  /\ Today \in Nat /\ Today <= now /\ Today = DayOf(now)
           /\ ImagesToday \subseteq Uploads /\ Reserved \subseteq Uploads
           /\ Carried \subseteq Uploads
           /\ LeasesSince(Today) \subseteq Uploads
BY Typed, DayBegins
DEF Today, DayOf, ImagesToday, ImagesSince, Held, Reserved, Carried,
    LeasesSince, Leased

\* A tick begins a day without images, or the day goes on.
LEMMA TickParts ==
    ASSUME TypeOK, UploadsFit, Tick
    PROVE  /\ Reserved' = Reserved
           /\ \/ /\ Today' = Today /\ ImagesToday' = ImagesToday
                 /\ Carried' = Carried
              \/ ImagesToday' = {} /\ Carried' \subseteq Reserved
<1>1. /\ now \in Nat /\ now' = now + 1 /\ lease' = lease /\ image' = image
      /\ stage' = stage
  BY Typed DEF Tick
<1>2. Reserved' = Reserved
  BY <1>1 DEF Reserved
<1>3. Today' = Today \/ Today' = now + 1
  <2>1. Today = DayOf(now) /\ Today' = DayOf(now + 1)
    BY <1>1 DEF Today, DayOf
  <2> QED BY <1>1, <2>1, NextDay
<1>4. CASE Today' = Today
  BY <1>1, <1>2, <1>4 DEF ImagesToday, ImagesSince, Held, Carried
<1>5. CASE Today' = now + 1
  <2>1. ImagesToday' = {}
    <3>1. \A u \in Uploads : ~ (image[u].at >= now + 1)
      BY <1>1, Typed DEF UploadsFit
    <3> QED BY <1>1, <1>5, <3>1 DEF ImagesToday, ImagesSince, Held
  <2>2. Carried' \subseteq Reserved
    BY <1>2, <2>1 DEF Carried, ImagesToday
  <2> QED BY <1>2, <2>1, <2>2
<1> QED BY <1>3, <1>4, <1>5

\* Within a day, no upload is carried over.
LEMMA CarriedShrinks ==
    ASSUME TypeOK, UploadsFit, Next, ~ Tick
    PROVE  Today' = Today /\ Carried' \subseteq Carried
<1>1. now' = now /\ Today' = Today
  BY Steps
  DEF Reserve, Store, Refuse, Release, Die, Link, CleanUp, Today
<1>2. Today \in Nat /\ Today <= now /\ now \in Nat
  BY DayParts, Typed
<1> SUFFICES ASSUME NEW v \in Uploads, lease'[v].at < Today,
                    \/ stage'[v] = "reserved"
                    \/ image'[v].status # "none" /\ image'[v].at >= Today
             PROVE  /\ lease[v].at < Today
                    /\ \/ stage[v] = "reserved"
                       \/ image[v].status # "none" /\ image[v].at >= Today
  BY <1>1 DEF Carried, Reserved, ImagesSince, Held
<1>3. ASSUME NEW u \in Uploads, Reserve(u)
      PROVE  /\ lease[v].at < Today
             /\ \/ stage[v] = "reserved"
                \/ image[v].status # "none" /\ image[v].at >= Today
  <2>1. v # u
    BY <1>2, <1>3, ReserveParts
  <2>2. /\ lease'[v].at = lease[v].at /\ stage'[v] = stage[v]
        /\ image' = image
    BY <1>3, <2>1, ReserveParts, StageParts DEF Reserve, Stages
  <2> QED BY <2>2
<1>4. ASSUME NEW u \in Uploads, NEW size \in Sizes, Store(u, size)
      PROVE  /\ lease[v].at < Today
             /\ \/ stage[v] = "reserved"
                \/ image[v].status # "none" /\ image[v].at >= Today
  <2>1. /\ lease' = lease /\ stage[u] = "reserved"
        /\ v # u => stage'[v] = stage[v] /\ image'[v] = image[v]
    BY <1>4, StoreParts, StageParts DEF Store, Stages
  <2> QED BY <2>1
<1>5. ASSUME NEW u \in Uploads, Refuse(u) \/ Release(u) \/ Die(u)
      PROVE  /\ lease[v].at < Today
             /\ \/ stage[v] = "reserved"
                \/ image[v].status # "none" /\ image[v].at >= Today
  <2>1. /\ image' = image /\ lease'[v].at = lease[v].at
        /\ stage'[v] = "reserved" => stage[v] = "reserved"
    BY <1>5, EndParts DEF Ends
  <2> QED BY <2>1
<1>6. ASSUME NEW u \in Uploads, Link(u) \/ CleanUp(u)
      PROVE  /\ lease[v].at < Today
             /\ \/ stage[v] = "reserved"
                \/ image[v].status # "none" /\ image[v].at >= Today
  <2>1. UNCHANGED <<lease, stage>>
    BY <1>6 DEF Link, CleanUp
  <2>2. image'[v].status # "none" => /\ image[v].status # "none"
                                     /\ image'[v].at = image[v].at
    BY <1>6, ImageParts
  <2> QED BY <2>1, <2>2
<1> QED BY <1>3, <1>4, <1>5, <1>6, Steps

\* The images of the day come from the reserved uploads.
LEMMA ImagesMove ==
    ASSUME TypeOK, UploadsFit, Next, ~ Tick
    PROVE  \A v \in ImagesToday' :
               \/ v \in ImagesToday
               \/ \E size \in Sizes : Store(v, size)
<1>1. Today' = Today
  BY CarriedShrinks
<1> SUFFICES ASSUME NEW v \in Uploads, image'[v].status # "none",
                    image'[v].at >= Today,
                    \A size \in Sizes : ~ Store(v, size)
             PROVE  image[v].status # "none" /\ image[v].at >= Today
  BY <1>1 DEF ImagesToday, ImagesSince, Held
<1>2. CASE image'[v] = image[v]
  BY <1>2
<1>3. ASSUME NEW u \in Uploads, NEW size \in Sizes, Store(u, size)
      PROVE  image'[v] = image[v]
  BY <1>3, StoreParts
<1>4. ASSUME NEW u \in Uploads, Link(u) \/ CleanUp(u)
      PROVE  image[v].status # "none" /\ image[v].at >= Today
  BY <1>4, ImageParts
<1> QED BY <1>2, <1>3, <1>4, Steps DEF Reserve, Refuse, Release, Die

LEMMA CarriedKept ==
    ASSUME TypeOK, UploadsFit, LeasesLast, ConcurrencyHolds, CarriedAreFew,
           Next
    PROVE  CarriedAreFew'
<1>1. ASSUME NEW S, S \subseteq Uploads, Cardinality(S) <= Concurrent,
             Carried' \subseteq S
      PROVE  Cardinality(Carried') <= Concurrent
  <2>1. /\ Cardinality(Carried') <= Cardinality(S)
        /\ Cardinality(S) \in Nat /\ Cardinality(Carried') \in Nat
    BY <1>1, FewerUploads, CountsOfUploads
  <2> QED BY <1>1, <2>1, Limits
<1>2. /\ Carried \subseteq Uploads /\ Reserved \subseteq Uploads
      /\ Cardinality(Carried) <= Concurrent
  BY DayParts DEF CarriedAreFew
<1>3. Cardinality(Reserved) <= Concurrent
  BY HoldsCount, Limits DEF ConcurrencyHolds
<1>4. Carried' \subseteq Carried \/ Carried' \subseteq Reserved
  BY TickParts, CarriedShrinks
<1> QED BY <1>1, <1>2, <1>3, <1>4 DEF CarriedAreFew

\* An upload of the day, reserved or stored, is among the leases of the day or
\* carried over.
LEMMA DaySplits ==
    ASSUME TypeOK, UploadsFit
    PROVE  Cardinality(ImagesToday) + Cardinality(Reserved)
               <= Cardinality(LeasesSince(Today)) + Cardinality(Carried)
<1>1. ImagesToday \cap Reserved = {}
  BY DEF ImagesToday, ImagesSince, Held, Reserved, UploadsFit
<1>2. Cardinality(ImagesToday \cup Reserved) =
          Cardinality(ImagesToday) + Cardinality(Reserved)
  BY <1>1, DayParts, TwoParts
<1>3. ImagesToday \cup Reserved \subseteq LeasesSince(Today) \cup Carried
  <2>1. ASSUME NEW u \in ImagesToday \cup Reserved
        PROVE  u \in LeasesSince(Today) \cup Carried
    <3>1. /\ u \in Uploads /\ lease[u].status # "none"
          /\ u \in ImagesSince(Today) \/ u \in Reserved
      BY DEF ImagesToday, ImagesSince, Held, Reserved, UploadsFit
    <3>2. lease[u].at \in Nat /\ Today \in Nat
      BY <3>1, Typed, DayParts
    <3> QED BY <3>1, <3>2 DEF LeasesSince, Leased, Carried
  <2> QED BY <2>1
<1>4. LeasesSince(Today) \cup Carried \subseteq Uploads
  BY DayParts
<1>5. /\ Cardinality(ImagesToday \cup Reserved)
             <= Cardinality(LeasesSince(Today) \cup Carried)
      /\ Cardinality(LeasesSince(Today) \cup Carried)
             <= Cardinality(LeasesSince(Today)) + Cardinality(Carried)
  BY <1>3, <1>4, DayParts, FewerUploads, AtMostBoth
<1>6. /\ Cardinality(ImagesToday) \in Nat /\ Cardinality(Reserved) \in Nat
      /\ Cardinality(LeasesSince(Today)) \in Nat
      /\ Cardinality(Carried) \in Nat
      /\ Cardinality(LeasesSince(Today) \cup Carried) \in Nat
  BY <1>4, DayParts, CountsOfUploads
<1> QED BY <1>2, <1>5, <1>6

\* A reservation counts the leases of the day and its images, but not what is
\* carried over; both that and what is reserved are few.
LEMMA DayKept ==
    ASSUME TypeOK, UploadsFit, LeasesLast, ConcurrencyHolds, CarriedAreFew,
           DayHasRoom, 2 * Concurrent <= DailyCount + 1, Next
    PROVE  DayHasRoom'
<1> DEFINE i == Cardinality(ImagesToday)
           r == Cardinality(Reserved)
<1>1. /\ i \in Nat /\ r \in Nat /\ i + r <= DailyCount /\ r <= Concurrent
      /\ ImagesToday \subseteq Uploads /\ Reserved \subseteq Uploads
      /\ Concurrent \in Nat \ {0} /\ DailyCount \in Nat
  BY DayParts, CountsOfUploads, HoldsCount, Limits
  DEF DayHasRoom, ImagesToday, ConcurrencyHolds
<1>2. SUFFICES Cardinality(ImagesToday') + Cardinality(Reserved') <= DailyCount
  BY DEF DayHasRoom, ImagesToday
<1>3. CASE Tick
  <2>1. CASE ImagesToday' = ImagesToday /\ Reserved' = Reserved
    BY <1>1, <2>1
  <2>2. CASE ImagesToday' = {} /\ Reserved' = Reserved
    <3>1. Cardinality(ImagesToday') = 0
      BY <2>2, FS_EmptySet
    <3> QED BY <1>1, <2>2, <3>1
  <2> QED BY <1>3, <2>1, <2>2, TickParts
<1>4. ASSUME NEW u \in Uploads, Reserve(u), u \notin Reserved, ~ Tick,
             Reserved' = Reserved \cup {u}
      PROVE  Cardinality(ImagesToday') + Cardinality(Reserved') <= DailyCount
  <2> DEFINE l == Cardinality(LeasesSince(Today))
             c == Cardinality(Carried)
  <2>1. ImagesToday' = ImagesToday
    BY <1>4, CarriedShrinks DEF Reserve, ImagesToday, ImagesSince, Held
  <2>2. Cardinality(Reserved') = r + 1
    BY <1>1, <1>4, OneMore
  <2>3. l \in Nat /\ c \in Nat /\ c <= Concurrent /\ i + r <= l + c
    BY DayParts, CountsOfUploads, DaySplits DEF CarriedAreFew
  <2>4. l + i < DailyCount
    BY <1>1, <1>4, <2>3, RefusedOrNot DEF OverDay, ImagesToday
  <2>5. r < Concurrent
    BY <1>1, <1>4, RefusedOrNot, HoldsCount DEF TooManyActive
  <2> HIDE DEF l, c, i, r
  <2>6. i + r + 1 <= DailyCount
    BY <1>1, <2>3, <2>4, <2>5
  <2> QED BY <1>1, <2>1, <2>2, <2>6 DEF i, r
<1>5. ASSUME NEW u \in Uploads, NEW size \in Sizes, Store(u, size), ~ Tick
      PROVE  Cardinality(ImagesToday') + Cardinality(Reserved') <= DailyCount
  <2>1. u \in Reserved /\ Reserved' = Reserved \ {u}
    BY <1>5, StoreReserved
  <2>2. r = Cardinality(Reserved') + 1 /\ Cardinality(Reserved') \in Nat
    BY <1>1, <2>1, OneLess, CountsOfUploads
  <2>3. ImagesToday' \subseteq ImagesToday \cup {u}
    <3>1. ASSUME NEW v \in Uploads, v # u, NEW s \in Sizes PROVE ~ Store(v, s)
      <4>1. stage'[v] = stage[v]
        BY <1>5, <3>1, StageParts DEF Store, Stages
      <4>2. Store(v, s) => stage[v] = "reserved" /\ stage'[v] = "stored"
        BY StageParts DEF Store, Stages
      <4> QED BY <4>1, <4>2
    <3>2. ImagesToday' \subseteq Uploads
      BY DEF ImagesToday, ImagesSince, Held
    <3> QED BY <1>5, <3>1, <3>2, ImagesMove
  <2>4. Cardinality(ImagesToday') <= i + 1
    <3>1. Cardinality(ImagesToday \cup {u}) \in {i, i + 1}
      BY <1>1, CountsOfUploads, FS_AddElement
    <3>2. ImagesToday \cup {u} \subseteq Uploads
      BY <1>1
    <3>3. /\ Cardinality(ImagesToday') <= Cardinality(ImagesToday \cup {u})
          /\ Cardinality(ImagesToday') \in Nat
      BY <2>3, <3>2, FewerUploads, CountsOfUploads
    <3> QED BY <1>1, <3>1, <3>3
  <2>5. Cardinality(ImagesToday') \in Nat
    BY CountsOfUploads DEF ImagesToday, ImagesSince, Held
  <2> QED BY <1>1, <2>2, <2>4, <2>5
<1>6. ASSUME ~ Tick, Reserved' \subseteq Reserved,
             \A u \in Uploads, size \in Sizes : ~ Store(u, size)
      PROVE  Cardinality(ImagesToday') + Cardinality(Reserved') <= DailyCount
  <2>1. ImagesToday' \subseteq ImagesToday
    <3>1. ImagesToday' \subseteq Uploads
      BY DEF ImagesToday, ImagesSince, Held
    <3> QED BY <1>6, <3>1, ImagesMove
  <2>2. /\ Cardinality(ImagesToday') <= i /\ Cardinality(Reserved') <= r
        /\ Cardinality(ImagesToday') \in Nat /\ Cardinality(Reserved') \in Nat
    BY <1>1, <1>6, <2>1, FewerUploads, CountsOfUploads
  <2> QED BY <1>1, <2>2
<1> HIDE DEF i, r
<1>7. \/ \E u \in Uploads :
              Reserve(u) /\ u \notin Reserved /\ Reserved' = Reserved \cup {u}
      \/ \E u \in Uploads, size \in Sizes : Store(u, size)
      \/ Reserved' \subseteq Reserved
  BY ProgressMoves
<1> QED BY <1>3, <1>4, <1>5, <1>6, <1>7
-----------------------------------------------------------------------------
(* The invariant holds, and what follows from it.                          *)

LEMMA InitHolds == Init => IInv
<1> SUFFICES ASSUME Init PROVE IInv
  OBVIOUS
<1>1. /\ now = 0 /\ stage = [u \in Uploads |-> "waiting"]
      /\ \A u \in Uploads :
             /\ lease[u] = [status |-> "none", at |-> 0]
             /\ image[u] = NoImage /\ stage[u] = "waiting"
  BY DEF Init
<1>2. TypeOK
  BY Limits DEF Init, TypeOK, NoImage, Stages
<1>3. UploadsFit
  BY <1>1 DEF UploadsFit, NoImage
<1>4. Today \in Nat /\ Today <= now
  BY <1>2, DayParts
<1>5. /\ InProgress = {} /\ Reserved = {} /\ Held = {} /\ Units = {}
      /\ ImagesToday = {} /\ Carried = {}
  <2>1. InProgress = {} /\ Reserved = {} /\ Held = {}
    BY <1>1 DEF InProgress, Reserved, Held, NoImage
  <2>2. Units = {} /\ ImagesToday = {}
    BY <2>1 DEF Units, ImagesToday, ImagesSince
  <2> QED BY <2>1, <2>2 DEF Carried, ImagesToday
<1>6. Cardinality({}) = 0 /\ MaxBytes * 0 = 0
  BY Limits, FS_EmptySet
<1>7. LeasesLast /\ ConcurrencyHolds /\ CarriedAreFew /\ DayHasRoom
  BY <1>5, <1>6, Limits
  DEF LeasesLast, ConcurrencyHolds, CarriedAreFew, DayHasRoom, ImagesToday
<1>8. HeldBytesHold
  <2>1. Bytes(Held) = 0
    BY <1>5, <1>6, UnitsCount
  <2>2. {u \in InProgress : stage[u] = "reserved"} = {}
    BY <1>5
  <2> QED BY <1>6, <2>1, <2>2, Limits DEF HeldBytesHold
<1> QED BY <1>2, <1>3, <1>7, <1>8 DEF IInv

LEMMA StepKeeps == IInv /\ [Next]_vars => IInv'
<1> SUFFICES ASSUME IInv, [Next]_vars PROVE IInv'
  OBVIOUS
<1>1. CASE Next
  <2>1. TypeOK' /\ UploadsFit'
    BY <1>1, TypesKept, UploadsKept DEF IInv
  <2>2. TimelyUploads =>
            /\ LeasesLast' /\ ConcurrencyHolds' /\ HeldBytesHold'
            /\ CarriedAreFew'
    BY <1>1, LeasesKept, ConcurrencyKept, BytesKept, CarriedKept DEF IInv
  <2>3. TimelyUploads /\ 2 * Concurrent <= DailyCount + 1 => DayHasRoom'
    BY <1>1, DayKept DEF IInv
  <2> QED BY <2>1, <2>2, <2>3 DEF IInv
<1>2. CASE UNCHANGED vars
  <2>1. TypeOK' /\ UploadsFit'
    BY <1>2 DEF IInv, TypeOK, UploadsFit, vars
  <2>2. LeasesLast' = LeasesLast /\ ConcurrencyHolds' = ConcurrencyHolds
    BY <1>2 DEF LeasesLast, Holds, ConcurrencyHolds, InProgress, vars
  <2>3. HeldBytesHold' = HeldBytesHold
    BY <1>2 DEF HeldBytesHold, Bytes, Held, InProgress, vars
  <2>4. CarriedAreFew' = CarriedAreFew /\ DayHasRoom' = DayHasRoom
    BY <1>2 DEF CarriedAreFew, DayHasRoom, Carried, Reserved, ImagesSince,
                Held, Today, vars
  <2> QED BY <2>1, <2>2, <2>3, <2>4 DEF IInv
<1> QED BY <1>1, <1>2

LEMMA Invariance == Spec => []IInv
BY InitHolds, StepKeeps, PTL DEF Spec

\* Leases, images and stages have their types, for any number of uploads and
\* however long they take.
THEOREM TypeCorrect == Spec => []TypeOK
<1>1. IInv => TypeOK
  BY DEF IInv
<1> QED BY <1>1, Invariance, PTL

\* The limits hold for any number of uploads that overlap, fail and die, if
\* each ends within its lease and the limit of a day is at least twice that of
\* concurrent uploads, less one: the reservations of a day do not count the
\* uploads that the day before left, until they are images.
THEOREM LimitsAreKept ==
    TimelyUploads /\ 2 * Concurrent <= DailyCount + 1 =>
        (Spec => []LimitsHold)
<1> SUFFICES ASSUME TimelyUploads, 2 * Concurrent <= DailyCount + 1
             PROVE  Spec => []LimitsHold
  OBVIOUS
<1>1. ASSUME IInv PROVE LimitsHold
  <2>1. /\ TypeOK /\ DayHasRoom /\ ConcurrencyHolds /\ HeldBytesHold
    BY <1>1 DEF IInv
  <2>2. DailyCountHolds
    BY <2>1, DayParts, CountsOfUploads, Limits
    DEF DayHasRoom, DailyCountHolds, ImagesToday
  <2> QED BY <2>1, <2>2 DEF LimitsHold
<1> QED BY <1>1, Invariance, PTL

\* The limits on concurrent uploads and on the bytes held do not depend on
\* the length of a day.
THEOREM ConcurrencyAndBytesAreKept ==
    TimelyUploads => (Spec => [](ConcurrencyHolds /\ HeldBytesHold))
<1> SUFFICES ASSUME TimelyUploads
             PROVE  Spec => [](ConcurrencyHolds /\ HeldBytesHold)
  OBVIOUS
<1>1. IInv => ConcurrencyHolds /\ HeldBytesHold
  BY DEF IInv
<1> QED BY <1>1, Invariance, PTL
=============================================================================

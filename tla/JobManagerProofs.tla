-------------------------- MODULE JobManagerProofs --------------------------
(***************************************************************************)
(* The safety of JobManager, for any number of jobs and media handlers and *)
(* any limit, and that it implements JobLifecycle.                         *)
(*                                                                         *)
(* status is the centre of the argument: the queue lists exactly the jobs  *)
(* it calls queued, the worker holds the only one it calls generating, and *)
(* a job it does not call ended has no completed_at, so no purge sees it.  *)
(***************************************************************************)
EXTENDS JobManager, FiniteSetTheorems, SequenceTheorems, TLAPS

-----------------------------------------------------------------------------
(* What a queue that holds everything once is, after each of its changes.   *)
LEMMA QueueAppend ==
    ASSUME NEW S, NEW q \in Seq(S), IsInjective(q), NEW x \in S, x \notin ToSet(q)
    PROVE  /\ Append(q, x) \in Seq(S)
           /\ IsInjective(Append(q, x))
           /\ ToSet(Append(q, x)) = ToSet(q) \cup {x}
<1> DEFINE p == Append(q, x)
<1>1. /\ p \in Seq(S) /\ Len(p) = Len(q) + 1 /\ Len(q) \in Nat
      /\ \A i \in 1..Len(q) : p[i] = q[i]
      /\ p[Len(q) + 1] = x
  BY AppendProperties, LenProperties
<1>2. DOMAIN q = 1..Len(q) /\ DOMAIN p = 1..(Len(q) + 1)
  BY <1>1, LenProperties
<1> HIDE DEF p
<1>3. IsInjective(p)
  BY <1>1, <1>2 DEF IsInjective, ToSet
<1>4. ToSet(p) = ToSet(q) \cup {x}
  BY <1>1, <1>2 DEF ToSet
<1> QED
  BY <1>1, <1>3, <1>4 DEF p

LEMMA QueueTail ==
    ASSUME NEW S, NEW q \in Seq(S), IsInjective(q), q # <<>>
    PROVE  /\ Head(q) \in S /\ Tail(q) \in Seq(S)
           /\ IsInjective(Tail(q))
           /\ Head(q) \in ToSet(q)
           /\ ToSet(Tail(q)) = ToSet(q) \ {Head(q)}
<1> DEFINE p == Tail(q)
<1>1. /\ Head(q) \in S /\ p \in Seq(S) /\ Len(p) = Len(q) - 1
      /\ \A i \in 1..Len(p) : p[i] = q[i + 1]
  BY HeadTailProperties
<1>2. /\ Len(q) \in Nat \ {0} /\ DOMAIN q = 1..Len(q)
      /\ DOMAIN p = 1..(Len(q) - 1)
  BY <1>1, LenProperties, EmptySeq
<1>3. Head(q) = q[1]
  BY <1>2
<1> HIDE DEF p
<1>4. IsInjective(p)
  <2> SUFFICES ASSUME NEW a \in 1..Len(p), NEW b \in 1..Len(p), p[a] = p[b]
               PROVE  a = b
    BY <1>1, <1>2 DEF IsInjective
  <2>1. /\ a + 1 \in 1..Len(q) /\ b + 1 \in 1..Len(q)
        /\ q[a + 1] = q[b + 1]
    BY <1>1, <1>2
  <2>2. a + 1 = b + 1
    BY <1>2, <2>1 DEF IsInjective
  <2> QED
    BY <1>1, <1>2, <2>2
<1>5. ToSet(q) \ {q[1]} \subseteq ToSet(p)
  <2> SUFFICES ASSUME NEW i \in 1..Len(q), q[i] # q[1] PROVE q[i] \in ToSet(p)
    BY <1>2 DEF ToSet
  <2>1. i - 1 \in 1..Len(p) /\ p[i - 1] = q[i]
    BY <1>1, <1>2
  <2> QED
    BY <2>1, <1>1, <1>2 DEF ToSet
<1>6. ToSet(p) \subseteq ToSet(q) \ {q[1]}
  <2> SUFFICES ASSUME NEW i \in 1..Len(p) PROVE p[i] \in ToSet(q) \ {q[1]}
    BY <1>1, <1>2 DEF ToSet
  <2>1. p[i] = q[i + 1] /\ i + 1 \in 1..Len(q) /\ i + 1 # 1 /\ 1 \in 1..Len(q)
    BY <1>1, <1>2
  <2>2. q[i + 1] # q[1]
    BY <1>2, <2>1 DEF IsInjective
  <2> QED
    BY <1>2, <2>1, <2>2 DEF ToSet
<1>7. q[1] \in ToSet(q)
  BY <1>2 DEF ToSet
<1> QED
  BY <1>1, <1>3, <1>4, <1>5, <1>6, <1>7 DEF p

LEMMA QueueRemove ==
    ASSUME NEW S, NEW q \in Seq(S), IsInjective(q), NEW n \in DOMAIN q
    PROVE  /\ RemoveAt(q, n) \in Seq(S)
           /\ IsInjective(RemoveAt(q, n))
           /\ ToSet(RemoveAt(q, n)) = ToSet(q) \ {q[n]}
<1> DEFINE l == SubSeq(q, 1, n - 1)
           r == SubSeq(q, n + 1, Len(q))
           p == l \o r
<1>1. Len(q) \in Nat /\ DOMAIN q = 1..Len(q) /\ n \in 1..Len(q)
  BY LenProperties
<1>2. \A i \in 1..Len(q) : q[i] \in S
  BY <1>1, ElementOfSeq
<1>3. l \in Seq(S) /\ Len(l) = n - 1 /\ \A i \in 1..(n - 1) : l[i] = q[i]
  BY <1>1, <1>2, SubSeqProperties
<1>4. /\ r \in Seq(S) /\ Len(r) = Len(q) - n
      /\ \A i \in 1..(Len(q) - n) : r[i] = q[n + i]
  BY <1>1, <1>2, SubSeqProperties
<1> HIDE DEF l, r
<1>5. /\ p \in Seq(S) /\ Len(p) = Len(q) - 1
      /\ \A i \in 1..(Len(q) - 1) : p[i] = IF i < n THEN q[i] ELSE q[i + 1]
  <2>1. /\ p \in Seq(S) /\ Len(p) = (n - 1) + (Len(q) - n)
        /\ \A i \in 1..((n - 1) + (Len(q) - n)) :
             p[i] = IF i <= n - 1 THEN l[i] ELSE r[i - (n - 1)]
    <3>1. /\ p \in Seq(S) /\ Len(p) = Len(l) + Len(r)
          /\ \A i \in 1..(Len(l) + Len(r)) :
               p[i] = IF i <= Len(l) THEN l[i] ELSE r[i - Len(l)]
      BY <1>3, <1>4, ConcatProperties
    <3> HIDE DEF p
    <3> QED
      BY <3>1, <1>3, <1>4
  <2>2. ASSUME NEW i \in 1..(Len(q) - 1)
        PROVE  p[i] = IF i < n THEN q[i] ELSE q[i + 1]
    <3>1. CASE i < n
      BY <1>1, <1>3, <2>1, <3>1
    <3>2. CASE ~(i < n)
      <4>1. i - (n - 1) \in 1..(Len(q) - n) /\ n + (i - (n - 1)) = i + 1
        BY <1>1, <3>2
      <4>2. p[i] = r[i - (n - 1)]
        BY <1>1, <2>1, <3>2
      <4>3. r[i - (n - 1)] = q[n + (i - (n - 1))]
        BY <1>4, <4>1
      <4> QED
        BY <3>2, <4>1, <4>2, <4>3
    <3> QED
      BY <3>1, <3>2
  <2> HIDE DEF p
  <2> QED
    BY <1>1, <2>1, <2>2
<1>6. DOMAIN p = 1..(Len(q) - 1)
  BY <1>5, LenProperties
<1>7. p = RemoveAt(q, n)
  BY DEF RemoveAt, l, r
<1> HIDE DEF p
<1>8. IsInjective(p)
  <2> SUFFICES ASSUME NEW i \in 1..(Len(q) - 1), NEW k \in 1..(Len(q) - 1),
                      p[i] = p[k]
               PROVE  i = k
    BY <1>6 DEF IsInjective
  <2> DEFINE at(x) == IF x < n THEN x ELSE x + 1
  <2>1. /\ at(i) \in 1..Len(q) /\ at(k) \in 1..Len(q)
        /\ p[i] = q[at(i)] /\ p[k] = q[at(k)]
    BY <1>1, <1>5
  <2>2. at(i) = at(k)
    <3> HIDE DEF at
    <3> QED
      BY <1>1, <2>1 DEF IsInjective
  <2> QED
    BY <1>1, <2>2
<1>9. ToSet(p) \subseteq ToSet(q) \ {q[n]}
  <2> SUFFICES ASSUME NEW i \in 1..(Len(q) - 1) PROVE p[i] \in ToSet(q) \ {q[n]}
    BY <1>6 DEF ToSet
  <2>1. PICK k \in 1..Len(q) : p[i] = q[k] /\ k # n
    BY <1>1, <1>5
  <2> QED
    BY <1>1, <2>1 DEF IsInjective, ToSet
<1>10. ToSet(q) \ {q[n]} \subseteq ToSet(p)
  <2> SUFFICES ASSUME NEW i \in 1..Len(q), i # n PROVE q[i] \in ToSet(p)
    BY <1>1 DEF ToSet
  <2>1. CASE i < n
    <3>1. i \in 1..(Len(q) - 1) /\ p[i] = q[i]
      BY <1>1, <1>5, <2>1
    <3> QED
      BY <3>1, <1>6 DEF ToSet
  <2>2. CASE i > n
    <3>1. i - 1 \in 1..(Len(q) - 1) /\ p[i - 1] = q[i]
      BY <1>1, <1>5, <2>2
    <3> QED
      BY <3>1, <1>6 DEF ToSet
  <2> QED
    BY <1>1, <2>1, <2>2
<1> QED
  BY <1>5, <1>7, <1>8, <1>9, <1>10

(* It is as long as what it holds is many. *)
LEMMA QueueLength ==
    ASSUME NEW S, NEW q \in Seq(S), IsInjective(q)
    PROVE  /\ IsFiniteSet(ToSet(q)) /\ Len(q) \in Nat
           /\ Cardinality(ToSet(q)) = Len(q)
<1>1. Len(q) \in Nat /\ DOMAIN q = 1..Len(q) /\ q \in [1..Len(q) -> S]
  BY LenProperties
<1>2. q \in [1..Len(q) -> ToSet(q)]
  BY <1>1 DEF ToSet
<1>3. q \in Bijection(1..Len(q), ToSet(q))
  BY <1>1, <1>2 DEF Bijection, Injection, Surjection, ToSet
<1>4. ExistsBijection(1..Len(q), ToSet(q))
  BY <1>3 DEF ExistsBijection
<1>5. IsFiniteSet(ToSet(q))
  BY <1>1, <1>4, FS_NatBijection
<1> QED
  BY <1>1, <1>4, <1>5, FS_CountingElements

-----------------------------------------------------------------------------
(* completed_at is set when a job ends, and not before. *)
AgesAreTrue ==
    \A j \in Jobs : status[j] \notin Terminal => age[j] = "zero"

(* No map has a job before its submit. *)
Unlisted == \A j \in Jobs : status[j] = "unsubmitted" => table[j] = "absent"

(* The worker's job is generating, and has ended for the last store.        *)
WorkerHolds ==
    /\ current \in Jobs <=> wpc \in {"rendering", "succeeded", "failed", "marked"}
    /\ wpc \in {"rendering", "succeeded", "failed"} => status[current] = "generating"
    /\ wpc = "marked" => status[current] \in Terminal

(* Only a completed job has a result, only a job that ran was cancelled so. *)
EndsAreTrue ==
    /\ \A j \in stored : status[j] = "completed"
    /\ \A j \in requested : status[j] \in {"generating", "cancelled"}

Bounded == IsFiniteSet(Pending) /\ QueueIsBounded

Safe == AgesAreTrue /\ Unlisted /\ QueueIsExact /\ LiveJobIsKept /\ WorkerHolds
            /\ EndsAreTrue /\ Bounded

-----------------------------------------------------------------------------
LEMMA InitSafe == Init => TypeOK /\ Safe
<1> SUFFICES ASSUME Init PROVE TypeOK /\ Safe
  OBVIOUS
<1>1. TypeOK
  <2>1. queue \in Seq(Jobs)
    BY EmptySeq DEF Init
  <2> QED
    BY <2>1 DEF Init, TypeOK, Statuses
<1>2. QueueIsExact
  BY DEF Init, QueueIsExact, IsInjective, ToSet
<1>3. Bounded
  <2>1. Pending = {}
    BY DEF Init, Pending
  <2> QED
    BY <2>1, FS_EmptySet, JobManagerAssumption DEF Bounded, QueueIsBounded
<1>4. AgesAreTrue /\ Unlisted /\ LiveJobIsKept /\ WorkerHolds /\ EndsAreTrue
  BY JobManagerAssumption
  DEF Init, AgesAreTrue, Unlisted, LiveJobIsKept, WorkerHolds, EndsAreTrue,
      Terminal
<1> QED
  BY <1>1, <1>2, <1>3, <1>4 DEF Safe

(* A purge keeps what has not ended, and makes nothing live. *)
LEMMA PurgeSpares ==
    ASSUME TypeOK
    PROVE  /\ PurgedTable \in [Jobs -> {"absent", "live", "expired"}]
           /\ PurgedAge \in [Jobs -> {"zero", "fresh", "old"}]
           /\ \A j \in Jobs : age[j] = "zero" => /\ PurgedTable[j] = table[j]
                                                 /\ PurgedAge[j] = "zero"
           /\ \A j \in Jobs : PurgedTable[j] = "live" => table[j] = "live"
           /\ \A j \in Jobs : table[j] = "absent" => PurgedTable[j] = "absent"
BY DEF TypeOK, PurgedTable, PurgedAge, Overdue

(* What changes neither a status nor the queue, and purges at most. *)
Quiet ==
    /\ UNCHANGED <<status, queue>>
    /\ \/ Purge
       \/ \E j \in Jobs : Age(j)
       \/ UNCHANGED <<table, age>>

LEMMA QuietSafe ==
    ASSUME TypeOK, Safe, Quiet
    PROVE  /\ AgesAreTrue' /\ Unlisted' /\ QueueIsExact' /\ Bounded'
           /\ \A j \in Jobs : status'[j] \in {"queued", "generating"}
                                => table'[j] = "live"
           /\ table' \in [Jobs -> {"absent", "live", "expired"}]
           /\ age' \in [Jobs -> {"zero", "fresh", "old"}]
<1>1. /\ table' \in [Jobs -> {"absent", "live", "expired"}]
      /\ age' \in [Jobs -> {"zero", "fresh", "old"}]
      /\ \A j \in Jobs : age[j] = "zero" => table'[j] = table[j] /\ age'[j] = "zero"
      /\ \A j \in Jobs : table'[j] = "live" => table[j] = "live"
      /\ \A j \in Jobs : table[j] = "absent" => table'[j] = "absent"
  <2>1. CASE Purge
    BY <2>1, PurgeSpares DEF Purge
  <2>2. CASE \E j \in Jobs : Age(j)
    BY <2>2 DEF Age, TypeOK
  <2>3. CASE UNCHANGED <<table, age>>
    BY <2>3 DEF TypeOK
  <2> QED
    BY <2>1, <2>2, <2>3 DEF Quiet
<1>2. status' = status /\ queue' = queue
  BY DEF Quiet
<1>3. AgesAreTrue' /\ Unlisted'
  BY <1>1, <1>2 DEF Safe, AgesAreTrue, Unlisted, Terminal
<1>4. QueueIsExact'
  BY <1>2 DEF Safe, QueueIsExact
<1>5. \A j \in Jobs : status'[j] \in {"queued", "generating"} => table'[j] = "live"
  BY <1>1, <1>2 DEF Safe, AgesAreTrue, LiveJobIsKept, Terminal
<1>6. Pending' \subseteq Pending
  BY <1>1, <1>2 DEF Pending
<1>7. Bounded'
  BY <1>6, FS_Subset, FS_CardinalityType, JobManagerAssumption
  DEF Safe, Bounded, QueueIsBounded
<1> QED
  BY <1>1, <1>3, <1>4, <1>5, <1>7

(* The limit holds as long as no job is accepted. *)
LEMMA NoneAccepted ==
    ASSUME Bounded, Pending' \subseteq Pending
    PROVE  Bounded'
BY FS_Subset, FS_CardinalityType, JobManagerAssumption
DEF Bounded, QueueIsBounded

(* The handlers that read, and the passing of time. *)
LEMMA ReadersSafe ==
    ASSUME TypeOK, Safe,
           \/ Notify \/ Poll \/ Stop
           \/ \E j \in Jobs : CancelRunning(j) \/ Age(j)
           \/ \E r \in Readers : ReadStatus(r) \/ ReadResult(r)
           \/ \E r \in Readers, j \in Jobs : TakeReference(r, j)
    PROVE  TypeOK' /\ Safe'
<1> USE DEF tableVars, workerVars, readerVars
<1> SUFFICES ASSUME TRUE PROVE TypeOK' /\ Safe'
  OBVIOUS
<1>1. Quiet /\ UNCHANGED <<stored, current>>
  BY
  DEF Notify, Poll, Stop, CancelRunning, Age, ReadStatus, ReadResult,
      TakeReference, Quiet
<1>2. wpc' = wpc \/ (wpc = "asleep" /\ wpc' = "checking")
  BY
  DEF Notify, Poll, Stop, CancelRunning, Age, ReadStatus, ReadResult,
      TakeReference
<1>3. /\ requested' \subseteq Jobs
      /\ \A j \in requested' : j \in requested \/ status[j] = "generating"
  <2>1. CASE UNCHANGED requested
    BY <2>1 DEF TypeOK
  <2>2. ASSUME NEW j \in Jobs, CancelRunning(j)
        PROVE  /\ requested' \subseteq Jobs
               /\ \A k \in requested' : k \in requested \/ status[k] = "generating"
    BY <2>2 DEF CancelRunning, TypeOK
  <2>3. UNCHANGED requested \/ \E j \in Jobs : CancelRunning(j)
    BY DEF Notify, Poll, Stop, Age, ReadStatus, ReadResult, TakeReference
  <2> QED
    BY <2>1, <2>2, <2>3
<1> DEFINE ReadersType ==
             /\ stop' \in BOOLEAN /\ wakes' \in Nat
             /\ rpc' \in [Readers -> {"idle", "referenced", "complete"}]
             /\ rjob' \in [Readers -> Jobs \cup {NoJob}]
             /\ reply' \in [Readers -> {"none", "gone", "incomplete", "body",
                                        "missing"}]
<1>4. ReadersType
  <2>1. ASSUME Notify PROVE ReadersType
    BY <2>1 DEF Notify, TypeOK
  <2>2. ASSUME Poll PROVE ReadersType
    BY <2>2 DEF Poll, TypeOK
  <2>3. ASSUME Stop PROVE ReadersType
    BY <2>3 DEF Stop, TypeOK
  <2>4. ASSUME NEW j \in Jobs, CancelRunning(j) PROVE ReadersType
    BY <2>4 DEF CancelRunning, TypeOK
  <2>5. ASSUME NEW j \in Jobs, Age(j) PROVE ReadersType
    BY <2>5 DEF Age, TypeOK
  <2>6. ASSUME NEW r \in Readers, ReadStatus(r) PROVE ReadersType
    BY <2>6 DEF ReadStatus, TypeOK
  <2>7. ASSUME NEW r \in Readers, ReadResult(r) PROVE ReadersType
    BY <2>7 DEF ReadResult, TypeOK
  <2>8. ASSUME NEW r \in Readers, NEW j \in Jobs, TakeReference(r, j) PROVE ReadersType
    BY <2>8 DEF TakeReference, TypeOK
  <2> HIDE DEF ReadersType
  <2> QED
    BY <2>1, <2>2, <2>3, <2>4, <2>5, <2>6, <2>7, <2>8
<1>6. TypeOK'
  BY <1>1, <1>2, <1>3, <1>4, QuietSafe DEF TypeOK, Quiet
<1>7. WorkerHolds' /\ EndsAreTrue' /\ LiveJobIsKept'
  BY <1>1, <1>2, <1>3, QuietSafe
  DEF Quiet, Safe, WorkerHolds, EndsAreTrue, LiveJobIsKept, TypeOK
<1> QED
  BY <1>1, <1>6, <1>7, QuietSafe DEF Safe

(* An accepted job is the last to wait, and within the limit. *)
LEMMA SubmitSafe ==
    ASSUME TypeOK, Safe, NEW j \in Jobs, Submit(j)
    PROVE  TypeOK' /\ Safe'
<1> USE DEF workerVars, readerVars
<1>0. /\ status[j] = "unsubmitted" /\ Room
      /\ status' = [status EXCEPT ![j] = "queued"]
      /\ table' = [PurgedTable EXCEPT ![j] = "live"]
      /\ age' = PurgedAge
      /\ queue' = Append(queue, j)
      /\ wakes' = wakes + 1
      /\ UNCHANGED <<requested, stored, stop, wpc, current, rpc, rjob, reply>>
  BY DEF Submit, Accept
<1>1. j \notin ToSet(queue)
  BY <1>0 DEF Safe, QueueIsExact
<1>2. /\ queue' \in Seq(Jobs) /\ IsInjective(queue')
      /\ ToSet(queue') = ToSet(queue) \cup {j}
  BY <1>0, <1>1, QueueAppend DEF TypeOK, Safe, QueueIsExact
<1>3. TypeOK'
  BY <1>0, <1>2, PurgeSpares DEF TypeOK, Statuses
<1>4. QueueIsExact'
  BY <1>0, <1>2 DEF Safe, QueueIsExact, TypeOK
<1>5. AgesAreTrue' /\ Unlisted' /\ LiveJobIsKept'
  <2>1. /\ table'[j] = "live" /\ status'[j] = "queued"
        /\ \A k \in Jobs \ {j} : table'[k] = PurgedTable[k] /\ status'[k] = status[k]
    BY <1>0, PurgeSpares DEF TypeOK
  <2>2. AgesAreTrue'
    BY <1>0, <2>1, PurgeSpares DEF Safe, AgesAreTrue, Terminal
  <2>3. Unlisted'
    BY <2>1, PurgeSpares DEF Safe, Unlisted
  <2>4. LiveJobIsKept'
    <3>1. ASSUME NEW k \in Jobs, status'[k] \in {"queued", "generating"}
          PROVE  table'[k] = "live"
      <4>1. CASE k = j
        BY <2>1, <4>1
      <4>2. CASE k # j
        <5>1. status[k] \in {"queued", "generating"} /\ table'[k] = PurgedTable[k]
          BY <2>1, <3>1, <4>2
        <5>2. age[k] = "zero" /\ table[k] = "live"
          BY <5>1 DEF Safe, AgesAreTrue, LiveJobIsKept, Terminal
        <5> QED
          BY <5>1, <5>2, PurgeSpares
      <4> QED
        BY <4>1, <4>2
    <3>2. \A k \in Jobs : status'[k] = "generating" => k = current'
      BY <1>0, <2>1 DEF Safe, LiveJobIsKept
    <3> QED
      BY <3>1, <3>2 DEF LiveJobIsKept
  <2> QED
    BY <2>2, <2>3, <2>4
<1>6. WorkerHolds' /\ EndsAreTrue'
  BY <1>0 DEF Safe, WorkerHolds, EndsAreTrue, Terminal, TypeOK
<1>7. Bounded'
  <2> DEFINE P == {k \in Pending : PurgedTable[k] = "live"}
  <2>1. IsFiniteSet(P) /\ Cardinality(P) < MaxPending
    <3>1. P \in SUBSET Pending
      OBVIOUS
    <3> QED
      BY <1>0, <3>1, FS_Subset DEF Safe, Bounded, Room
  <2>2. j \notin P
    BY <1>0 DEF Pending
  <2>3. Pending' = P \cup {j}
    <3>0. /\ table'[j] = "live" /\ status'[j] = "queued"
          /\ \A k \in Jobs \ {j} : table'[k] = PurgedTable[k] /\ status'[k] = status[k]
      BY <1>0, PurgeSpares DEF TypeOK
    <3>1. ASSUME NEW k \in Jobs \ {j} PROVE k \in Pending' <=> k \in P
      BY <3>0, PurgeSpares DEF Pending
    <3>2. j \in Pending'
      BY <3>0 DEF Pending
    <3>3. Pending' \subseteq Jobs /\ P \subseteq Jobs
      BY DEF Pending
    <3> QED
      BY <3>1, <3>2, <3>3
  <2> HIDE DEF P
  <2>4. IsFiniteSet(P \cup {j}) /\ Cardinality(P \cup {j}) = Cardinality(P) + 1
    BY <2>1, <2>2, FS_AddElement
  <2>5. Cardinality(P) \in Nat
    BY <2>1, FS_CardinalityType
  <2> QED
    BY <2>1, <2>3, <2>4, <2>5, JobManagerAssumption
    DEF Bounded, QueueIsBounded
<1> QED
  BY <1>3, <1>4, <1>5, <1>6, <1>7 DEF Safe

(* A job cancelled while it waits leaves the queue as it ends. *)
LEMMA CancelQueuedSafe ==
    ASSUME TypeOK, Safe, NEW j \in Jobs, CancelQueued(j)
    PROVE  TypeOK' /\ Safe'
<1> USE DEF workerVars, readerVars
<1>1. j \in ToSet(queue)
  BY DEF CancelQueued, Safe, QueueIsExact
<1>2. PICK n \in DOMAIN queue : queue[n] = j /\ queue' = RemoveAt(queue, n)
  BY <1>1 DEF CancelQueued
<1>3. /\ status[j] = "queued"
      /\ status' = [status EXCEPT ![j] = "cancelled"]
      /\ age' = [PurgedAge EXCEPT ![j] = "fresh"]
      /\ stored' = stored \ {j}
      /\ table' = PurgedTable
      /\ UNCHANGED <<requested, stop, wakes, wpc, current, rpc, rjob, reply>>
  BY <1>1 DEF CancelQueued
<1>4. /\ queue' \in Seq(Jobs) /\ IsInjective(queue')
      /\ ToSet(queue') = ToSet(queue) \ {j}
  BY <1>2, QueueRemove DEF TypeOK, Safe, QueueIsExact
<1>5. TypeOK'
  BY <1>3, <1>4, PurgeSpares DEF TypeOK, Statuses, Terminal
<1>6. QueueIsExact'
  BY <1>3, <1>4 DEF Safe, QueueIsExact, TypeOK
<1>7. AgesAreTrue' /\ Unlisted' /\ LiveJobIsKept'
  BY <1>3, PurgeSpares
  DEF Safe, AgesAreTrue, Unlisted, LiveJobIsKept, Terminal, TypeOK
<1>8. WorkerHolds' /\ EndsAreTrue'
  BY <1>3 DEF Safe, WorkerHolds, EndsAreTrue, Terminal, TypeOK
<1>9. Bounded'
  <2>1. Pending' \subseteq Pending
    BY <1>3, PurgeSpares DEF Pending, TypeOK
  <2> QED
    BY <2>1, NoneAccepted DEF Safe
<1> QED
  BY <1>5, <1>6, <1>7, <1>8, <1>9 DEF Safe

(* An unload ends every waiting job and empties the queue. *)
LEMMA ReleaseSafe ==
    ASSUME TypeOK, Safe, NEW force \in BOOLEAN, ReleaseQueue(force)
    PROVE  TypeOK' /\ Safe'
<1> USE DEF workerVars, readerVars
<1>1. \A j \in Jobs : j \in ToSet(queue) <=> status[j] = "queued"
  BY DEF Safe, QueueIsExact
<1>2. /\ status' = [j \in Jobs |-> IF status[j] = "queued" THEN "cancelled"
                                                          ELSE status[j]]
      /\ age' = [j \in Jobs |-> IF status[j] = "queued" THEN "fresh" ELSE age[j]]
      /\ queue' = <<>>
      /\ UNCHANGED <<table, requested, stored, stop, wakes, wpc, current, rpc,
                     rjob, reply>>
  <2>1. {j \in ToSet(queue) : table[j] = "live"}
          = {j \in Jobs : status[j] = "queued"}
    BY <1>1 DEF Safe, LiveJobIsKept, QueueIsExact
  <2> QED
    BY <2>1 DEF ReleaseQueue
<1>3. TypeOK'
  <2>1. queue' \in Seq(Jobs)
    BY <1>2, EmptySeq
  <2> QED
    BY <1>2, <2>1 DEF TypeOK, Statuses, Terminal
<1>4. QueueIsExact'
  BY <1>2 DEF QueueIsExact, IsInjective, ToSet
<1>5. AgesAreTrue' /\ Unlisted' /\ LiveJobIsKept'
  BY <1>2 DEF Safe, AgesAreTrue, Unlisted, LiveJobIsKept, Terminal, TypeOK
<1>6. WorkerHolds' /\ EndsAreTrue'
  BY <1>2 DEF Safe, WorkerHolds, EndsAreTrue, Terminal, TypeOK
<1>7. Bounded'
  <2>1. Pending' \subseteq Pending
    BY <1>2 DEF Pending
  <2> QED
    BY <2>1, NoneAccepted DEF Safe
<1> QED
  BY <1>3, <1>4, <1>5, <1>6, <1>7 DEF Safe

(* The worker takes the head of the queue, which no purge has dropped. *)
LEMMA TakenHead ==
    ASSUME TypeOK, Safe, TakeJob
    PROVE  /\ Head(queue) \in Jobs /\ status[Head(queue)] = "queued"
           /\ status' = [status EXCEPT ![Head(queue)] = "generating"]
           /\ current' = Head(queue) /\ wpc' = "rendering"
           /\ queue' \in Seq(Jobs) /\ IsInjective(queue')
           /\ ToSet(queue') = ToSet(queue) \ {Head(queue)}
<1>1. queue \in Seq(Jobs) /\ queue # <<>> /\ IsInjective(queue)
  BY DEF TypeOK, Safe, QueueIsExact, TakeJob
<1>2. /\ Head(queue) \in Jobs /\ Head(queue) \in ToSet(queue)
      /\ Tail(queue) \in Seq(Jobs) /\ IsInjective(Tail(queue))
      /\ ToSet(Tail(queue)) = ToSet(queue) \ {Head(queue)}
  BY <1>1, QueueTail
<1>3. status[Head(queue)] = "queued"
  BY <1>2 DEF Safe, QueueIsExact
<1>4. table[Head(queue)] = "live" /\ age[Head(queue)] = "zero"
  BY <1>2, <1>3 DEF Safe, LiveJobIsKept, AgesAreTrue, Terminal
<1>5. PurgedTable[Head(queue)] = "live"
  BY <1>2, <1>4, PurgeSpares
<1> QED
  BY <1>2, <1>3, <1>5 DEF TakeJob

LEMMA TakeSafe ==
    ASSUME TypeOK, Safe, TakeJob
    PROVE  TypeOK' /\ Safe'
<1> USE DEF readerVars
<1> DEFINE j == Head(queue)
<1>1. /\ j \in Jobs /\ status[j] = "queued"
      /\ status' = [status EXCEPT ![j] = "generating"]
      /\ current' = j /\ wpc' = "rendering"
      /\ queue' \in Seq(Jobs) /\ IsInjective(queue')
      /\ ToSet(queue') = ToSet(queue) \ {j}
  BY TakenHead
<1>2. /\ wpc = "checking" /\ table' = PurgedTable /\ age' = PurgedAge
      /\ UNCHANGED <<requested, stored, stop, wakes, rpc, rjob, reply>>
  BY DEF TakeJob, Purge
<1>3. \A k \in Jobs : status[k] # "generating"
  BY <1>2, JobManagerAssumption DEF Safe, WorkerHolds, LiveJobIsKept
<1> HIDE DEF j
<1>4. TypeOK'
  BY <1>1, <1>2, PurgeSpares DEF TypeOK, Statuses
<1>5. QueueIsExact'
  BY <1>1, <1>2 DEF Safe, QueueIsExact, TypeOK
<1>6. AgesAreTrue' /\ Unlisted' /\ LiveJobIsKept'
  <2>1. /\ status'[j] = "generating"
        /\ \A k \in Jobs \ {j} : status'[k] = status[k]
    BY <1>1 DEF TypeOK
  <2>2. AgesAreTrue'
    BY <1>1, <1>2, <2>1, PurgeSpares DEF Safe, AgesAreTrue, Terminal
  <2>3. Unlisted'
    BY <1>2, <2>1, PurgeSpares DEF Safe, Unlisted
  <2>4. \A k \in Jobs : status[k] \in {"queued", "generating"} => table'[k] = "live"
    BY <1>2, PurgeSpares DEF Safe, AgesAreTrue, LiveJobIsKept, Terminal
  <2>5. LiveJobIsKept'
    BY <1>1, <1>3, <2>1, <2>4 DEF LiveJobIsKept
  <2> QED
    BY <2>2, <2>3, <2>5
<1>7. WorkerHolds' /\ EndsAreTrue'
  BY <1>1, <1>2, <1>3 DEF Safe, WorkerHolds, EndsAreTrue, Terminal, TypeOK
<1>8. Bounded'
  <2>1. Pending' \subseteq Pending
    BY <1>1, <1>2, PurgeSpares DEF Pending, TypeOK
  <2> QED
    BY <2>1, NoneAccepted DEF Safe
<1> QED
  BY <1>4, <1>5, <1>6, <1>7, <1>8 DEF Safe

(* Its job ends as it was cancelled or rendered. *)
LEMMA MarkSafe ==
    ASSUME TypeOK, Safe, Mark
    PROVE  TypeOK' /\ Safe'
<1> USE DEF readerVars
<1>1. /\ current \in Jobs /\ status[current] = "generating"
      /\ table[current] = "live"
  <2>1. wpc \in {"rendering", "succeeded", "failed"}
    BY DEF Mark
  <2> QED
    BY <2>1 DEF Safe, WorkerHolds, LiveJobIsKept
<1>2. /\ wpc' = "marked" /\ UNCHANGED current
      /\ age' = [age EXCEPT ![current] = "fresh"]
      /\ UNCHANGED <<table, queue, requested, stored, stop, wakes, rpc, rjob, reply>>
  BY <1>1 DEF Mark
<1>3. PICK o \in Terminal : /\ status' = [status EXCEPT ![current] = o]
                            /\ current \in requested => o = "cancelled"
  BY <1>1 DEF Mark, Terminal
<1>4. TypeOK'
  BY <1>1, <1>2, <1>3 DEF TypeOK, Statuses
<1>5. QueueIsExact'
  BY <1>1, <1>2, <1>3 DEF Safe, QueueIsExact, TypeOK, Terminal
<1>6. AgesAreTrue' /\ Unlisted' /\ LiveJobIsKept'
  BY <1>1, <1>2, <1>3
  DEF Safe, AgesAreTrue, Unlisted, LiveJobIsKept, Terminal, TypeOK
<1>7. WorkerHolds' /\ EndsAreTrue'
  BY <1>1, <1>2, <1>3 DEF Safe, WorkerHolds, EndsAreTrue, Terminal, TypeOK
<1>8. Bounded'
  <2>1. Pending' \subseteq Pending
    BY <1>1, <1>2, <1>3 DEF Pending, TypeOK, Terminal
  <2> QED
    BY <2>1, NoneAccepted DEF Safe
<1> QED
  BY <1>4, <1>5, <1>6, <1>7, <1>8 DEF Safe

(* Then its result is stored, if it has one, and the worker lets go of it. *)
LEMMA StoreSafe ==
    ASSUME TypeOK, Safe, Store
    PROVE  TypeOK' /\ Safe'
<1> USE DEF readerVars
<1>1. /\ current \in Jobs /\ status[current] \in Terminal
      /\ current' = NoJob /\ wpc' = "checking"
      /\ UNCHANGED <<requested, stop, wakes, rpc, rjob, reply>>
  BY DEF Store, Safe, WorkerHolds
<1>2. Quiet
  BY DEF Store, Quiet
<1>3. \/ status[current] = "completed" /\ stored' = stored \cup {current}
      \/ stored' = stored \ {current}
  BY DEF Store
<1>4. TypeOK'
  BY <1>1, <1>2, <1>3, QuietSafe DEF TypeOK, Quiet
<1>5. WorkerHolds' /\ EndsAreTrue'
  BY <1>1, <1>2, <1>3, JobManagerAssumption
  DEF Quiet, Safe, WorkerHolds, EndsAreTrue, Terminal
<1>6. LiveJobIsKept'
  BY <1>1, <1>2, QuietSafe DEF Quiet, Safe, LiveJobIsKept, Terminal
<1> QED
  BY <1>2, <1>4, <1>5, <1>6, QuietSafe DEF Safe

(* The steps of the worker that only move it. *)
LEMMA MoveSafe ==
    ASSUME TypeOK, Safe,
           \/ Sleep \/ Exit
           \/ \E outcome \in {"succeeded", "failed"} : RenderEnds(outcome)
    PROVE  TypeOK' /\ Safe'
<1> USE DEF tableVars, readerVars
<1>1. /\ UNCHANGED <<status, table, age, queue, requested, stored, stop, wakes,
                     current, rpc, rjob, reply>>
      /\ \/ wpc = "checking" /\ wpc' \in {"asleep", "exited"}
         \/ wpc = "rendering" /\ wpc' \in {"succeeded", "failed"}
  BY DEF Sleep, Exit, RenderEnds
<1>2. Quiet
  BY <1>1 DEF Quiet
<1>3. TypeOK'
  BY <1>1 DEF TypeOK
<1>4. WorkerHolds' /\ EndsAreTrue' /\ LiveJobIsKept'
  BY <1>1 DEF Safe, WorkerHolds, EndsAreTrue, LiveJobIsKept
<1> QED
  BY <1>2, <1>3, <1>4, QuietSafe DEF Safe

-----------------------------------------------------------------------------
LEMMA StepSafe == TypeOK /\ Safe /\ [Next]_vars => TypeOK' /\ Safe'
<1> SUFFICES ASSUME TypeOK, Safe, [Next]_vars PROVE TypeOK' /\ Safe'
  OBVIOUS
<1>1. CASE Worker
  BY <1>1, MoveSafe, TakeSafe, MarkSafe, StoreSafe DEF Worker
<1>2. CASE Handlers
  BY <1>2, SubmitSafe, ReadersSafe, CancelQueuedSafe, ReleaseSafe DEF Handlers
<1>3. CASE (\E j \in Jobs : Age(j)) \/ Stop
  BY <1>3, ReadersSafe
<1>4. CASE UNCHANGED vars
  <2>1. UNCHANGED <<status, table, age, queue, requested, stored, stop, wakes,
                    wpc, current, rpc, rjob, reply>>
    BY <1>4 DEF vars, tableVars, workerVars, readerVars
  <2>2. TypeOK'
    BY <2>1 DEF TypeOK
  <2>3. WorkerHolds' /\ EndsAreTrue' /\ LiveJobIsKept'
    BY <2>1 DEF Safe, WorkerHolds, EndsAreTrue, LiveJobIsKept
  <2> QED
    BY <2>1, <2>2, <2>3, QuietSafe DEF Safe, Quiet
<1> QED
  BY <1>1, <1>2, <1>3, <1>4 DEF Next, Terminated

LEMMA AlwaysSafe == Spec => [](TypeOK /\ Safe)
BY InitSafe, StepSafe, PTL DEF Spec

(* Every variable keeps to its values. *)
THEOREM TypeCorrect == Spec => []TypeOK
BY AlwaysSafe, PTL

(* The queue lists the waiting jobs, each once: the 409 branch of a cancel  *)
(* and the worker's `continue` branches are dead code.                      *)
THEOREM QueueExact == Spec => []QueueIsExact
<1>1. Safe => QueueIsExact
  BY DEF Safe
<1> QED
  BY <1>1, AlwaysSafe, PTL

(* No purge_expired_jobs drops a job that waits or runs. *)
THEOREM LiveJobKept == Spec => []LiveJobIsKept
<1>1. Safe => LiveJobIsKept
  BY DEF Safe
<1> QED
  BY <1>1, AlwaysSafe, PTL

(* max_pending_jobs holds at every moment, though it is tested after a      *)
(* purge of the handler's own.                                              *)
THEOREM LimitHolds == Spec => []QueueIsBounded
<1>1. Safe => QueueIsBounded
  BY DEF Safe, Bounded
<1> QED
  BY <1>1, AlwaysSafe, PTL

(* A cancellation of a running job, answered 202, decides how it ends. *)
THEOREM CancellationDecides == Spec => []CancelDecides
<1>1. Safe => CancelDecides
  BY DEF Safe, EndsAreTrue, CancelDecides, Terminal
<1> QED
  BY <1>1, AlwaysSafe, PTL

-----------------------------------------------------------------------------
(* JobManager implements JobLifecycle.                                      *)

LEMMA RecordType ==
    ASSUME TypeOK
    PROVE  /\ \A j \in Jobs : /\ Record[j] = "known" <=> table[j] = "live"
                              /\ Record[j] = "unknown" <=> table[j] = "absent"
                              /\ Record[j] = "expired" <=> table[j] = "expired"
           /\ Record \in [Jobs -> {"unknown", "known", "expired"}]
<1>1. ASSUME NEW j \in Jobs
      PROVE  \/ table[j] = "live" /\ Record[j] = "known"
             \/ table[j] = "absent" /\ Record[j] = "unknown"
             \/ table[j] = "expired" /\ Record[j] = "expired"
  BY DEF Record, TypeOK
<1>2. \E F \in {Record} : F = [j \in Jobs |-> F[j]]
  BY DEF Record
<1> QED
  BY <1>1, <1>2

(* A record that a purge drops is that of an ended job. *)
LEMMA RecordsAge ==
    ASSUME TypeOK, TypeOK', Safe, NEW j \in Jobs,
           table'[j] \in {table[j], PurgedTable[j]}
    PROVE  Record'[j] \in Contract!Aged(j)
<1>1. CASE table'[j] = table[j]
  <2>1. Record'[j] = Record[j]
    BY <1>1 DEF Record, TypeOK
  <2>2. Record[j] \in {"unknown", "known", "expired"}
    BY RecordType
  <2> QED
    BY <2>1, <2>2 DEF Contract!Aged
<1>2. CASE table'[j] # table[j]
  <2>1. \/ table[j] = "expired" /\ table'[j] = "absent"
        \/ table[j] = "live" /\ table'[j] = "expired" /\ age[j] = "old"
    BY <1>2 DEF PurgedTable, Overdue
  <2>2. CASE table[j] = "expired" /\ table'[j] = "absent"
    <3>1. Record[j] = "expired" /\ Record'[j] = "unknown"
      BY <2>2 DEF Record
    <3> QED
      BY <3>1 DEF Contract!Aged
  <2>3. CASE table[j] = "live" /\ table'[j] = "expired" /\ age[j] = "old"
    <3>1. Record[j] = "known" /\ Record'[j] = "expired"
      BY <2>3 DEF Record
    <3>2. Outcome[j] # "none"
      BY <2>3 DEF Safe, AgesAreTrue, Outcome, Terminal
    <3> QED
      BY <3>1, <3>2 DEF Contract!Aged
  <2> QED
    BY <2>1, <2>2, <2>3
<1> QED
  BY <1>1, <1>2

(* The API's limit is on the jobs that wait and the one that runs. *)
LEMMA PendingCounts ==
    ASSUME TypeOK, Safe
    PROVE  Cardinality(Pending) = Contract!Unended
<1>1. Pending = ToSet(queue) \cup ActiveJobs /\ ToSet(queue) \cap ActiveJobs = {}
  BY DEF Safe, QueueIsExact, LiveJobIsKept, Pending, ActiveJobs
<1>2. IsFiniteSet(ToSet(queue)) /\ Len(queue) \in Nat
      /\ Cardinality(ToSet(queue)) = Len(queue)
  BY QueueLength DEF TypeOK, Safe, QueueIsExact
<1>3. IsFiniteSet(ActiveJobs) /\ Cardinality(ActiveJobs) \in Nat
  <2>1. ActiveJobs \in SUBSET Pending
    BY DEF ActiveJobs, Pending
  <2> QED
    BY <2>1, FS_Subset, FS_CardinalityType DEF Safe, Bounded
<1>4. Cardinality(Pending) = Cardinality(ToSet(queue)) + Cardinality(ActiveJobs)
                               - Cardinality(ToSet(queue) \cap ActiveJobs)
  BY <1>1, <1>2, <1>3, FS_Union
<1>5. Cardinality(ToSet(queue) \cap ActiveJobs) = 0
  BY <1>1, FS_EmptySet
<1>6. Cardinality(ActiveJobs) = IF ActiveJobs = {} THEN 0 ELSE 1
  <2>1. ActiveJobs = {} \/ ActiveJobs = {current}
    BY DEF Safe, LiveJobIsKept, ActiveJobs
  <2> QED
    BY <2>1, FS_EmptySet, FS_Singleton
<1>7. Cardinality(Pending) = Len(queue) + IF ActiveJobs = {} THEN 0 ELSE 1
  BY <1>2, <1>3, <1>4, <1>5, <1>6
<1> QED
  BY <1>7 DEF Contract!Unended

LEMMA InitRefines == Init => Contract!Init
<1> SUFFICES ASSUME Init PROVE Contract!Init
  OBVIOUS
<1>1. ActiveJobs = {}
  BY DEF Init, ActiveJobs
<1>2. Outcome = [j \in Jobs |-> "none"]
  BY DEF Init, Outcome, Terminal
<1>3. Record = [j \in Jobs |-> "unknown"]
  BY DEF Init, Record
<1> QED
  BY <1>1, <1>2, <1>3 DEF Init, Contract!Init

(* Polls, reads, cancels of the running job, wakes and moves are tidying. *)
LEMMA QuietRefines ==
    ASSUME TypeOK, TypeOK', Safe, Safe', Quiet
    PROVE  Contract!Tidy
<1>1. status' = status /\ queue' = queue
      /\ \A j \in Jobs : table'[j] \in {table[j], PurgedTable[j]}
  BY DEF Quiet, Purge, Age
<1>2. Outcome' = Outcome
  BY <1>1 DEF Outcome
<1>3. ActiveJobs' = ActiveJobs
  BY <1>1 DEF Safe, LiveJobIsKept, ActiveJobs
<1> QED
  BY <1>1, <1>2, <1>3, RecordsAge DEF Contract!Tidy, Contract!KeepRecords

LEMMA SubmitRefines ==
    ASSUME TypeOK, TypeOK', Safe, Safe', NEW j \in Jobs, Submit(j)
    PROVE  Contract!Accept(j)
<1>1. /\ status[j] = "unsubmitted" /\ Room
      /\ status' = [status EXCEPT ![j] = "queued"]
      /\ table' = [PurgedTable EXCEPT ![j] = "live"]
      /\ queue' = Append(queue, j)
  BY DEF Submit, Accept
<1>2. Record[j] = "unknown" /\ Outcome[j] = "none"
  <2>1. table[j] = "absent"
    BY <1>1 DEF Safe, Unlisted
  <2> QED
    BY <1>1, <2>1 DEF Record, Outcome, Terminal
<1>3. Contract!Unended < MaxPending
  <2>1. \A k \in Pending : PurgedTable[k] = "live"
    BY PurgeSpares DEF Pending, Safe, AgesAreTrue, Terminal
  <2>2. {k \in Pending : PurgedTable[k] = "live"} = Pending
    BY <2>1
  <2> QED
    BY <1>1, <2>2, PendingCounts DEF Room
<1>4. Record'[j] = "known"
  BY <1>1, PurgeSpares DEF Record
<1>5. \A k \in Jobs \ {j} : Record'[k] \in Contract!Aged(k)
  BY <1>1, RecordsAge, PurgeSpares
<1>6. Outcome' = Outcome
  BY <1>1 DEF Outcome, Terminal, TypeOK
<1>7. ActiveJobs' = ActiveJobs
  BY <1>1 DEF Safe, LiveJobIsKept, ActiveJobs, TypeOK
<1> QED
  BY <1>1, <1>2, <1>3, <1>4, <1>5, <1>6, <1>7
  DEF Contract!Accept, Contract!KeepRecords

LEMMA TakeRefines ==
    ASSUME TypeOK, TypeOK', Safe, Safe', TakeJob
    PROVE  Contract!Start
<1> DEFINE j == Head(queue)
<1>1. /\ j \in Jobs /\ status[j] = "queued"
      /\ status' = [status EXCEPT ![j] = "generating"]
      /\ current' = j
  BY TakenHead
<1>2. /\ wpc = "checking" /\ queue # <<>> /\ queue' = Tail(queue)
      /\ table' = PurgedTable
  BY DEF TakeJob, Purge
<1>3. ActiveJobs = {}
  BY <1>2, JobManagerAssumption
  DEF Safe, WorkerHolds, LiveJobIsKept, ActiveJobs
<1>4. ActiveJobs' = {j}
  BY <1>1 DEF Safe, LiveJobIsKept, ActiveJobs, TypeOK
<1>5. Outcome' = Outcome
  BY <1>1 DEF Outcome, Terminal, TypeOK
<1>6. \A k \in Jobs : Record'[k] \in Contract!Aged(k)
  BY <1>2, RecordsAge
<1> QED
  BY <1>2, <1>3, <1>4, <1>5, <1>6 DEF Contract!Start, Contract!KeepRecords

LEMMA MarkRefines ==
    ASSUME TypeOK, TypeOK', Safe, Safe', Mark
    PROVE  Contract!End
<1>1. /\ current \in Jobs /\ status[current] = "generating"
      /\ table[current] = "live"
  <2>1. wpc \in {"rendering", "succeeded", "failed"}
    BY DEF Mark
  <2> QED
    BY <2>1 DEF Safe, WorkerHolds, LiveJobIsKept
<1>2. table' = table /\ queue' = queue
  BY DEF Mark
<1>3. PICK o \in Terminal : status' = [status EXCEPT ![current] = o]
  BY <1>1 DEF Mark, Terminal
<1>4. current \in ActiveJobs /\ ActiveJobs' = ActiveJobs \ {current}
  BY <1>1, <1>2, <1>3 DEF ActiveJobs, Terminal, TypeOK
<1>5. Outcome' = [Outcome EXCEPT ![current] = o]
  BY <1>1, <1>3 DEF Outcome, TypeOK
<1>6. \A k \in Jobs : Record'[k] \in Contract!Aged(k)
  BY <1>2, RecordsAge
<1> QED
  BY <1>2, <1>4, <1>5, <1>6
  DEF Contract!End, Contract!KeepRecords, Contract!Outcomes, Terminal

LEMMA CancelQueuedRefines ==
    ASSUME TypeOK, TypeOK', Safe, Safe', NEW j \in Jobs, CancelQueued(j)
    PROVE  Contract!Withdraw
<1>1. j \in ToSet(queue)
  BY DEF CancelQueued, Safe, QueueIsExact
<1>2. PICK n \in DOMAIN queue : queue[n] = j /\ queue' = RemoveAt(queue, n)
  BY <1>1 DEF CancelQueued
<1>3. /\ status[j] = "queued"
      /\ status' = [status EXCEPT ![j] = "cancelled"]
      /\ table' = PurgedTable
  BY <1>1 DEF CancelQueued
<1>4. Outcome' = [Outcome EXCEPT ![j] = "cancelled"]
  BY <1>3 DEF Outcome, Terminal, TypeOK
<1>5. ActiveJobs' = ActiveJobs
  BY <1>3 DEF Safe, LiveJobIsKept, ActiveJobs, TypeOK
<1>6. \A k \in Jobs : Record'[k] \in Contract!Aged(k)
  BY <1>3, RecordsAge
<1> QED
  BY <1>2, <1>4, <1>5, <1>6
  DEF Contract!Withdraw, Contract!KeepRecords, Contract!RemoveAt, RemoveAt

LEMMA ReleaseRefines ==
    ASSUME TypeOK, TypeOK', Safe, Safe', NEW force \in BOOLEAN, ReleaseQueue(force)
    PROVE  Contract!WithdrawAll \/ Contract!Tidy
<1>1. {j \in ToSet(queue) : table[j] = "live"} = ToSet(queue)
  BY DEF Safe, QueueIsExact, LiveJobIsKept
<1>2. /\ status' = [j \in Jobs |-> IF j \in ToSet(queue) THEN "cancelled"
                                                         ELSE status[j]]
      /\ queue' = <<>> /\ table' = table
  BY <1>1 DEF ReleaseQueue
<1>3. Outcome' = [j \in Jobs |-> IF j \in ToSet(queue) THEN "cancelled"
                                                       ELSE Outcome[j]]
  BY <1>2 DEF Outcome, Terminal
<1>4. ActiveJobs' = ActiveJobs
  BY <1>2 DEF Safe, QueueIsExact, ActiveJobs
<1>5. \A k \in Jobs : Record'[k] \in Contract!Aged(k)
  BY <1>2, RecordsAge
<1>6. CASE queue # <<>>
  BY <1>2, <1>3, <1>4, <1>5, <1>6
  DEF Contract!WithdrawAll, Contract!KeepRecords, Contract!ToSet, ToSet
<1>7. CASE queue = <<>>
  <2>1. ToSet(queue) = {}
    BY <1>7 DEF ToSet
  <2>2. Outcome' = Outcome
    BY <1>3, <2>1 DEF Outcome
  <2> QED
    BY <1>2, <1>4, <1>5, <1>7, <2>2 DEF Contract!Tidy, Contract!KeepRecords
<1> QED
  BY <1>6, <1>7

LEMMA StepRefines ==
    ASSUME TypeOK, TypeOK', Safe, Safe', [Next]_vars
    PROVE  [Contract!Next]_Contract!vars
<1> USE DEF tableVars, workerVars, readerVars
<1>0. Record' \in [Jobs -> {"unknown", "known", "expired"}]
  BY RecordType DEF Record, TypeOK
<1>1. CASE TakeJob
  BY <1>0, <1>1, TakeRefines DEF Contract!Next
<1>2. CASE Mark
  BY <1>0, <1>2, MarkRefines DEF Contract!Next
<1>3. ASSUME NEW j \in Jobs, Submit(j) PROVE Contract!Next
  BY <1>0, <1>3, SubmitRefines DEF Contract!Next
<1>4. ASSUME NEW j \in Jobs, CancelQueued(j) PROVE Contract!Next
  BY <1>0, <1>4, CancelQueuedRefines DEF Contract!Next
<1>5. ASSUME NEW force \in BOOLEAN, ReleaseQueue(force) PROVE Contract!Next
  BY <1>0, <1>5, ReleaseRefines DEF Contract!Next
<1>6. ASSUME Quiet PROVE Contract!Next
  BY <1>0, <1>6, QuietRefines DEF Contract!Next
<1>7. CASE UNCHANGED vars
  <2>1. Quiet
    BY <1>7 DEF vars, Quiet
  <2> QED
    BY <2>1, <1>6
<1>8. CASE Sleep \/ Exit \/ Store \/ Notify \/ Poll \/ Stop
  <2>1. Quiet
    BY <1>8 DEF Sleep, Exit, Store, Notify, Poll, Stop, Quiet
  <2> QED
    BY <2>1, <1>6
<1>9. ASSUME NEW outcome, RenderEnds(outcome) PROVE Contract!Next
  <2>1. Quiet
    BY <1>9 DEF RenderEnds, Quiet
  <2> QED
    BY <2>1, <1>6
<1>10. CASE \/ \E j \in Jobs : CancelRunning(j) \/ Age(j)
            \/ \E r \in Readers : ReadStatus(r) \/ ReadResult(r)
            \/ \E r \in Readers, j \in Jobs : TakeReference(r, j)
  <2>1. Quiet
    BY <1>10
    DEF CancelRunning, Age, ReadStatus, ReadResult, TakeReference, Quiet
  <2> QED
    BY <2>1, <1>6
<1> QED
  BY <1>1, <1>2, <1>3, <1>4, <1>5, <1>6, <1>7, <1>8, <1>9, <1>10
  DEF Next, Worker, Handlers, Terminated

(* The threads, the queue and the table together do what the API promises:  *)
(* one job at a time in the order of acceptance, one end per job, and only  *)
(* the records of ended jobs are dropped.                                   *)
THEOREM Refinement == Spec => ImplementsLifecycle
<1>1. TypeOK /\ TypeOK' /\ Safe /\ Safe' /\ [Next]_vars
        => [Contract!Next]_Contract!vars
  BY StepRefines
<1> QED
  BY <1>1, AlwaysSafe, InitRefines, PTL
  DEF Spec, ImplementsLifecycle, Contract!Spec
=============================================================================

--------------------------- MODULE LatentBankProofs ---------------------------
(***************************************************************************)
(* Proofs about LatentBank: for any number of jobs and shots, whatever is   *)
(* asked, fails or dies, takes survive, a bank records its clip, sidecars   *)
(* match their latent, an accepted job finds what it resumes from, and the  *)
(* previews it lists are out.                                               *)
(*                                                                         *)
(* `Typed` is inductive without any assumption. `Takes`, which carries the  *)
(* first four, is inductive while every fork so far has worked (ForkHeld):  *)
(* at the heart of it, an inode is only written by the job that made it,    *)
(* and a bank that is not `rushed` shares it only once that job has ended.  *)
(* `Shown` carries the last one and needs neither.                          *)
(***************************************************************************)
EXTENDS LatentBank, SequenceTheorems, TLAPS

(* Names, and that each name of each bank has an inode of its own to open.  *)

LEMMA NameType ==
    ASSUME NEW s \in Shot, NEW k \in Kinds
    PROVE  <<s, k>> \in Names /\ <<s, k>>[1] = s /\ <<s, k>>[2] = k
BY DEF Names

LEMMA InodeIsOne ==
    ASSUME NEW b \in Jobs, NEW n \in Names
    PROVE  /\ Inode(b, n) \in Inodes /\ Inode(b, n) # NoFile
           /\ \A c \in Jobs, m \in Names : Inode(b, n) = Inode(c, m) => b = c /\ n = m
<1>1. /\ n[1] \in Shot /\ n[2] \in Kinds /\ n = <<n[1], n[2]>>
      /\ \A m \in Names : m = <<m[1], m[2]>>
  BY DEF Names
<1>2. b # 0
  BY LatentBankAssumption DEF Jobs
<1> QED
  BY <1>1, <1>2 DEF Inode, Inodes, NoFile

LEMMA InitType == Init => TypeOK
<1> SUFFICES ASSUME Init PROVE TypeOK
  OBVIOUS
<1>1. queue \in Seq(Jobs) /\ IsInjective(queue)
  BY EmptySeq DEF Init, IsInjective
<1>2. 0 \in Shot /\ MaxJobs \in Nat /\ Torn \in Nat /\ Shots \in 0..Shots
  BY LatentBankAssumption DEF Shot, Torn
<1>3. /\ made \in 0..MaxJobs
      /\ status \in [Jobs -> {"new", "queued", "generating"} \cup Ended]
      /\ {out, points} \subseteq [Jobs -> Jobs \cup {None}]
      /\ {first, last} \subseteq [Jobs -> Shot]
      /\ pick \in [Jobs -> [Shot -> Jobs \cup {None}]]
  BY <1>2 DEF Init
<1>4. /\ dir \in [Jobs -> [Names -> Inodes \cup {NoFile}]]
      /\ data \in [Inodes -> 0..Torn]
  BY <1>2 DEF Init, Empty, None
<1>5. /\ cur \in Jobs \cup {None} /\ at \in 0..Shots
      /\ step \in {"idle", "restore", "sample", "save", "preview", "side",
                   "finish", "fail"}
      /\ {slot, busy} \subseteq 0..Shots
      /\ del \in Jobs \cup {None}
      /\ faults \in 0..MaxFaults
      /\ skipped \subseteq Shot /\ rushed \subseteq Jobs
  BY <1>2, LatentBankAssumption DEF Init, NoShot
<1>6. clip \in [Jobs -> [Shot -> [{"bin", "side"} -> 0..MaxJobs]]]
  BY <1>2 DEF Init, NoClip, NoTake, None
<1> QED
  BY <1>1, <1>3, <1>4, <1>5, <1>6 DEF TypeOK

-----------------------------------------------------------------------------
(* Jobs are numbered as they are made, and what is not made has nothing.    *)
MadeInOrder ==
    \A j \in Jobs :
       /\ status[j] = "new" <=> j > made
       /\ status[j] = "new" <=> out[j] = None
       /\ status[j] = "new" => points[j] = None /\ dir[j] = Empty

(* The queue lists jobs that wait.                                          *)
QueueWaits == \A i \in 1..Len(queue) : status[queue[i]] = "queued"

(* The worker is at a shot of the one job that renders.                     *)
WorkerAt ==
    /\ \A j \in Jobs : status[j] = "generating" <=> j = cur
    /\ cur = None <=> step = "idle"
    /\ step = "restore" => at \in Shot \ Sampled(cur)
    /\ step \in {"sample", "save", "preview", "side"} => at \in Sampled(cur)
    /\ step = "finish" => at = Shots

(* The preview thread has shots that this job samples.                      *)
WriterAt ==
    \A s \in {slot, busy} : s # NoShot => cur # None /\ s \in Sampled(cur)

(* What is about to be deleted belongs to a job that has ended.             *)
DeletesEnded == del # None => status[del] \in Ended

Order == MadeInOrder /\ QueueWaits /\ WorkerAt /\ WriterAt /\ DeletesEnded

(* A name leads to an inode of its own shot and kind; a sidecar is written  *)
(* in one go.                                                               *)
Homed ==
    /\ \A b \in Jobs, n \in Names :
          dir[b][n] # NoFile => \E c \in Jobs : dir[b][n] = Inode(c, n)
    /\ \A c \in Jobs, s \in Shot : data[Inode(c, <<s, "side">>)] # Torn

LEMMA InitOrder == Init => Order
<1> SUFFICES ASSUME Init PROVE Order
  OBVIOUS
<1>1. MadeInOrder
  BY DEF Init, MadeInOrder, Jobs
<1>2. QueueWaits
  BY DEF Init, QueueWaits
<1>3. WorkerAt /\ WriterAt /\ DeletesEnded
  BY DEF Init, WorkerAt, WriterAt, DeletesEnded, Jobs, None
<1> QED
  BY <1>1, <1>2, <1>3 DEF Order

LEMMA SampledType ==
    ASSUME TypeOK, NEW j \in Jobs PROVE Sampled(j) \subseteq Shot
<1>1. first[j] \in Shot /\ last[j] \in Shot
  BY DEF TypeOK
<1> QED
  BY <1>1, LatentBankAssumption DEF Sampled, Shot

(* Where a job goes on to.                                                  *)
LEMMA EntryType ==
    ASSUME TypeOK, NEW j \in Jobs, NEW s \in 0..Shots
    PROVE  /\ Entry(j, s) \in {"finish", "sample", "restore"}
           /\ Entry(j, s) = "finish" <=> s = Shots
           /\ Entry(j, s) = "sample" => s \in Sampled(j)
           /\ Entry(j, s) = "restore" => s \in Shot \ Sampled(j)
<1>1. Shots \notin Sampled(j) /\ (s # Shots => s \in Shot)
  BY SampledType, LatentBankAssumption DEF Shot
<1> QED
  BY <1>1 DEF Entry

-----------------------------------------------------------------------------
(* A queue that lists each job once, after each of its changes.             *)
LEMMA QueueGrows ==
    ASSUME TypeOK, QueueWaits, NEW j \in Jobs, status[j] = "new",
           queue' = Append(queue, j)
    PROVE  /\ queue' \in Seq(Jobs) /\ IsInjective(queue')
           /\ Len(queue') = Len(queue) + 1 /\ Len(queue) \in Nat
           /\ queue'[Len(queue) + 1] = j
           /\ \A i \in 1..Len(queue) : queue'[i] = queue[i]
<1>1. /\ queue' \in Seq(Jobs) /\ Len(queue') = Len(queue) + 1 /\ Len(queue) \in Nat
      /\ \A i \in 1..Len(queue) : queue'[i] = queue[i]
      /\ queue'[Len(queue) + 1] = j
  BY AppendProperties, LenProperties DEF TypeOK
<1>2. DOMAIN queue = 1..Len(queue) /\ DOMAIN queue' = 1..(Len(queue) + 1)
  BY <1>1, LenProperties DEF TypeOK
<1>3. \A i \in 1..Len(queue) : queue[i] # j
  BY DEF QueueWaits
<1>4. \A i, k \in 1..Len(queue) : queue[i] = queue[k] => i = k
  BY <1>2 DEF TypeOK, IsInjective
<1>5. IsInjective(queue')
  <2> SUFFICES ASSUME NEW i \in 1..(Len(queue) + 1), NEW k \in 1..(Len(queue) + 1),
                      queue'[i] = queue'[k]
               PROVE  i = k
    BY <1>2 DEF IsInjective
  <2>1. CASE i \in 1..Len(queue) /\ k \in 1..Len(queue)
    BY <1>1, <1>4, <2>1
  <2>2. CASE i = Len(queue) + 1 \/ k = Len(queue) + 1
    BY <1>1, <1>3, <2>2
  <2> QED
    BY <1>1, <2>1, <2>2
<1> QED
  BY <1>1, <1>5

LEMMA QueueMoves ==
    ASSUME TypeOK, queue # <<>>, queue' = Tail(queue)
    PROVE  /\ queue' \in Seq(Jobs) /\ IsInjective(queue')
           /\ Head(queue) \in Jobs /\ 1 \in 1..Len(queue) /\ Head(queue) = queue[1]
           /\ \A i \in 1..Len(queue') : /\ i + 1 \in 1..Len(queue)
                                        /\ queue'[i] = queue[i + 1]
                                        /\ queue'[i] # Head(queue)
<1>1. /\ queue' \in Seq(Jobs) /\ Len(queue') = Len(queue) - 1
      /\ Head(queue) \in Jobs
      /\ \A i \in 1..Len(queue') : queue'[i] = queue[i + 1]
  BY HeadTailProperties DEF TypeOK
<1>2. /\ Len(queue) \in Nat \ {0} /\ DOMAIN queue = 1..Len(queue)
      /\ DOMAIN queue' = 1..Len(queue')
  BY <1>1, LenProperties, EmptySeq DEF TypeOK
<1>3. Head(queue) = queue[1]
  BY <1>2
<1>4. \A i, k \in 1..Len(queue) : queue[i] = queue[k] => i = k
  BY <1>2 DEF TypeOK, IsInjective
<1>5. ASSUME NEW i \in 1..Len(queue')
      PROVE  i + 1 \in 1..Len(queue) /\ queue'[i] = queue[i + 1] /\ queue'[i] # queue[1]
  <2>1. i + 1 \in 1..Len(queue) /\ 1 \in 1..Len(queue) /\ i + 1 # 1
    BY <1>1, <1>2
  <2> QED
    BY <1>1, <1>4, <2>1
<1>6. IsInjective(queue')
  <2> SUFFICES ASSUME NEW i \in 1..Len(queue'), NEW k \in 1..Len(queue'),
                      queue'[i] = queue'[k]
               PROVE  i = k
    BY <1>2 DEF IsInjective
  <2>1. i + 1 = k + 1
    BY <1>4, <1>5
  <2> QED
    BY <1>1, <1>2, <2>1
<1>7. 1 \in 1..Len(queue)
  BY <1>2
<1> QED
  BY <1>1, <1>3, <1>5, <1>6, <1>7

LEMMA QueueLoses ==
    ASSUME TypeOK, NEW d \in DOMAIN queue, queue' = RemoveAt(queue, d)
    PROVE  /\ queue' \in Seq(Jobs) /\ IsInjective(queue')
           /\ \A i \in 1..Len(queue') : \E k \in 1..Len(queue) :
                 k # d /\ queue'[i] = queue[k]
           /\ queue[d] \in Jobs
           /\ \A k \in 1..Len(queue) : k # d => queue[k] # queue[d]
<1> DEFINE up(i) == IF i < d THEN i ELSE i + 1
<1>1. Len(queue) \in Nat /\ DOMAIN queue = 1..Len(queue) /\ d \in 1..Len(queue)
  BY LenProperties DEF TypeOK
<1>2. \A i \in 1..(Len(queue) - 1) : up(i) \in 1..Len(queue) /\ up(i) # d
  BY <1>1
<1>3. \A i \in 1..Len(queue) : queue[i] \in Jobs
  BY <1>1, ElementOfSeq DEF TypeOK
<1> DEFINE l == SubSeq(queue, 1, d - 1)
           r == SubSeq(queue, d + 1, Len(queue))
<1>4. l \in Seq(Jobs) /\ Len(l) = d - 1 /\ \A i \in 1..(d - 1) : l[i] = queue[i]
  BY <1>1, <1>3, SubSeqProperties
<1>5. /\ r \in Seq(Jobs) /\ Len(r) = Len(queue) - d
      /\ \A i \in 1..(Len(queue) - d) : r[i] = queue[d + i]
  BY <1>1, <1>3, SubSeqProperties
<1>q. queue' = l \o r
  BY DEF RemoveAt
<1> HIDE DEF l, r
<1>6. /\ queue' \in Seq(Jobs) /\ Len(queue') = Len(queue) - 1
      /\ \A i \in 1..Len(queue') : queue'[i] = queue[up(i)]
  <2>1. /\ queue' \in Seq(Jobs) /\ Len(queue') = Len(l) + Len(r)
        /\ \A i \in 1..(Len(l) + Len(r)) :
             queue'[i] = IF i <= Len(l) THEN l[i] ELSE r[i - Len(l)]
    <3>1. l \in Seq(Jobs) /\ r \in Seq(Jobs)
      BY <1>4, <1>5
    <3>2. /\ (l \o r) \in Seq(Jobs) /\ Len(l \o r) = Len(l) + Len(r)
          /\ \A i \in 1..(Len(l) + Len(r)) :
               (l \o r)[i] = IF i <= Len(l) THEN l[i] ELSE r[i - Len(l)]
      BY <3>1, ConcatProperties
    <3> QED
      BY <1>q, <3>2
  <2>2. ASSUME NEW i \in 1..(Len(queue) - 1) PROVE queue'[i] = queue[up(i)]
    <3>1. CASE i < d
      BY <1>1, <1>4, <1>5, <2>1, <3>1
    <3>2. CASE ~(i < d)
      <4>1. /\ i - (d - 1) \in 1..(Len(queue) - d)
            /\ d + (i - (d - 1)) = i + 1
        BY <1>1, <3>2
      <4>2. i \in 1..(Len(l) + Len(r)) /\ ~(i <= Len(l)) /\ Len(l) = d - 1
        BY <1>1, <1>4, <1>5, <3>2
      <4>5. queue'[i] = r[i - Len(l)]
        BY <2>1, <4>2
      <4>3. r[i - (d - 1)] = queue[d + (i - (d - 1))]
        BY <1>5, <4>1
      <4> QED
        BY <3>2, <4>1, <4>2, <4>3, <4>5
    <3> QED
      BY <3>1, <3>2
  <2>3. Len(queue') = Len(queue) - 1
    BY <1>1, <1>4, <1>5, <2>1
  <2> HIDE DEF up
  <2> QED
    BY <2>1, <2>2, <2>3
<1>7. \A i, k \in 1..Len(queue) : queue[i] = queue[k] => i = k
  BY <1>1 DEF TypeOK, IsInjective
<1>8. IsInjective(queue')
  <2>1. DOMAIN queue' = 1..Len(queue')
    BY <1>6, LenProperties
  <2> SUFFICES ASSUME NEW i \in 1..Len(queue'), NEW k \in 1..Len(queue'),
                      queue'[i] = queue'[k]
               PROVE  i = k
    BY <2>1 DEF IsInjective
  <2>2. up(i) = up(k)
    BY <1>1, <1>2, <1>6, <1>7
  <2> QED
    BY <1>1, <1>6, <2>2
<1> QED
  BY <1>1, <1>2, <1>3, <1>6, <1>7, <1>8

-----------------------------------------------------------------------------
(* The job that renders, and what it writes to.                             *)
LEMMA Working ==
    ASSUME TypeOK, Order, step # "idle"
    PROVE  /\ cur \in Jobs /\ status[cur] = "generating"
           /\ out[cur] \in Jobs /\ Sampled(cur) \subseteq Shot
           /\ step \notin {"fail", "finish"} => at \in Shot /\ at + 1 \in 0..Shots
<1>1. cur \in Jobs /\ status[cur] = "generating"
  BY DEF TypeOK, Order, WorkerAt
<1>2. out[cur] \in Jobs
  BY <1>1 DEF TypeOK, Order, MadeInOrder
<1>3. Sampled(cur) \subseteq Shot
  BY <1>1, SampledType
<1>4. ASSUME step \notin {"fail", "finish"} PROVE at \in Shot
  BY <1>3, <1>4 DEF Order, WorkerAt, TypeOK
<1>5. \A s \in Shot : s + 1 \in 0..Shots
  BY LatentBankAssumption DEF Shot
<1> QED
  BY <1>1, <1>2, <1>3, <1>4, <1>5

LEMMA OpenedType ==
    ASSUME TypeOK, NEW b \in Jobs, NEW n \in Names
    PROVE  Opened(b, n) \in Inodes
BY InodeIsOne DEF Opened, TypeOK

(* A write of one name of one bank, and of one inode.                       *)
LEMMA WriteType ==
    ASSUME TypeOK, NEW b \in Jobs, NEW n \in Names, NEW i \in Inodes, NEW v \in 0..Torn,
           dir' = [dir EXCEPT ![b][n] = i], data' = [data EXCEPT ![i] = v]
    PROVE  /\ dir' \in [Jobs -> [Names -> Inodes \cup {NoFile}]]
           /\ data' \in [Inodes -> 0..Torn]
BY DEF TypeOK

LEMMA TornType == MaxJobs \in Nat /\ Torn \in 0..Torn /\ Jobs \subseteq 0..Torn
                  /\ Jobs \subseteq 0..MaxJobs /\ 0 \in 0..MaxJobs /\ Torn \notin Jobs
                  /\ None \notin Jobs /\ NoShot \in 0..Shots /\ Shot \subseteq 0..Shots
                  /\ NoShot \notin Shot
BY LatentBankAssumption DEF Torn, Jobs, None, NoShot, Shot

(* What is not made stays untouched.                                        *)
LEMMA SameJobs ==
    ASSUME MadeInOrder, UNCHANGED <<made, out>>,
           \A j \in Jobs : /\ status'[j] = "new" <=> status[j] = "new"
                           /\ status[j] = "new" => /\ points'[j] = points[j]
                                                   /\ dir'[j] = dir[j]
    PROVE  MadeInOrder'
BY DEF MadeInOrder, Empty

(* A write to a bank that a job owns.                                       *)
LEMMA WritesOwned ==
    ASSUME TypeOK, Order, UNCHANGED <<made, out, status, points>>,
           NEW b \in Jobs, Present(b),
           \A c \in Jobs : c # b => dir'[c] = dir[c]
    PROVE  MadeInOrder'
<1>1. status[b] # "new"
  BY TornType DEF Order, MadeInOrder, Present
<1> QED
  BY <1>1, SameJobs DEF Order
-----------------------------------------------------------------------------
(* One lemma per operation: types and order are kept.                       *)
LEMMA FaultType == ASSUME TypeOK, Fault PROVE faults' \in 0..MaxFaults
<1>1. faults \in 0..MaxFaults /\ MaxFaults \in Nat
  BY LatentBankAssumption DEF TypeOK
<1> QED
  BY <1>1 DEF Fault

LEMMA EnqueueOrder ==
    ASSUME TypeOK, Order, NEW j \in Jobs, j = made + 1, NEW lo \in Shot, NEW hi \in Shot,
           NEW p \in [Shot -> Jobs \cup {None}], NEW bank \in Jobs,
           Enqueue(j, lo, hi, p, bank), NEW links \in [Names -> Inodes \cup {NoFile}],
           dir' = dir \/ dir' = [dir EXCEPT ![j] = links],
           faults' \in 0..MaxFaults, rushed' \subseteq Jobs
    PROVE  TypeOK' /\ Order'
<1>0. made \in Nat /\ made' = j /\ Jobs \subseteq Nat
  BY TornType DEF Enqueue, TypeOK, Jobs
<1>1. status[j] = "new" /\ out[j] = None /\ points[j] = None
  BY <1>0 DEF Order, MadeInOrder
<1>2. queue' = Append(queue, j)
  BY DEF Enqueue
<1>3. /\ queue' \in Seq(Jobs) /\ IsInjective(queue')
      /\ Len(queue') = Len(queue) + 1 /\ Len(queue) \in Nat
      /\ queue'[Len(queue) + 1] = j
      /\ \A i \in 1..Len(queue) : queue'[i] = queue[i]
  BY <1>1, <1>2, QueueGrows DEF Order
<1>4. /\ made' \in 0..MaxJobs
      /\ status' \in [Jobs -> {"new", "queued", "generating"} \cup Ended]
      /\ {out', points'} \subseteq [Jobs -> Jobs \cup {None}]
      /\ {first', last'} \subseteq [Jobs -> Shot]
      /\ pick' \in [Jobs -> [Shot -> Jobs \cup {None}]]
      /\ dir' \in [Jobs -> [Names -> Inodes \cup {NoFile}]]
  <2>1. made' \in 0..MaxJobs
    BY TornType DEF Enqueue
  <2>2. status' \in [Jobs -> {"new", "queued", "generating"} \cup Ended]
    BY DEF Enqueue, TypeOK
  <2>3. /\ {out', points'} \subseteq [Jobs -> Jobs \cup {None}]
        /\ {first', last'} \subseteq [Jobs -> Shot]
    <3>1. out' \in [Jobs -> Jobs \cup {None}] /\ points' \in [Jobs -> Jobs \cup {None}]
      BY DEF Enqueue, TypeOK
    <3>2. first' \in [Jobs -> Shot] /\ last' \in [Jobs -> Shot]
      BY DEF Enqueue, TypeOK
    <3> QED
      BY <3>1, <3>2
  <2>4. pick' \in [Jobs -> [Shot -> Jobs \cup {None}]]
    BY DEF Enqueue, TypeOK
  <2>5. dir' \in [Jobs -> [Names -> Inodes \cup {NoFile}]]
    <3>1. dir \in [Jobs -> [Names -> Inodes \cup {NoFile}]]
      BY DEF TypeOK
    <3>2. [dir EXCEPT ![j] = links] \in [Jobs -> [Names -> Inodes \cup {NoFile}]]
      BY <3>1
    <3> QED
      BY <3>1, <3>2
  <2> QED
    BY <2>1, <2>2, <2>3, <2>4, <2>5
<1>5. TypeOK'
  BY <1>3, <1>4 DEF Enqueue, TypeOK, writerVars, ghostVars
<1>6. MadeInOrder'
  <2> SUFFICES ASSUME NEW k \in Jobs
               PROVE  /\ status'[k] = "new" <=> k > made'
                      /\ status'[k] = "new" <=> out'[k] = None
                      /\ status'[k] = "new" => points'[k] = None /\ dir'[k] = Empty
    BY DEF MadeInOrder, Empty
  <2>1. CASE k = j
    <3>1. status'[k] = "queued" /\ out'[k] = bank /\ bank # None
      BY <2>1, TornType DEF Enqueue, TypeOK
    <3> QED
      BY <1>0, <2>1, <3>1
  <2>2. CASE k # j
    <3>1. /\ status'[k] = status[k] /\ out'[k] = out[k] /\ points'[k] = points[k]
          /\ dir'[k] = dir[k]
      BY <2>2 DEF Enqueue, TypeOK
    <3>2. k > made' <=> k > made
      BY <1>0, <2>2
    <3> QED
      BY <3>1, <3>2 DEF Order, MadeInOrder
  <2> QED
    BY <2>1, <2>2
<1>7. QueueWaits'
  <2> SUFFICES ASSUME NEW i \in 1..Len(queue') PROVE status'[queue'[i]] = "queued"
    BY DEF QueueWaits
  <2>1. CASE i \in 1..Len(queue)
    <3>1. queue'[i] = queue[i] /\ status[queue[i]] = "queued" /\ queue[i] # j
      BY <1>1, <1>3, <2>1 DEF Order, QueueWaits
    <3>2. \A k : k # j => status'[k] = status[k] \/ k \notin Jobs
      BY DEF Enqueue, TypeOK
    <3>3. queue[i] \in Jobs
      BY <2>1, ElementOfSeq DEF TypeOK
    <3> QED
      BY <3>1, <3>2, <3>3
  <2>2. CASE i = Len(queue) + 1
    BY <1>3, <2>2 DEF Enqueue, TypeOK
  <2> QED
    BY <1>3, <2>1, <2>2
<1>8. cur # j /\ del # j
  <2>1. cur # j
    BY <1>1 DEF Order, WorkerAt
  <2>2. del = j => status[j] \in Ended
    BY TornType DEF Order, DeletesEnded
  <2> QED
    BY <1>1, <2>1, <2>2 DEF Ended
<1>9. cur \in Jobs => Sampled(cur)' = Sampled(cur)
  BY <1>8 DEF Enqueue, Sampled, TypeOK
<1>10. WorkerAt'
  BY <1>1, <1>8, <1>9, Working DEF Enqueue, Order, WorkerAt, TypeOK
<1>11. WriterAt' /\ DeletesEnded'
  BY <1>8, <1>9 DEF Enqueue, Order, WriterAt, DeletesEnded, TypeOK, writerVars
<1> QED
  BY <1>5, <1>6, <1>7, <1>10, <1>11 DEF Order

LEMMA SubmitOrder == ASSUME TypeOK, Order, Submit PROVE TypeOK' /\ Order'
<1> DEFINE j == made + 1
           p == [s \in Shot |-> None]
<1>1. /\ j \in Jobs /\ p \in [Shot -> Jobs \cup {None}]
      /\ 0 \in Shot /\ Shots - 1 \in Shot
      /\ Enqueue(j, 0, Shots - 1, p, j) /\ dir' = dir /\ faults' \in 0..MaxFaults
      /\ rushed' \subseteq Jobs
  BY LatentBankAssumption DEF Submit, Shot, TypeOK
<1>2. Empty \in [Names -> Inodes \cup {NoFile}]
  BY DEF Empty
<1> HIDE DEF p
<1> QED
  BY <1>1, <1>2, EnqueueOrder

LEMMA ResolveType ==
    ASSUME TypeOK, NEW r \in Jobs, Resolve(r) # None
    PROVE  Resolve(r) \in Jobs /\ Present(Resolve(r)) /\ Resolve(r) = points[r]
BY DEF Resolve, TypeOK, Present

LEMMA PicksType ==
    ASSUME NEW lo, NEW hi, NEW p \in Picks(lo, hi)
    PROVE  p \in [Shot -> Jobs \cup {None}]
BY DEF Picks, Pickable

LEMMA ForkLinksType ==
    ASSUME TypeOK, NEW src \in Jobs, NEW lo, NEW hi,
           NEW p \in [Shot -> Jobs \cup {None}]
    PROVE  ForkLinks(src, lo, hi, p) \in [Names -> Inodes \cup {NoFile}]
<1>1. \A n \in Names : n[1] \in Shot
  BY DEF Names
<1>2. \A n \in Names : (IF p[n[1]] # None THEN p[n[1]] ELSE src) \in Jobs
  BY <1>1
<1>3. \A b \in Jobs, n \in Names : dir[b][n] \in Inodes \cup {NoFile}
  BY DEF TypeOK
<1> QED
  BY <1>2, <1>3 DEF ForkLinks

(* What a request may ask for.                                              *)
LEMMA Asked ==
    ASSUME TypeOK, NEW r \in Jobs, Resume(r) \/ \E s \in Shot : Retake(r, s)
    PROVE  /\ Resolve(r) \in Jobs /\ Present(Resolve(r))
           /\ status[r] \notin {"queued", "generating"}
           /\ \E lo, hi \in Shot : Reuse(r, lo, hi)
                                   /\ (lo # 0 => Banked(Resolve(r), lo - 1))
<1>1. /\ Resolve(r) \in Jobs /\ Present(Resolve(r))
      /\ status[r] \notin {"queued", "generating"}
  BY ResolveType DEF Resume, Retake, Resumable, Active
<1>2. CASE Resume(r)
  <2>1. PICK s \in 0..(Shots - 2) : Banked(Resolve(r), s) /\ Reuse(r, s + 1, Shots - 1)
    BY <1>2 DEF Resume
  <2>2. s + 1 \in Shot /\ Shots - 1 \in Shot /\ (s + 1) - 1 = s
    BY LatentBankAssumption DEF Shot
  <2> QED
    BY <1>1, <2>1, <2>2
<1>3. CASE \E s \in Shot : Retake(r, s)
  <2>1. PICK s \in Shot : Banked(Resolve(r), s) /\ Reuse(r, s, s)
    BY <1>3 DEF Retake
  <2>2. s # 0 => Banked(Resolve(r), s - 1)
    <3>1. 0..(s - 1) \subseteq 0..s
      BY LatentBankAssumption DEF Shot
    <3> QED
      BY <2>1, <3>1 DEF Banked
  <2> QED
    BY <1>1, <2>1, <2>2
<1> QED
  BY <1>2, <1>3

LEMMA ReuseOrder ==
    ASSUME TypeOK, Order, NEW r \in Jobs, Resolve(r) \in Jobs,
           NEW lo \in Shot, NEW hi \in Shot, Reuse(r, lo, hi)
    PROVE  TypeOK' /\ Order'
<1> DEFINE j == made + 1
           src == Resolve(r)
<1>1. j \in Jobs
  BY DEF Reuse
<1>2. PICK p \in Picks(lo, hi) :
          \/ /\ Enqueue(j, lo, hi, p, j)
             /\ dir' = [dir EXCEPT ![j] = ForkLinks(src, lo, hi, p)]
             /\ UNCHANGED faults
          \/ /\ Fault
             /\ Enqueue(j, lo, hi, p, src)
             /\ UNCHANGED dir
  BY DEF Reuse
<1>9. rushed' \subseteq Jobs
  <2>1. rushed' = rushed \/ rushed' = rushed \cup {j}
    BY DEF Reuse
  <2> QED
    BY <1>1, <2>1 DEF TypeOK
<1>3. p \in [Shot -> Jobs \cup {None}]
  BY PicksType
<1>4. ForkLinks(src, lo, hi, p) \in [Names -> Inodes \cup {NoFile}]
  BY <1>3, ForkLinksType
<1>5. faults' \in 0..MaxFaults
  <2>1. CASE UNCHANGED faults
    BY <2>1 DEF TypeOK
  <2>2. CASE Fault
    BY <2>2, FaultType
  <2> QED
    BY <1>2, <2>1, <2>2
<1>6. PICK bank \in Jobs : Enqueue(j, lo, hi, p, bank)
  BY <1>1, <1>2
<1>7. dir' = dir \/ dir' = [dir EXCEPT ![j] = ForkLinks(src, lo, hi, p)]
  BY <1>2
<1> HIDE DEF src, j
<1>8. j = made + 1
  BY DEF j
<1> QED
  BY <1>1, <1>3, <1>4, <1>5, <1>6, <1>7, <1>8, <1>9, EnqueueOrder
-----------------------------------------------------------------------------
LEMMA CancelQueuedOrder ==
    ASSUME TypeOK, Order, NEW j \in Jobs, CancelQueued(j) PROVE TypeOK' /\ Order'
<1>1. PICK d \in DOMAIN queue : queue[d] = j /\ queue' = RemoveAt(queue, d)
  BY DEF CancelQueued
<1>2. /\ queue' \in Seq(Jobs) /\ IsInjective(queue')
      /\ \A i \in 1..Len(queue') : \E k \in 1..Len(queue) :
            k # d /\ queue'[i] = queue[k]
      /\ \A k \in 1..Len(queue) : k # d => queue[k] # j
  BY <1>1, QueueLoses
<1>3. TypeOK'
  <2>1. faults' \in 0..MaxFaults
    BY FaultType DEF CancelQueued
  <2>2. status' \in [Jobs -> {"new", "queued", "generating"} \cup Ended]
    BY DEF CancelQueued, TypeOK, Ended
  <2> QED
    BY <1>2, <2>1, <2>2 DEF CancelQueued, TypeOK, diskVars, writerVars, ghostVars
<1>4. \A k \in Jobs : status'[k] = IF k = j THEN "failed" ELSE status[k]
  BY DEF CancelQueued, TypeOK
<1>5. status[j] = "queued" /\ UNCHANGED <<made, out, points, dir>>
  BY DEF CancelQueued, diskVars
<1>6. MadeInOrder'
  BY <1>4, <1>5, SameJobs DEF Order
<1>7. QueueWaits'
  <2> SUFFICES ASSUME NEW i \in 1..Len(queue') PROVE status'[queue'[i]] = "queued"
    BY DEF QueueWaits
  <2>1. PICK k \in 1..Len(queue) : queue'[i] = queue[k] /\ queue[k] # j
    BY <1>2
  <2>2. queue[k] \in Jobs /\ status[queue[k]] = "queued"
    BY ElementOfSeq DEF TypeOK, Order, QueueWaits
  <2> QED
    BY <1>4, <2>1, <2>2
<1>8. /\ cur # j /\ Sampled(cur)' = Sampled(cur)
      /\ UNCHANGED <<cur, at, step, slot, busy, del>>
  <2>1. UNCHANGED <<cur, at, step, slot, busy, del, first, last>>
    BY DEF CancelQueued, writerVars
  <2> QED
    BY <1>5, <2>1 DEF Sampled, Order, WorkerAt
<1>9. WorkerAt'
  BY <1>4, <1>5, <1>8 DEF Order, WorkerAt
<1>10. WriterAt'
  BY <1>8 DEF Order, WriterAt
<1>11. DeletesEnded'
  <2>1. del # None => del \in Jobs
    BY DEF TypeOK
  <2> QED
    BY <1>4, <1>8, <2>1 DEF Order, DeletesEnded, Ended
<1> QED
  BY <1>3, <1>6, <1>7, <1>9, <1>10, <1>11 DEF Order

LEMMA DeleteChecksOrder ==
    ASSUME TypeOK, Order, NEW r \in Jobs, DeleteChecks(r) PROVE TypeOK' /\ Order'
<1>1. /\ del' = r /\ points[r] # None /\ r \notin Active
      /\ UNCHANGED <<jobVars, diskVars, workVars, writerVars, ghostVars>>
  BY DEF DeleteChecks
<1>2. faults' \in 0..MaxFaults
  BY FaultType DEF DeleteChecks
<1>3. TypeOK'
  BY <1>1, <1>2 DEF TypeOK, jobVars, diskVars, workVars, writerVars, ghostVars
<1>4. status[r] \in Ended
  BY <1>1 DEF TypeOK, Order, MadeInOrder, Active
<1>5. DeletesEnded'
  BY <1>1, <1>4 DEF DeletesEnded, jobVars
<1>6. MadeInOrder' /\ QueueWaits'
  BY <1>1 DEF Order, MadeInOrder, QueueWaits, jobVars, diskVars, workVars, Empty
<1>7. WorkerAt' /\ WriterAt'
  BY <1>1 DEF Order, WorkerAt, WriterAt, Sampled, jobVars, workVars, writerVars
<1> QED
  BY <1>3, <1>5, <1>6, <1>7 DEF Order

LEMMA DeleteRemovesOrder ==
    ASSUME TypeOK, Order, DeleteRemoves PROVE TypeOK' /\ Order'
<1>1. /\ del \in Jobs /\ del' = None /\ status[del] \in Ended
      /\ UNCHANGED <<jobVars, data, workVars, writerVars, faults, ghostVars>>
  BY DEF DeleteRemoves, TypeOK, Order, DeletesEnded
<1>2. Resolve(del) # None => Resolve(del) \in Jobs /\ status[Resolve(del)] # "new"
  BY <1>1, ResolveType, TornType DEF Order, MadeInOrder, Present
<1>3. /\ points' \in [Jobs -> Jobs \cup {None}]
      /\ dir' \in [Jobs -> [Names -> Inodes \cup {NoFile}]]
      /\ \A j \in Jobs : status[j] = "new" => points'[j] = points[j] /\ dir'[j] = dir[j]
  <2>1. CASE Resolve(del) = None
    BY <2>1 DEF DeleteRemoves, TypeOK
  <2>2. CASE Resolve(del) # None
    <3>1. /\ points' = [points EXCEPT ![Resolve(del)] = None, ![del] = None]
          /\ dir' = [dir EXCEPT ![Resolve(del)] = Empty]
      BY <2>2 DEF DeleteRemoves
    <3>2. Empty \in [Names -> Inodes \cup {NoFile}]
      BY DEF Empty
    <3>3. points' \in [Jobs -> Jobs \cup {None}]
      BY <3>1 DEF TypeOK
    <3>4. dir' \in [Jobs -> [Names -> Inodes \cup {NoFile}]]
      BY <3>1, <3>2 DEF TypeOK
    <3>5. status[del] # "new"
      BY <1>1 DEF Ended
    <3>6. \A j \in Jobs : status[j] = "new" => points'[j] = points[j] /\ dir'[j] = dir[j]
      BY <1>2, <2>2, <3>1, <3>5 DEF TypeOK
    <3> QED
      BY <3>3, <3>4, <3>6
  <2> QED
    BY <2>1, <2>2
<1>4. TypeOK'
  BY <1>1, <1>3 DEF TypeOK, jobVars, workVars, writerVars, ghostVars
<1>5. DeletesEnded'
  BY <1>1 DEF DeletesEnded
<1>6. MadeInOrder'
  BY <1>1, <1>3, SameJobs DEF Order, jobVars
<1>7. QueueWaits'
  BY <1>1 DEF Order, QueueWaits, jobVars, workVars
<1>8. WorkerAt' /\ WriterAt'
  BY <1>1 DEF Order, WorkerAt, WriterAt, Sampled, jobVars, workVars, writerVars
<1> QED
  BY <1>4, <1>5, <1>6, <1>7, <1>8 DEF Order

LEMMA StartOrder == ASSUME TypeOK, Order, Start PROVE TypeOK' /\ Order'
<1> DEFINE j == Head(queue)
<1>1. /\ cur = None /\ queue # <<>> /\ cur' = j /\ queue' = Tail(queue)
      /\ status' = [status EXCEPT ![j] = "generating"]
      /\ at' = 0 /\ step' = Entry(j, 0)
      /\ UNCHANGED <<made, out, first, last, pick, rushed, diskVars, writerVars, del,
                   faults, ghostVars>>
  BY DEF Start, Goto
<1>2. /\ queue' \in Seq(Jobs) /\ IsInjective(queue')
      /\ j \in Jobs /\ 1 \in 1..Len(queue) /\ j = queue[1]
      /\ \A i \in 1..Len(queue') : /\ i + 1 \in 1..Len(queue)
                                   /\ queue'[i] = queue[i + 1]
                                   /\ queue'[i] # j
  BY <1>1, QueueMoves
<1>3. status[j] = "queued"
  BY <1>2 DEF Order, QueueWaits
<1> HIDE DEF j
<1>4. \A k \in Jobs : status'[k] = IF k = j THEN "generating" ELSE status[k]
  BY <1>1 DEF TypeOK
<1>5. 0 \in 0..Shots /\ 0 # Shots
  BY LatentBankAssumption
<1>6. /\ Entry(j, 0) \in {"sample", "restore"}
      /\ Entry(j, 0) = "sample" => 0 \in Sampled(j)
      /\ Entry(j, 0) = "restore" => 0 \in Shot \ Sampled(j)
  BY <1>2, <1>5, EntryType
<1>7. TypeOK'
  <2>1. status' \in [Jobs -> {"new", "queued", "generating"} \cup Ended]
    BY <1>1 DEF TypeOK
  <2>2. /\ cur' \in Jobs \cup {None} /\ at' \in 0..Shots
        /\ step' \in {"idle", "restore", "sample", "save", "preview", "side",
                      "finish", "fail"}
    BY <1>1, <1>2, <1>5, <1>6
  <2> QED
    BY <1>1, <1>2, <2>1, <2>2 DEF TypeOK, diskVars, writerVars, ghostVars
<1>8. MadeInOrder'
  <2>1. UNCHANGED <<made, out, points, dir>>
    BY <1>1 DEF diskVars
  <2> QED
    BY <1>3, <1>4, <2>1, SameJobs DEF Order
<1>9. QueueWaits'
  <2> SUFFICES ASSUME NEW i \in 1..Len(queue') PROVE status'[queue'[i]] = "queued"
    BY DEF QueueWaits
  <2>1. /\ i + 1 \in 1..Len(queue) /\ queue'[i] = queue[i + 1] /\ queue'[i] # j
    BY <1>2
  <2>2. queue[i + 1] \in Jobs /\ status[queue[i + 1]] = "queued"
    BY <2>1, ElementOfSeq DEF TypeOK, Order, QueueWaits
  <2> QED
    BY <1>4, <2>1, <2>2
<1>10. Sampled(cur)' = Sampled(j)
  BY <1>1 DEF Sampled
<1>11. WorkerAt'
  <2>1. \A k \in Jobs : status'[k] = "generating" <=> k = j
    BY <1>1, <1>4, TornType DEF Order, WorkerAt
  <2>2. step' # "idle" /\ j # None
    BY <1>1, <1>2, <1>6, TornType
  <2> QED
    BY <1>1, <1>6, <1>10, <2>1, <2>2 DEF WorkerAt
<1>12. WriterAt'
  BY <1>1 DEF Order, WriterAt, writerVars
<1>13. DeletesEnded'
  <2>1. del # None => del \in Jobs
    BY DEF TypeOK
  <2> QED
    BY <1>1, <1>3, <1>4, <2>1 DEF Order, DeletesEnded, Ended
<1> QED
  BY <1>7, <1>8, <1>9, <1>11, <1>12, <1>13 DEF Order
-----------------------------------------------------------------------------
(* A step of the worker within its job.                                     *)
LEMMA StepOrder ==
    ASSUME TypeOK, Order, step # "idle", UNCHANGED <<jobVars, queue, cur, busy, del>>,
           MadeInOrder', slot' = slot \/ slot' \in Sampled(cur),
           step' # "idle", step' = "restore" => at' \in Shot \ Sampled(cur),
           step' \in {"sample", "save", "preview", "side"} => at' \in Sampled(cur),
           step' = "finish" => at' = Shots
    PROVE  Order'
<1>1. UNCHANGED <<status, queue, cur, busy, del>> /\ Sampled(cur)' = Sampled(cur)
  BY DEF jobVars, Sampled
<1>2. QueueWaits' /\ DeletesEnded'
  BY <1>1 DEF Order, QueueWaits, DeletesEnded
<1>3. WorkerAt'
  BY <1>1 DEF Order, WorkerAt
<1>4. WriterAt'
  BY <1>1, Working, TornType DEF Order, WriterAt
<1> QED
  BY <1>2, <1>3, <1>4 DEF Order

(* It goes on to the next shot.                                             *)
LEMMA NextShot ==
    ASSUME TypeOK, Order, step \notin {"idle", "fail", "finish"},
           UNCHANGED <<jobVars, queue, cur, slot, busy, del>>,
           MadeInOrder', Goto(at + 1, Entry(cur, at + 1))
    PROVE  /\ Order' /\ at' \in 0..Shots
           /\ step' \in {"sample", "restore", "finish"}
<1>1. at + 1 \in 0..Shots /\ cur \in Jobs
  BY Working
<1>2. /\ step' \in {"finish", "sample", "restore"} /\ at' \in 0..Shots
      /\ step' = "finish" => at' = Shots
      /\ step' = "sample" => at' \in Sampled(cur)
      /\ step' = "restore" => at' \in Shot \ Sampled(cur)
  BY <1>1, EntryType DEF Goto
<1>3. Order'
  BY <1>2, StepOrder
<1> QED
  BY <1>2, <1>3

LEMMA StemType ==
    ASSUME TypeOK, NEW j \in Jobs, NEW s \in Shot, out[j] \in Jobs
    PROVE  Stem(j, s) \in Jobs
BY DEF Stem, TypeOK

LEMMA ReadType ==
    ASSUME TypeOK, NEW b \in Jobs, NEW n \in Names
    PROVE  Read(b, n) \in 0..Torn
BY TornType DEF Read, TypeOK, None

LEMMA SideType ==
    ASSUME TypeOK, Homed, NEW b \in Jobs, NEW s \in Shot
    PROVE  Read(b, <<s, "side">>) \in 0..MaxJobs
<1> DEFINE n == <<s, "side">>
<1>1. n \in Names
  BY NameType DEF Kinds
<1>2. Read(b, n) \in 0..Torn
  BY <1>1, ReadType
<1>3. Read(b, n) # Torn
  <2>1. CASE dir[b][n] = NoFile
    BY <2>1, LatentBankAssumption DEF Read, Torn, None
  <2>2. CASE dir[b][n] # NoFile
    <3>1. PICK c \in Jobs : dir[b][n] = Inode(c, n)
      BY <1>1, <2>2 DEF Homed
    <3>2. data[Inode(c, n)] # Torn
      BY DEF Homed
    <3> QED
      BY <2>2, <3>1, <3>2 DEF Read
  <2> QED
    BY <2>1, <2>2
<1> QED
  BY <1>2, <1>3, TornType DEF Torn

LEMMA RestoreOrder == ASSUME TypeOK, Order, Homed, Restore PROVE TypeOK' /\ Order'
<1>1. /\ step = "restore" /\ Goto(at + 1, Entry(cur, at + 1))
      /\ clip' = [clip EXCEPT ![cur][at] = [k \in {"bin", "side"} |->
                                               Read(Stem(cur, at), <<at, k>>)]]
      /\ Readable(Stem(cur, at), at)
      /\ UNCHANGED <<jobVars, diskVars, queue, cur, writerVars, del, faults, skipped>>
  BY DEF Restore
<1>2. MadeInOrder' /\ UNCHANGED <<slot, busy>>
  BY <1>1 DEF Order, MadeInOrder, jobVars, diskVars, Empty, writerVars
<1>3. Order' /\ at' \in 0..Shots /\ step' \in {"sample", "restore", "finish"}
  BY <1>1, <1>2, NextShot
<1>4. at \in Shot /\ Stem(cur, at) \in Jobs /\ cur \in Jobs
  BY <1>1, Working, StemType
<1>5. \A k \in {"bin", "side"} : Read(Stem(cur, at), <<at, k>>) \in 0..MaxJobs
  <2>1. Read(Stem(cur, at), <<at, "bin">>) \in 0..MaxJobs
    <3>1. <<at, "bin">> \in Names
      BY <1>4, NameType DEF Kinds
    <3>2. Read(Stem(cur, at), <<at, "bin">>) \in 0..Torn
      BY <1>4, <3>1, ReadType
    <3>3. Read(Stem(cur, at), <<at, "bin">>) # Torn
      BY <1>1 DEF Readable
    <3> QED
      BY <3>2, <3>3, TornType DEF Torn
  <2>2. Read(Stem(cur, at), <<at, "side">>) \in 0..MaxJobs
    BY <1>4, SideType
  <2> QED
    BY <2>1, <2>2
<1>6. clip' \in [Jobs -> [Shot -> [{"bin", "side"} -> 0..MaxJobs]]]
  BY <1>1, <1>4, <1>5 DEF TypeOK
<1>7. TypeOK'
  BY <1>1, <1>3, <1>6 DEF TypeOK, jobVars, diskVars, writerVars
<1> QED
  BY <1>3, <1>7

LEMMA FailsOrder == ASSUME TypeOK, Order, Fails PROVE TypeOK' /\ Order'
<1>1. /\ step \in {"restore", "sample", "save", "preview", "side"}
      /\ at' = at /\ step' = "fail"
      /\ UNCHANGED <<jobVars, diskVars, queue, cur, writerVars, del, ghostVars>>
  BY DEF Fails, Goto
<1>2. faults' \in 0..MaxFaults
  <2>1. UNCHANGED faults \/ Fault
    BY DEF Fails
  <2> QED
    BY <2>1, FaultType DEF TypeOK
<1>3. TypeOK'
  BY <1>1, <1>2 DEF TypeOK, jobVars, diskVars, writerVars, ghostVars
<1>4. MadeInOrder' /\ UNCHANGED <<slot, busy>>
  BY <1>1 DEF Order, MadeInOrder, jobVars, diskVars, Empty, writerVars
<1>5. Order'
  BY <1>1, <1>4, StepOrder
<1> QED
  BY <1>3, <1>5

LEMMA SampleOrder == ASSUME TypeOK, Order, Sample PROVE TypeOK' /\ Order'
<1> DEFINE b == out[cur]
           n == <<at, "bin">>
<1>1. /\ step = "sample" /\ Present(b) /\ at' = at /\ step' = "save"
      /\ dir' = [dir EXCEPT ![b][n] = Opened(b, n)]
      /\ data' = [data EXCEPT ![Opened(b, n)] = Torn]
      /\ UNCHANGED <<jobVars, points, queue, cur, writerVars, del, faults, ghostVars>>
  BY DEF Sample, Goto
<1>2. cur \in Jobs /\ b \in Jobs /\ at \in Shot /\ n \in Names
  BY <1>1, Working, NameType DEF Kinds
<1> HIDE DEF b, n
<1>3. Opened(b, n) \in Inodes /\ Torn \in 0..Torn
  BY <1>2, OpenedType, TornType
<1>4. /\ dir' \in [Jobs -> [Names -> Inodes \cup {NoFile}]]
      /\ data' \in [Inodes -> 0..Torn]
  BY <1>1, <1>2, <1>3, WriteType
<1>5. TypeOK'
  BY <1>1, <1>4 DEF TypeOK, jobVars, writerVars, ghostVars
<1>6. MadeInOrder'
  BY <1>1, <1>2, WritesOwned DEF TypeOK, jobVars
<1>7. Order'
  BY <1>1, <1>6, StepOrder DEF writerVars, Order, WorkerAt
<1> QED
  BY <1>5, <1>7

LEMMA SaveOrder == ASSUME TypeOK, Order, Save PROVE TypeOK' /\ Order'
<1>1. /\ step = "save" /\ at' = at /\ step' = "preview"
      /\ UNCHANGED <<jobVars, points, dir, queue, cur, writerVars, del, faults, ghostVars>>
      /\ \/ data' = data
         \/ \E i \in Inodes \cup {NoFile} : i # NoFile /\ data' = [data EXCEPT ![i] = cur]
  <2>1. cur \in Jobs /\ out[cur] \in Jobs /\ <<at, "bin">> \in Names
    BY Working, NameType DEF Save, Kinds
  <2>2. dir[out[cur]][<<at, "bin">>] \in Inodes \cup {NoFile}
    BY <2>1 DEF TypeOK
  <2> QED
    BY <2>2 DEF Save, Goto
<1>2. cur \in Jobs /\ cur \in 0..Torn
  BY <1>1, Working, TornType
<1>3. data' \in [Inodes -> 0..Torn]
  BY <1>1, <1>2 DEF TypeOK
<1>4. TypeOK'
  BY <1>1, <1>3 DEF TypeOK, jobVars, writerVars, ghostVars
<1>5. MadeInOrder' /\ UNCHANGED <<slot, busy>>
  BY <1>1 DEF Order, MadeInOrder, jobVars, Empty, writerVars
<1>6. Order'
  BY <1>1, <1>5, StepOrder DEF Order, WorkerAt
<1> QED
  BY <1>4, <1>6

LEMMA PreviewOrder == ASSUME TypeOK, Order, Preview PROVE TypeOK' /\ Order'
<1>1. /\ step = "preview" /\ at' = at /\ step' = "side" /\ slot' = at
      /\ UNCHANGED <<jobVars, diskVars, queue, cur, busy, del, faults, ghostVars>>
  BY DEF Preview, Goto
<1>2. TypeOK'
  BY <1>1 DEF TypeOK, jobVars, diskVars, ghostVars
<1>3. MadeInOrder' /\ at \in Sampled(cur)
  BY <1>1 DEF Order, MadeInOrder, WorkerAt, jobVars, diskVars, Empty
<1>4. Order'
  BY <1>1, <1>3, StepOrder
<1> QED
  BY <1>2, <1>4

LEMMA SideOrder == ASSUME TypeOK, Order, Side PROVE TypeOK' /\ Order'
<1> DEFINE b == out[cur]
           n == <<at, "side">>
<1>1. /\ step = "side" /\ Goto(at + 1, Entry(cur, at + 1))
      /\ IF Present(b)
         THEN /\ dir' = [dir EXCEPT ![b][n] = Opened(b, n)]
              /\ data' = [data EXCEPT ![Opened(b, n)] = cur]
         ELSE UNCHANGED <<dir, data>>
      /\ clip' = [clip EXCEPT ![cur][at] = [k \in {"bin", "side"} |-> cur]]
      /\ UNCHANGED <<jobVars, points, queue, cur, writerVars, del, faults, skipped>>
  BY DEF Side
<1>2. cur \in Jobs /\ b \in Jobs /\ at \in Shot /\ n \in Names
  BY <1>1, Working, NameType DEF Kinds
<1> HIDE DEF b, n
<1>3. /\ dir' \in [Jobs -> [Names -> Inodes \cup {NoFile}]]
      /\ data' \in [Inodes -> 0..Torn]
      /\ MadeInOrder'
  <2>1. CASE Present(b)
    <3>1. Opened(b, n) \in Inodes /\ cur \in 0..Torn
      BY <1>2, OpenedType, TornType
    <3>2. /\ dir' = [dir EXCEPT ![b][n] = Opened(b, n)]
          /\ data' = [data EXCEPT ![Opened(b, n)] = cur]
      BY <1>1, <2>1
    <3>3. \A c \in Jobs : c # b => dir'[c] = dir[c]
      BY <3>2 DEF TypeOK
    <3>4. MadeInOrder'
      BY <1>1, <1>2, <2>1, <3>3, WritesOwned DEF jobVars
    <3> QED
      BY <1>2, <3>1, <3>2, <3>4, WriteType
  <2>2. CASE ~Present(b)
    BY <1>1, <2>2 DEF TypeOK, Order, MadeInOrder, jobVars, Empty
  <2> QED
    BY <2>1, <2>2
<1>4. Order' /\ at' \in 0..Shots /\ step' \in {"sample", "restore", "finish"}
  BY <1>1, <1>3, NextShot DEF writerVars
<1>5. clip' \in [Jobs -> [Shot -> [{"bin", "side"} -> 0..MaxJobs]]]
  BY <1>1, <1>2, TornType DEF TypeOK
<1>6. TypeOK'
  BY <1>1, <1>3, <1>4, <1>5 DEF TypeOK, jobVars, writerVars
<1> QED
  BY <1>4, <1>6

(* How a job ends: with the first shots it has come to, or none of them.     *)
LEMMA Ends ==
    ASSUME TypeOK, Order, Finish
    PROVE  \E st \in Ended, n \in 0..Shots :
              /\ n <= at
              /\ status' = [status EXCEPT ![cur] = st]
              /\ clip' = [clip EXCEPT ![cur] =
                             [s \in Shot |-> IF s < n THEN clip[cur][s] ELSE NoTake]]
<1>1. Shots \in Nat /\ at \in 0..Shots /\ (step = "finish" => at = Shots)
  BY LatentBankAssumption DEF TypeOK, Order, WorkerAt
<1>2. \E n \in 0..Shots : n <= at /\ EndsWith(n)
  BY <1>1 DEF Finish
<1> QED
  BY <1>2 DEF EndsWith, Ended

LEMMA FinishOrder == ASSUME TypeOK, Order, Finish PROVE TypeOK' /\ Order'
<1> DEFINE Cut(n) == [s \in Shot |-> IF s < n THEN clip[cur][s] ELSE NoTake]
<1>1. PICK st \in Ended, n \in 0..Shots :
         /\ status' = [status EXCEPT ![cur] = st]
         /\ clip' = [clip EXCEPT ![cur] = Cut(n)]
  BY Ends
<1>2. /\ step \in {"finish", "fail"} /\ slot = NoShot /\ busy = NoShot
      /\ cur' = None /\ at' = 0 /\ step' = "idle" /\ skipped' = {}
      /\ UNCHANGED <<made, out, first, last, pick, rushed, diskVars, queue, writerVars, del>>
      /\ faults' \in 0..MaxFaults
  BY FaultType DEF Finish, EndsWith, Goto, TypeOK
<1>3. cur \in Jobs /\ status[cur] = "generating"
  BY <1>2, Working
<1>4. \A k \in Jobs : status'[k] = IF k = cur THEN st ELSE status[k]
  BY <1>1 DEF TypeOK
<1>5. clip' \in [Jobs -> [Shot -> [{"bin", "side"} -> 0..MaxJobs]]]
  <2>1. Cut(n) \in [Shot -> [{"bin", "side"} -> 0..MaxJobs]]
    <3>1. NoTake \in [{"bin", "side"} -> 0..MaxJobs]
      BY TornType DEF NoTake, None
    <3> QED
      BY <1>3, <3>1 DEF TypeOK
  <2> QED
    BY <1>1, <1>3, <2>1 DEF TypeOK
<1>6. TypeOK'
  <2>1. status' \in [Jobs -> {"new", "queued", "generating"} \cup Ended]
    BY <1>1 DEF TypeOK
  <2>2. at' \in 0..Shots /\ cur' \in Jobs \cup {None} /\ skipped' \subseteq Shot
    BY <1>2, LatentBankAssumption
  <2> QED
    BY <1>2, <1>5, <2>1, <2>2 DEF TypeOK, diskVars, writerVars
<1>7. MadeInOrder'
  <2>1. \A k \in Jobs : status'[k] = "new" <=> status[k] = "new"
    BY <1>1, <1>3, <1>4 DEF Ended
  <2> QED
    BY <1>2, <2>1, SameJobs DEF Order, diskVars
<1>8. QueueWaits'
  <2> SUFFICES ASSUME NEW i \in 1..Len(queue') PROVE status'[queue'[i]] = "queued"
    BY DEF QueueWaits
  <2>1. queue' = queue /\ queue[i] \in Jobs /\ status[queue[i]] = "queued"
    BY <1>2, ElementOfSeq DEF TypeOK, Order, QueueWaits
  <2> QED
    BY <1>3, <1>4, <2>1
<1>9. WorkerAt'
  <2>1. \A k \in Jobs : status'[k] # "generating"
    BY <1>1, <1>4 DEF Order, WorkerAt, Ended
  <2> QED
    BY <1>2, <2>1, TornType DEF WorkerAt
<1>10. WriterAt'
  BY <1>2 DEF WriterAt, writerVars
<1>11. DeletesEnded'
  <2>1. del # None => del \in Jobs
    BY DEF TypeOK
  <2> QED
    BY <1>1, <1>2, <1>4, <2>1 DEF Order, DeletesEnded
<1> QED
  BY <1>6, <1>7, <1>8, <1>9, <1>10, <1>11 DEF Order
-----------------------------------------------------------------------------
LEMMA TakeOrder == ASSUME TypeOK, Order, Take PROVE TypeOK' /\ Order'
<1>1. /\ slot # NoShot /\ busy' = slot /\ slot' = NoShot
      /\ UNCHANGED <<jobVars, diskVars, workVars, del, faults, ghostVars>>
  BY DEF Take
<1>2. TypeOK'
  BY <1>1, TornType DEF TypeOK, jobVars, diskVars, workVars, ghostVars
<1>3. MadeInOrder'
  BY <1>1 DEF Order, MadeInOrder, jobVars, diskVars, Empty
<1>4. QueueWaits' /\ WorkerAt' /\ DeletesEnded'
  BY <1>1 DEF Order, QueueWaits, WorkerAt, DeletesEnded, Sampled, jobVars, workVars
<1>5. WriterAt'
  BY <1>1 DEF Order, WriterAt, Sampled, jobVars, workVars
<1> QED
  BY <1>2, <1>3, <1>4, <1>5 DEF Order

(* The preview thread goes back to waiting.                                 *)
LEMMA IdleOrder ==
    ASSUME TypeOK, Order, EncoderIdle, MadeInOrder'
    PROVE  Order' /\ busy' \in 0..Shots /\ slot' \in 0..Shots
<1>1. busy' = NoShot /\ UNCHANGED <<jobVars, points, workVars, slot, del, clip>>
  BY DEF EncoderIdle
<1>2. QueueWaits' /\ WorkerAt' /\ DeletesEnded'
  BY <1>1 DEF Order, QueueWaits, WorkerAt, DeletesEnded, Sampled, jobVars, workVars
<1>3. WriterAt'
  BY <1>1 DEF Order, WriterAt, Sampled, jobVars, workVars
<1> QED
  BY <1>1, <1>2, <1>3, TornType DEF Order, TypeOK

LEMMA EncodeFailsOrder == ASSUME TypeOK, Order, EncodeFails PROVE TypeOK' /\ Order'
<1>1. /\ busy # NoShot /\ skipped' = skipped \cup {busy} /\ Fault
      /\ EncoderIdle /\ UNCHANGED <<dir, data>>
      /\ UNCHANGED <<jobVars, points, workVars, slot, del, clip>>
  BY DEF EncodeFails, EncoderIdle
<1>2. MadeInOrder'
  BY <1>1 DEF Order, MadeInOrder, jobVars, Empty
<1>3. Order' /\ busy' \in 0..Shots /\ slot' \in 0..Shots
  BY <1>1, <1>2, IdleOrder
<1>4. busy \in Shot
  BY <1>1, LatentBankAssumption DEF TypeOK, Shot, NoShot
<1>5. skipped' \subseteq Shot /\ faults' \in 0..MaxFaults
  BY <1>1, <1>4, FaultType DEF TypeOK
<1>6. TypeOK'
  BY <1>1, <1>3, <1>5 DEF TypeOK, jobVars, workVars
<1> QED
  BY <1>3, <1>6

(* Only a job that renders has a preview encoded.                           *)
LEMMA Encodes ==
    ASSUME TypeOK, Order, busy # NoShot
    PROVE  /\ cur \in Jobs /\ out[cur] \in Jobs /\ busy \in Shot
           /\ busy \in Sampled(cur) /\ <<busy, "webm">> \in Names
<1>1. cur # None /\ busy \in Sampled(cur)
  BY DEF Order, WriterAt
<1>2. step # "idle"
  BY <1>1 DEF Order, WorkerAt
<1>3. cur \in Jobs /\ out[cur] \in Jobs /\ busy \in Shot
  BY <1>1, <1>2, Working
<1> QED
  BY <1>1, <1>3, NameType DEF Kinds

LEMMA PublishOrder == ASSUME TypeOK, Order, Publish PROVE TypeOK' /\ Order'
<1> DEFINE n == <<busy, "webm">>
           i == Inode(cur, n)
           b == out[cur]
<1>1. /\ busy # NoShot
      /\ IF Present(b)
         THEN /\ dir' = [dir EXCEPT ![b][n] = i]
              /\ data' = [data EXCEPT ![i] = cur]
         ELSE UNCHANGED <<dir, data>>
      /\ EncoderIdle
      /\ UNCHANGED <<faults, skipped>>
      /\ UNCHANGED <<jobVars, points, workVars, slot, del, clip>>
  BY DEF Publish, EncoderIdle
<1>2. cur \in Jobs /\ b \in Jobs /\ n \in Names
  BY <1>1, Encodes
<1>3. i \in Inodes /\ cur \in 0..Torn
  BY <1>2, InodeIsOne, TornType
<1> HIDE DEF n, i, b
<1>4. /\ dir' \in [Jobs -> [Names -> Inodes \cup {NoFile}]]
      /\ data' \in [Inodes -> 0..Torn]
      /\ MadeInOrder'
  <2>1. CASE Present(b)
    <3>1. \A c \in Jobs : c # b => dir'[c] = dir[c]
      BY <1>1, <2>1 DEF TypeOK
    <3>2. MadeInOrder'
      BY <1>1, <1>2, <2>1, <3>1, WritesOwned DEF jobVars
    <3> QED
      BY <1>1, <1>2, <1>3, <2>1, <3>2, WriteType
  <2>2. CASE ~Present(b)
    BY <1>1, <2>2 DEF TypeOK, Order, MadeInOrder, jobVars, Empty
  <2> QED
    BY <2>1, <2>2
<1>5. Order' /\ busy' \in 0..Shots /\ slot' \in 0..Shots
  BY <1>1, <1>4, IdleOrder
<1>6. TypeOK'
  BY <1>1, <1>4, <1>5 DEF TypeOK, jobVars, workVars
<1> QED
  BY <1>5, <1>6

LEMMA CrashOrder == ASSUME TypeOK, Order, Crash PROVE TypeOK' /\ Order'
<1>1. /\ status' = [j \in Jobs |-> IF j \in Active THEN "failed" ELSE status[j]]
      /\ clip' = [j \in Jobs |-> IF j \in Active THEN NoClip ELSE clip[j]]
      /\ queue' = <<>> /\ cur' = None /\ at' = 0 /\ step' = "idle"
      /\ slot' = NoShot /\ busy' = NoShot
      /\ del' = None /\ skipped' = {} /\ Fault
      /\ UNCHANGED <<made, out, first, last, pick, rushed, diskVars>>
  BY DEF Crash, Goto
<1>2. queue' \in Seq(Jobs) /\ IsInjective(queue')
  BY <1>1, EmptySeq DEF IsInjective
<1>3. clip' \in [Jobs -> [Shot -> [{"bin", "side"} -> 0..MaxJobs]]]
  <2>1. NoClip \in [Shot -> [{"bin", "side"} -> 0..MaxJobs]]
    BY TornType DEF NoClip, NoTake, None
  <2> QED
    BY <1>1, <2>1 DEF TypeOK
<1>4. status' \in [Jobs -> {"new", "queued", "generating"} \cup Ended]
  BY <1>1 DEF TypeOK, Ended
<1>5. /\ at' \in 0..Shots /\ cur' \in Jobs \cup {None} /\ skipped' \subseteq Shot
      /\ slot' \in 0..Shots /\ busy' \in 0..Shots /\ faults' \in 0..MaxFaults
  BY <1>1, LatentBankAssumption, TornType, FaultType
<1>6. TypeOK'
  BY <1>1, <1>2, <1>3, <1>4, <1>5 DEF TypeOK, diskVars
<1>7. MadeInOrder'
  <2>1. \A k \in Jobs : status'[k] = "new" <=> status[k] = "new"
    BY <1>1 DEF Active
  <2> QED
    BY <1>1, <2>1, SameJobs DEF Order, diskVars
<1>8. QueueWaits'
  BY <1>1 DEF QueueWaits
<1>9. WorkerAt'
  <2>1. \A k \in Jobs : status'[k] # "generating"
    BY <1>1 DEF Active
  <2> QED
    BY <1>1, <2>1, TornType DEF WorkerAt
<1>10. WriterAt' /\ DeletesEnded'
  BY <1>1 DEF WriterAt, DeletesEnded
<1> QED
  BY <1>6, <1>7, <1>8, <1>9, <1>10 DEF Order
-----------------------------------------------------------------------------
(* Names lead home.                                                         *)
LEMMA InitHomed == Init => Homed
<1> SUFFICES ASSUME Init PROVE Homed
  OBVIOUS
<1>1. \A b \in Jobs, n \in Names : dir[b][n] = NoFile
  BY DEF Init, Empty
<1>2. \A c \in Jobs, s \in Shot : Inode(c, <<s, "side">>) \in Inodes
  BY NameType, InodeIsOne DEF Kinds
<1>3. \A i \in Inodes : data[i] # Torn
  BY LatentBankAssumption DEF Init, None, Torn
<1> QED
  BY <1>1, <1>2, <1>3 DEF Homed

LEMMA OpenedHomed ==
    ASSUME TypeOK, Homed, NEW b \in Jobs, NEW n \in Names
    PROVE  \E c \in Jobs : Opened(b, n) = Inode(c, n)
BY DEF Opened, Homed

LEMMA WriteHomed ==
    ASSUME TypeOK, Homed, NEW c \in Jobs, NEW n \in Names, NEW v \in 0..Torn,
           data' = [data EXCEPT ![Inode(c, n)] = v], v = Torn => n[2] # "side",
           \A b \in Jobs, m \in Names :
              dir'[b][m] = dir[b][m] \/ (m = n /\ dir'[b][m] = Inode(c, n))
    PROVE  Homed'
<1>1. \A b \in Jobs, m \in Names :
         dir'[b][m] # NoFile => \E d \in Jobs : dir'[b][m] = Inode(d, m)
  BY DEF Homed
<1>2. ASSUME NEW d \in Jobs, NEW s \in Shot PROVE data'[Inode(d, <<s, "side">>)] # Torn
  <2>1. <<s, "side">> \in Names /\ <<s, "side">>[2] = "side"
    BY NameType DEF Kinds
  <2>2. Inode(d, <<s, "side">>) \in Inodes /\ Inode(c, n) \in Inodes
    BY <2>1, InodeIsOne
  <2>3. CASE Inode(d, <<s, "side">>) = Inode(c, n)
    <3>1. n = <<s, "side">>
      BY <2>1, <2>3, InodeIsOne
    <3>2. v # Torn
      BY <2>1, <3>1
    <3> QED
      BY <2>2, <2>3, <3>2 DEF TypeOK
  <2>4. CASE Inode(d, <<s, "side">>) # Inode(c, n)
    BY <2>2, <2>4 DEF TypeOK, Homed
  <2> QED
    BY <2>3, <2>4
<1> QED
  BY <1>1, <1>2 DEF Homed, Inode

LEMMA LinksHomed ==
    ASSUME TypeOK, Homed, UNCHANGED data,
           \A b \in Jobs, n \in Names : \/ dir'[b][n] = NoFile
                                        \/ \E c \in Jobs : dir'[b][n] = dir[c][n]
    PROVE  Homed'
<1>1. \A b \in Jobs, n \in Names :
         dir'[b][n] # NoFile => \E d \in Jobs : dir'[b][n] = Inode(d, n)
  BY DEF Homed
<1> QED
  BY <1>1 DEF Homed, Inode

LEMMA ReuseHomed ==
    ASSUME TypeOK, Homed, NEW r \in Jobs, Resolve(r) \in Jobs,
           NEW lo \in Shot, NEW hi \in Shot, Reuse(r, lo, hi)
    PROVE  Homed'
<1> DEFINE j == made + 1
           src == Resolve(r)
<1>1. PICK p \in Picks(lo, hi) :
          \/ dir' = [dir EXCEPT ![j] = ForkLinks(src, lo, hi, p)]
          \/ dir' = dir
  BY DEF Reuse
<1>2. p \in [Shot -> Jobs \cup {None}] /\ UNCHANGED data
  BY PicksType DEF Reuse, Enqueue
<1>3. \A n \in Names : \/ ForkLinks(src, lo, hi, p)[n] = NoFile
                       \/ \E c \in Jobs : ForkLinks(src, lo, hi, p)[n] = dir[c][n]
  <2>1. \A n \in Names : n[1] \in Shot
    BY DEF Names
  <2>2. \A n \in Names : (IF p[n[1]] # None THEN p[n[1]] ELSE src) \in Jobs
    BY <1>2, <2>1
  <2> QED
    BY <2>2 DEF ForkLinks
<1> HIDE DEF src, j
<1>4. \A b \in Jobs, n \in Names : \/ dir'[b][n] = NoFile
                                   \/ \E c \in Jobs : dir'[b][n] = dir[c][n]
  <2>1. CASE dir' = dir
    BY <2>1
  <2>2. CASE dir' = [dir EXCEPT ![j] = ForkLinks(src, lo, hi, p)]
    BY <1>3, <2>2 DEF TypeOK
  <2> QED
    BY <1>1, <2>1, <2>2
<1> QED
  BY <1>2, <1>4, LinksHomed

LEMMA HomedStep ==
    ASSUME TypeOK, Order, Homed, [Next]_vars
    PROVE  Homed'
<1>1. ASSUME UNCHANGED <<dir, data>> PROVE Homed'
  BY <1>1, LinksHomed
<1>2. CASE UNCHANGED vars
  BY <1>1, <1>2 DEF vars, diskVars
<1>3. CASE Submit
  BY <1>1, <1>3 DEF Submit, Enqueue
<1>4. ASSUME NEW r \in Jobs, Resume(r) \/ \E s \in Shot : Retake(r, s) PROVE Homed'
  BY <1>4, Asked, ReuseHomed
<1>5. ASSUME NEW r \in Jobs, DeleteChecks(r) \/ CancelQueued(r) PROVE Homed'
  BY <1>1, <1>5 DEF DeleteChecks, CancelQueued, diskVars
<1>6. CASE DeleteRemoves
  <2>1. UNCHANGED data
    BY <1>6 DEF DeleteRemoves
  <2>2. \A b \in Jobs, n \in Names : dir'[b][n] = NoFile \/ dir'[b][n] = dir[b][n]
    <3>1. CASE dir' = dir
      BY <3>1
    <3>2. CASE dir' = [dir EXCEPT ![Resolve(del)] = Empty]
      BY <3>2 DEF TypeOK, Empty
    <3> QED
      BY <1>6, <3>1, <3>2 DEF DeleteRemoves
  <2> QED
    BY <2>1, <2>2, LinksHomed
<1>7. CASE Start \/ Restore \/ Fails \/ Preview
  BY <1>1, <1>7 DEF Start, Restore, Fails, Preview, diskVars
<1>8. CASE Finish
  BY <1>1, <1>8 DEF Finish, EndsWith, diskVars
<1>9. CASE Sample
  <2> DEFINE b == out[cur]
             n == <<at, "bin">>
  <2>1. /\ dir' = [dir EXCEPT ![b][n] = Opened(b, n)]
        /\ data' = [data EXCEPT ![Opened(b, n)] = Torn]
    BY <1>9 DEF Sample
  <2>2. b \in Jobs /\ n \in Names /\ n[2] # "side"
    BY <1>9, Working, NameType DEF Sample, Kinds
  <2> HIDE DEF b, n
  <2>3. PICK c \in Jobs : Opened(b, n) = Inode(c, n)
    BY <2>2, OpenedHomed
  <2>4. \A d \in Jobs, m \in Names :
           dir'[d][m] = dir[d][m] \/ (m = n /\ dir'[d][m] = Inode(c, n))
    BY <2>1, <2>2, <2>3 DEF TypeOK
  <2> QED
    BY <2>1, <2>2, <2>3, <2>4, TornType, WriteHomed
<1>10. CASE Save
  <2> DEFINE n == <<at, "bin">>
  <2>1. /\ dir' = dir /\ cur \in Jobs /\ out[cur] \in Jobs /\ n \in Names
        /\ n[2] # "side"
        /\ \/ data' = data
           \/ dir[out[cur]][n] # NoFile /\ data' = [data EXCEPT ![dir[out[cur]][n]] = cur]
    BY <1>10, Working, NameType DEF Save, Kinds
  <2> HIDE DEF n
  <2>2. CASE data' = data
    BY <1>1, <2>1, <2>2
  <2>3. CASE dir[out[cur]][n] # NoFile /\ data' = [data EXCEPT ![dir[out[cur]][n]] = cur]
    <3>1. PICK c \in Jobs : dir[out[cur]][n] = Inode(c, n)
      BY <2>1, <2>3 DEF Homed
    <3> QED
      BY <2>1, <2>3, <3>1, TornType, WriteHomed
  <2> QED
    BY <2>1, <2>2, <2>3
<1>11. CASE Side
  <2> DEFINE b == out[cur]
             n == <<at, "side">>
  <2>1. \/ UNCHANGED <<dir, data>>
        \/ /\ dir' = [dir EXCEPT ![b][n] = Opened(b, n)]
           /\ data' = [data EXCEPT ![Opened(b, n)] = cur]
    BY <1>11 DEF Side
  <2>2. b \in Jobs /\ n \in Names /\ cur \in Jobs
    BY <1>11, Working, NameType DEF Side, Kinds
  <2> HIDE DEF b, n
  <2>3. CASE dir' = [dir EXCEPT ![b][n] = Opened(b, n)]
             /\ data' = [data EXCEPT ![Opened(b, n)] = cur]
    <3>1. PICK c \in Jobs : Opened(b, n) = Inode(c, n)
      BY <2>2, OpenedHomed
    <3>2. \A d \in Jobs, m \in Names :
             dir'[d][m] = dir[d][m] \/ (m = n /\ dir'[d][m] = Inode(c, n))
      BY <2>2, <2>3, <3>1 DEF TypeOK
    <3> QED
      BY <2>2, <2>3, <3>1, <3>2, TornType, WriteHomed
  <2> QED
    BY <1>1, <2>1, <2>3
<1>12. CASE Take \/ EncodeFails
  BY <1>1, <1>12 DEF Take, EncodeFails, diskVars
<1>13. CASE Publish
  <2> DEFINE b == out[cur]
             n == <<busy, "webm">>
  <2>1. \/ UNCHANGED <<dir, data>>
        \/ /\ dir' = [dir EXCEPT ![b][n] = Inode(cur, n)]
           /\ data' = [data EXCEPT ![Inode(cur, n)] = cur]
    BY <1>13 DEF Publish
  <2>2. b \in Jobs /\ n \in Names /\ cur \in Jobs
    BY <1>13, Encodes DEF Publish
  <2> HIDE DEF b, n
  <2>3. CASE dir' = [dir EXCEPT ![b][n] = Inode(cur, n)]
             /\ data' = [data EXCEPT ![Inode(cur, n)] = cur]
    <3>1. \A d \in Jobs, m \in Names :
             dir'[d][m] = dir[d][m] \/ (m = n /\ dir'[d][m] = Inode(cur, n))
      BY <2>2, <2>3 DEF TypeOK
    <3> QED
      BY <2>2, <2>3, <3>1, TornType, WriteHomed
  <2> QED
    BY <1>1, <2>1, <2>3
<1>14. CASE Crash
  BY <1>1, <1>14 DEF Crash, diskVars
<1> QED
  BY <1>2, <1>3, <1>4, <1>5, <1>6, <1>7, <1>8, <1>9, <1>10, <1>11, <1>12, <1>13, <1>14
  DEF Next, Client, Render, Encoder

Typed == TypeOK /\ Order /\ Homed

LEMMA TypedStep == Typed /\ [Next]_vars => Typed'
<1> SUFFICES ASSUME TypeOK, Order, Homed, [Next]_vars PROVE TypeOK' /\ Order'
  BY HomedStep DEF Typed
<1>1. CASE UNCHANGED vars
  <2>1. UNCHANGED <<jobVars, diskVars, workVars, writerVars, del, faults, ghostVars>>
    BY <1>1 DEF vars
  <2>2. TypeOK'
    BY <2>1 DEF TypeOK, jobVars, diskVars, workVars, writerVars, ghostVars
  <2>3. MadeInOrder' /\ QueueWaits' /\ DeletesEnded'
    BY <2>1 DEF Order, MadeInOrder, QueueWaits, DeletesEnded, jobVars, diskVars,
                workVars, Empty
  <2>4. WorkerAt' /\ WriterAt'
    BY <2>1 DEF Order, WorkerAt, WriterAt, Sampled, jobVars, workVars, writerVars
  <2> QED
    BY <2>2, <2>3, <2>4 DEF Order
<1>2. ASSUME NEW r \in Jobs, Resume(r) \/ \E s \in Shot : Retake(r, s)
      PROVE  TypeOK' /\ Order'
  BY <1>2, Asked, ReuseOrder
<1>3. CASE Client
  BY <1>2, <1>3, SubmitOrder, CancelQueuedOrder, DeleteChecksOrder, DeleteRemovesOrder
  DEF Client
<1>4. CASE Render
  BY <1>4, StartOrder, RestoreOrder, FailsOrder, SampleOrder, SaveOrder, PreviewOrder,
     SideOrder, FinishOrder DEF Render
<1>5. CASE Encoder \/ Crash
  BY <1>5, TakeOrder, EncodeFailsOrder, PublishOrder, CrashOrder DEF Encoder
<1> QED
  BY <1>1, <1>3, <1>4, <1>5 DEF Next

(* Every variable keeps to its values, whatever clients ask, whichever step *)
(* fails and whenever the process dies; the queue lists no job twice.       *)
THEOREM TypeCorrect == Spec => []TypeOK
<1>1. Init => Typed
  BY InitType, InitOrder, InitHomed DEF Typed
<1>2. Typed => TypeOK
  BY DEF Typed
<1> QED
  BY <1>1, <1>2, TypedStep, PTL DEF Spec
-----------------------------------------------------------------------------
(* Where the banks are: under their job's name, there while the job may     *)
(* write, and empty once gone.                                              *)
Placed ==
    \A j \in Jobs :
       /\ points[j] \in {None, j}
       /\ ~Present(j) => \A n \in Names : dir[j][n] = NoFile
       /\ j \in Active => Present(j)

(* A bank not linked too early shares inodes with ended jobs only, ...      *)
Linked ==
    \A b \in Jobs \ rushed, n \in Names : dir[b][n] # NoFile =>
       \E c \in Jobs : dir[b][n] = Inode(c, n) /\ (c = b \/ status[c] \in Ended)

(* ... and none for a shot that is about to be rendered.                    *)
Own ==
    \A j \in Active, n \in Names :
       n[1] \in Sampled(j) => dir[j][n] \in {NoFile, Inode(j, n)}

(* An inode holds the take of the job that made it.                         *)
Holds == \A c \in Jobs, n \in Names : data[Inode(c, n)] \in {None, c, Torn}

(* Sidecars are written when their shot is done, ...                        *)
Fresh ==
    \A j \in Jobs, s \in Shot :
       status[j] \in {"new", "queued"} \/ (j = cur /\ at <= s) =>
          data[Inode(j, <<s, "side">>)] = None

(* ... after its latent, ...                                                *)
Trio ==
    \A c \in Jobs, s \in Shot : data[Inode(c, <<s, "side">>)] = c =>
                                data[Inode(c, <<s, "bin">>)] = c

(* ... and are linked with it.                                              *)
Together ==
    \A b, c \in Jobs, s \in Shot :
       dir[b][<<s, "side">>] = Inode(c, <<s, "side">>) =>
       dir[b][<<s, "bin">>] = Inode(c, <<s, "bin">>)

(* The latent of the shot in hand.                                          *)
InHand ==
    /\ step \in {"save", "preview", "side"} =>
          dir[cur][<<at, "bin">>] = Inode(cur, <<at, "bin">>)
    /\ step \in {"preview", "side"} => data[Inode(cur, <<at, "bin">>)] = cur

(* A shot that is restored from another bank is gone there, or is the one   *)
(* that was linked.                                                         *)
Picked ==
    \A j \in Active \ rushed, s \in Shot :
       LET p == pick[j][s] IN
       p # None => /\ status[p] \in Ended /\ s \notin Sampled(j)
                   /\ \/ dir[p][<<s, "bin">>] = NoFile
                      \/ \A k \in {"bin", "side"} : dir[p][<<s, k>>] = dir[j][<<s, k>>]

(* The shots the resume counted are there.                                  *)
Kept ==
    \A j \in Active : \A s \in 0..(first[j] - 1) :
       pick[j][s] = None => dir[j][<<s, "bin">>] # NoFile

(* The bank and the clip agree as far as the job has come, or its video goes. *)
Recorded ==
    \A j \in Jobs, s \in Shot, k \in {"bin", "side"} :
       j \notin rushed /\ clip[j][s]["bin"] # None
       /\ ((status[j] = "completed" /\ Present(j)) \/ (j = cur /\ s < at)) =>
          Read(j, <<s, k>>) = clip[j][s][k]

Takes == /\ Placed /\ Linked /\ Own /\ Holds /\ Fresh /\ Trio /\ Together
         /\ InHand /\ Picked /\ Kept /\ Recorded

LEMMA InitTakes == Init => Takes
<1> SUFFICES ASSUME Init PROVE Takes
  OBVIOUS
<1>1. /\ \A j \in Jobs : status[j] = "new" /\ points[j] = None
      /\ \A b \in Jobs, n \in Names : dir[b][n] = NoFile
      /\ \A i \in Inodes : data[i] = None
      /\ cur = None /\ step = "idle"
  BY DEF Init, Empty
<1>2. \A c \in Jobs, n \in Names : Inode(c, n) \in Inodes /\ Inode(c, n) # NoFile
  BY InodeIsOne
<1>3. \A s \in Shot, k \in Kinds : <<s, k>> \in Names
  BY NameType
<1>4. Active = {}
  BY <1>1 DEF Active
<1>5. Placed /\ Linked /\ Own /\ Picked /\ Kept
  BY <1>1, <1>4 DEF Placed, Linked, Own, Picked, Kept
<1>6. Holds
  BY <1>1, <1>2 DEF Holds
<1>7. Fresh /\ Trio /\ Together
  BY <1>1, <1>2, <1>3, TornType DEF Fresh, Trio, Together, Kinds
<1>8. InHand /\ Recorded
  BY <1>1, TornType DEF InHand, Recorded
<1> QED
  BY <1>5, <1>6, <1>7, <1>8 DEF Takes

-----------------------------------------------------------------------------
(* While forks work, every job writes the bank it is named after.           *)
LEMMA OwnBank ==
    ASSUME TypeOK, Order, ForkHeld, NEW j \in Jobs, status[j] # "new"
    PROVE  out[j] = j
BY DEF ForkHeld, Fallen, Order, MadeInOrder

(* What is to be shown of every step.                                       *)
Lasting == Placed /\ Linked /\ Own /\ Holds /\ Trio /\ Together /\ Picked /\ Kept

(* Steps that leave the disk alone.                                         *)
LEMMA DiskKept ==
    ASSUME TypeOK, Takes, UNCHANGED <<points, dir, data, out, first, last, pick, rushed>>,
           \A j \in Jobs : /\ status'[j] \in {"queued", "generating"} =>
                                 status[j] \in {"queued", "generating"}
                           /\ status[j] \in Ended => status'[j] \in Ended
    PROVE  Lasting'
<1>1. \A j \in Jobs : j \in Active' => j \in Active
  BY DEF Active
<1>2. Active' \subseteq Jobs /\ \A j \in Jobs : Sampled(j)' = Sampled(j)
  BY DEF Active, Sampled
<1>3. Placed'
  BY <1>1 DEF Takes, Placed, Present
<1>4. Linked'
  BY DEF Takes, Linked, Inode
<1>5. Own'
  BY <1>1, <1>2 DEF Takes, Own, Inode
<1>6. Holds' /\ Trio' /\ Together'
  BY DEF Takes, Holds, Trio, Together, Inode
<1>7. Picked'
  <2> SUFFICES ASSUME NEW j \in Active' \ rushed, NEW s \in Shot, pick[j][s] # None
               PROVE  /\ status'[pick[j][s]] \in Ended /\ s \notin Sampled(j)
                      /\ \/ dir[pick[j][s]][<<s, "bin">>] = NoFile
                         \/ \A k \in {"bin", "side"} :
                               dir[pick[j][s]][<<s, k>>] = dir[j][<<s, k>>]
    BY <1>2 DEF Picked
  <2>1. j \in Active /\ pick[j][s] \in Jobs
    BY <1>1, <1>2 DEF TypeOK
  <2>2. /\ status[pick[j][s]] \in Ended /\ s \notin Sampled(j)
        /\ \/ dir[pick[j][s]][<<s, "bin">>] = NoFile
           \/ \A k \in {"bin", "side"} :
                 dir[pick[j][s]][<<s, k>>] = dir[j][<<s, k>>]
    BY <2>1 DEF Takes, Picked
  <2> QED
    BY <2>1, <2>2
<1>8. Kept'
  BY <1>1, <1>2 DEF Takes, Kept
<1> QED
  BY <1>3, <1>4, <1>5, <1>6, <1>7, <1>8 DEF Lasting

(* The bank and the clip, after a step that leaves the clip alone.          *)
LEMMA RecordedNext ==
    ASSUME UNCHANGED <<cur, at, clip>>,
           \A j \in Jobs, s \in Shot, k \in {"bin", "side"} :
              j \notin rushed' /\ clip[j][s]["bin"] # None
              /\ ((status'[j] = "completed" /\ points'[j] = j)
                                  \/ (j = cur /\ s < at)) =>
                 Read(j, <<s, k>>)' = clip[j][s][k]
    PROVE  Recorded'
BY DEF Recorded, Present

(* ... and also the worker where it is.                                     *)
LEMMA WorkKept ==
    ASSUME Takes, UNCHANGED <<points, dir, data, cur, at, step, clip, rushed>>,
           \A j \in Jobs : /\ status'[j] \in {"new", "queued"} =>
                                 status[j] \in {"new", "queued"}
                           /\ status'[j] = "completed" => status[j] = "completed"
    PROVE  Fresh' /\ InHand' /\ Recorded'
<1>1. Fresh'
  BY DEF Takes, Fresh, Inode
<1>2. InHand'
  BY DEF Takes, InHand, Inode
<1>3. Recorded'
  <2>1. \A j \in Jobs, s \in Shot, k \in {"bin", "side"} :
           Read(j, <<s, k>>)' = Read(j, <<s, k>>)
    BY DEF Read
  <2>3. \A j \in Jobs, s \in Shot, k \in {"bin", "side"} :
           j \notin rushed /\ clip[j][s]["bin"] # None
           /\ ((status'[j] = "completed" /\ points'[j] = j)
                               \/ (j = cur /\ s < at)) =>
              Read(j, <<s, k>>)' = clip[j][s][k]
    <3> SUFFICES ASSUME NEW j \in Jobs, NEW s \in Shot, NEW k \in {"bin", "side"},
                        j \notin rushed, clip[j][s]["bin"] # None,
                        (status'[j] = "completed" /\ points'[j] = j) \/ (j = cur /\ s < at)
                 PROVE  Read(j, <<s, k>>)' = clip[j][s][k]
      OBVIOUS
    <3>1. (status[j] = "completed" /\ Present(j)) \/ (j = cur /\ s < at)
      BY DEF Present
    <3>2. Read(j, <<s, k>>) = clip[j][s][k]
      BY <3>1 DEF Takes, Recorded
    <3> QED
      BY <2>1, <3>2
  <2> QED
    BY <2>3, RecordedNext
<1> QED
  BY <1>1, <1>2, <1>3

(* Enough for what the bank and the clip have in common.                    *)
LEMMA RecordedThen ==
    ASSUME UNCHANGED <<status, points, cur, rushed>>,
           \A j \in Jobs, s \in Shot, k \in {"bin", "side"} :
              j \notin rushed /\ clip'[j][s]["bin"] # None
              /\ ((status[j] = "completed" /\ Present(j))
                                 \/ (j = cur /\ s < at')) =>
                 Read(j, <<s, k>>)' = clip'[j][s][k]
    PROVE  Recorded'
BY DEF Recorded, Present

LEMMA FreshThen ==
    ASSUME UNCHANGED <<status, cur>>,
           \A j \in Jobs, s \in Shot :
              status[j] \in {"new", "queued"} \/ (j = cur /\ at' <= s) =>
                 data'[Inode(j, <<s, "side">>)] = None
    PROVE  Fresh'
BY DEF Fresh

LEMMA AllTakes == Lasting' /\ Fresh' /\ InHand' /\ Recorded' => Takes'
BY DEF Lasting, Takes

(* The worker writes a name of its own bank.                                *)
Writes(n, v) ==
    /\ cur \in Jobs /\ status[cur] = "generating" /\ n \in Names /\ v \in {cur, Torn}
    /\ n[1] \in Sampled(cur)
    /\ n[2] = "side" => dir[cur][<<n[1], "bin">>] = Inode(cur, <<n[1], "bin">>)
    /\ UNCHANGED <<status, out, first, last, pick, rushed, points, cur>>
    /\ \A b \in Jobs, m \in Names :
          dir'[b][m] = IF b = cur /\ m = n THEN Inode(cur, n) ELSE dir[b][m]
    /\ \A i \in Inodes : data'[i] = IF i = Inode(cur, n) THEN v ELSE data[i]

(* ... and no other file is changed by it.                                  *)
LEMMA WritesSpare ==
    ASSUME TypeOK, Takes, NEW n, NEW v, Writes(n, v),
           NEW b \in Jobs, NEW m \in Names, b # cur \/ m # n
    PROVE  /\ dir'[b][m] = dir[b][m]
           /\ b \notin rushed => Read(b, m)' = Read(b, m)
<1>1. dir'[b][m] = dir[b][m]
  BY DEF Writes
<1> SUFFICES ASSUME b \notin rushed PROVE Read(b, m)' = Read(b, m)
  BY <1>1
<1>2. CASE dir[b][m] = NoFile
  BY <1>1, <1>2 DEF Read
<1>3. CASE dir[b][m] # NoFile
  <2>1. PICK c \in Jobs : dir[b][m] = Inode(c, m) /\ (c = b \/ status[c] \in Ended)
    BY <1>3 DEF Takes, Linked
  <2>2. Inode(c, m) # Inode(cur, n)
    <3>1. c = cur => b = cur
      BY <2>1 DEF Writes, Ended
    <3>2. cur \in Jobs /\ n \in Names
      BY DEF Writes
    <3> QED
      BY <3>1, <3>2, InodeIsOne
  <2>3. data'[Inode(c, m)] = data[Inode(c, m)]
    BY <2>2, InodeIsOne DEF Writes
  <2> QED
    BY <1>1, <1>3, <2>1, <2>3 DEF Read
<1> QED
  BY <1>2, <1>3

LEMMA WritesData ==
    ASSUME TypeOK, NEW n, NEW v, Writes(n, v), NEW c \in Jobs, NEW m \in Names
    PROVE  data'[Inode(c, m)] = IF c = cur /\ m = n THEN v ELSE data[Inode(c, m)]
<1>1. cur \in Jobs /\ n \in Names
  BY DEF Writes
<1>2. Inode(c, m) \in Inodes /\ (Inode(c, m) = Inode(cur, n) <=> c = cur /\ m = n)
  BY <1>1, InodeIsOne
<1> QED
  BY <1>2 DEF Writes

LEMMA WritesKeep ==
    ASSUME TypeOK, Takes, NEW n, NEW v, Writes(n, v)
    PROVE  /\ Placed' /\ Linked' /\ Own' /\ Holds' /\ Together' /\ Picked' /\ Kept'
<1>1. /\ cur \in Jobs /\ status[cur] = "generating" /\ n \in Names /\ v \in {cur, Torn}
      /\ n[1] \in Sampled(cur) /\ cur \in Active
      /\ UNCHANGED <<status, out, first, last, pick, rushed, points, cur>>
      /\ Active' = Active /\ \A j \in Jobs : Sampled(j)' = Sampled(j)
  BY DEF Writes, Active, Sampled
<1>2. \A b \in Jobs, m \in Names :
         dir'[b][m] = IF b = cur /\ m = n THEN Inode(cur, n) ELSE dir[b][m]
  BY DEF Writes
<1>3. Inode(cur, n) # NoFile /\ \A j \in Active : j \in Jobs
  BY <1>1, InodeIsOne DEF Active
<1>4. Placed'
  BY <1>1, <1>2 DEF Takes, Placed, Present
<1>5. Linked'
  <2> SUFFICES ASSUME NEW b \in Jobs \ rushed, NEW m \in Names, dir'[b][m] # NoFile
               PROVE  \E c \in Jobs : dir'[b][m] = Inode(c, m)
                                      /\ (c = b \/ status[c] \in Ended)
    BY <1>1 DEF Linked, Inode
  <2>1. CASE b = cur /\ m = n
    BY <1>1, <1>2, <2>1
  <2>2. CASE ~(b = cur /\ m = n)
    BY <1>2, <2>2 DEF Takes, Linked
  <2> QED
    BY <2>1, <2>2
<1>6. Own'
  <2> SUFFICES ASSUME NEW j \in Active, NEW m \in Names, m[1] \in Sampled(j)
               PROVE  dir'[j][m] \in {NoFile, Inode(j, m)}
    BY <1>1, <1>3 DEF Own, Inode
  <2>1. dir[j][m] \in {NoFile, Inode(j, m)}
    BY DEF Takes, Own
  <2> QED
    BY <1>2, <1>3, <2>1
<1>7. Holds'
  <2> SUFFICES ASSUME NEW c \in Jobs, NEW m \in Names
               PROVE  data'[Inode(c, m)] \in {None, c, Torn}
    BY DEF Holds, Inode
  <2>1. data[Inode(c, m)] \in {None, c, Torn}
    BY DEF Takes, Holds
  <2> QED
    BY <1>1, <2>1, WritesData
<1>8. Together'
  <2> SUFFICES ASSUME NEW b \in Jobs, NEW c \in Jobs, NEW s \in Shot,
                      dir'[b][<<s, "side">>] = Inode(c, <<s, "side">>)
               PROVE  dir'[b][<<s, "bin">>] = Inode(c, <<s, "bin">>)
    BY DEF Together, Inode
  <2>1. /\ <<s, "side">> \in Names /\ <<s, "bin">> \in Names
        /\ <<s, "side">> # <<s, "bin">> /\ <<s, "side">>[1] = s /\ <<s, "side">>[2] = "side"
        /\ <<s, "bin">>[1] = s
    BY NameType DEF Kinds
  <2>2. CASE b = cur /\ n = <<s, "side">>
    <3>1. Inode(c, <<s, "side">>) = Inode(cur, <<s, "side">>)
      BY <1>1, <1>2, <2>1, <2>2
    <3>2. c = cur
      BY <1>1, <2>1, <3>1, InodeIsOne
    <3>3. dir[cur][<<s, "bin">>] = Inode(cur, <<s, "bin">>)
      BY <2>1, <2>2 DEF Writes
    <3> QED
      BY <1>1, <1>2, <2>1, <2>2, <3>2, <3>3
  <2>3. CASE b = cur /\ n = <<s, "bin">>
    <3>1. dir[cur][<<s, "side">>] = Inode(c, <<s, "side">>)
      BY <1>1, <1>2, <2>1, <2>3
    <3>2. dir[cur][<<s, "side">>] \in {NoFile, Inode(cur, <<s, "side">>)}
      BY <1>1, <2>1, <2>3 DEF Takes, Own
    <3>3. c = cur
      BY <1>1, <2>1, <3>1, <3>2, InodeIsOne
    <3> QED
      BY <1>1, <1>2, <2>1, <2>3, <3>3
  <2>4. CASE b # cur \/ n \notin {<<s, "side">>, <<s, "bin">>}
    <3>1. /\ dir'[b][<<s, "side">>] = dir[b][<<s, "side">>]
          /\ dir'[b][<<s, "bin">>] = dir[b][<<s, "bin">>]
      BY <1>2, <2>1, <2>4
    <3> QED
      BY <3>1 DEF Takes, Together
  <2> QED
    BY <2>2, <2>3, <2>4
<1>9. Picked'
  <2> SUFFICES ASSUME NEW j \in Active \ rushed, NEW s \in Shot, pick[j][s] # None
               PROVE  /\ status[pick[j][s]] \in Ended /\ s \notin Sampled(j)
                      /\ \/ dir'[pick[j][s]][<<s, "bin">>] = NoFile
                         \/ \A k \in {"bin", "side"} :
                               dir'[pick[j][s]][<<s, k>>] = dir'[j][<<s, k>>]
    BY <1>1, <1>3 DEF Picked
  <2> DEFINE p == pick[j][s]
  <2>1. /\ status[p] \in Ended /\ s \notin Sampled(j)
        /\ \/ dir[p][<<s, "bin">>] = NoFile
           \/ \A k \in {"bin", "side"} : dir[p][<<s, k>>] = dir[j][<<s, k>>]
    BY DEF Takes, Picked
  <2>2. p \in Jobs /\ j \in Jobs /\ p # cur
    <3>1. j \in Jobs /\ p \in Jobs
      BY <1>3 DEF TypeOK
    <3>2. p # cur
      BY <1>1, <2>1 DEF Ended
    <3> QED
      BY <3>1, <3>2
  <2>3. \A k \in {"bin", "side"} : <<s, k>> \in Names /\ <<s, k>>[1] = s
    BY NameType DEF Kinds
  <2>4. \A k \in {"bin", "side"} : /\ dir'[p][<<s, k>>] = dir[p][<<s, k>>]
                                   /\ dir'[j][<<s, k>>] = dir[j][<<s, k>>]
    BY <1>1, <1>2, <2>1, <2>2, <2>3
  <2> QED
    BY <2>1, <2>4
<1>10. Kept'
  <2> SUFFICES ASSUME NEW j \in Active, NEW s \in 0..(first[j] - 1), pick[j][s] = None
               PROVE  dir'[j][<<s, "bin">>] # NoFile
    BY <1>1, <1>3 DEF Kept
  <2>1. dir[j][<<s, "bin">>] # NoFile
    BY DEF Takes, Kept
  <2>2. s \in Shot
    BY <1>3, LatentBankAssumption DEF TypeOK, Shot
  <2>3. <<s, "bin">> \in Names
    BY <2>2, NameType DEF Kinds
  <2> QED
    BY <1>2, <1>3, <2>1, <2>3
<1> QED
  BY <1>4, <1>5, <1>6, <1>7, <1>8, <1>9, <1>10

-----------------------------------------------------------------------------
(* The four steps that write.                                               *)
LEMMA AtWork ==
    ASSUME TypeOK, Order, ForkHeld, Takes, step \notin {"idle", "fail", "finish"}
    PROVE  /\ cur \in Jobs /\ status[cur] = "generating" /\ out[cur] = cur
           /\ Present(cur) /\ at \in Shot
           /\ \A k \in Kinds : /\ <<at, k>> \in Names
                               /\ <<at, k>>[1] = at /\ <<at, k>>[2] = k
<1>1. cur \in Jobs /\ status[cur] = "generating" /\ at \in Shot
  BY Working
<1>2. out[cur] = cur
  BY <1>1, OwnBank
<1>3. Present(cur)
  BY <1>1 DEF Takes, Placed, Active
<1> QED
  BY <1>1, <1>2, <1>3, NameType

LEMMA OpensOwn ==
    ASSUME TypeOK, Takes, cur \in Jobs, status[cur] = "generating",
           NEW n \in Names, n[1] \in Sampled(cur)
    PROVE  Opened(cur, n) = Inode(cur, n)
<1>1. dir[cur][n] \in {NoFile, Inode(cur, n)}
  BY DEF Takes, Own, Active
<1> QED
  BY <1>1 DEF Opened

LEMMA SampleTakes ==
    ASSUME TypeOK, Order, Homed, ForkHeld, Takes, Sample
    PROVE  Takes' /\ \E m, v : Writes(m, v)
<1> DEFINE n == <<at, "bin">>
<1>1. /\ cur \in Jobs /\ status[cur] = "generating" /\ out[cur] = cur
      /\ Present(cur) /\ at \in Shot
      /\ n \in Names /\ n[1] = at /\ n[2] = "bin" /\ n # <<at, "side">>
      /\ at \in Sampled(cur)
  BY AtWork DEF Sample, Kinds, Order, WorkerAt
<1>2. /\ at' = at /\ step' = "save" /\ cur' = cur /\ clip' = clip
      /\ dir' = [dir EXCEPT ![cur][n] = Opened(cur, n)]
      /\ data' = [data EXCEPT ![Opened(cur, n)] = Torn]
      /\ UNCHANGED <<status, out, first, last, pick, rushed, points>>
  BY <1>1 DEF Sample, Goto, jobVars, ghostVars
<1> HIDE DEF n
<1>3. Opened(cur, n) = Inode(cur, n)
  BY <1>1, OpensOwn
<1>4. Writes(n, Torn)
  BY <1>1, <1>2, <1>3 DEF Writes, TypeOK
<1>5. /\ Placed' /\ Linked' /\ Own' /\ Holds' /\ Together' /\ Picked' /\ Kept'
  BY <1>4, WritesKeep
<1>6. \A c \in Jobs, m \in Names :
         data'[Inode(c, m)] = IF c = cur /\ m = n THEN Torn ELSE data[Inode(c, m)]
  BY <1>4, WritesData
<1>7. \A s \in Shot : /\ <<s, "side">> \in Names /\ <<s, "side">> # n
                      /\ <<s, "bin">> \in Names /\ (<<s, "bin">> = n <=> s = at)
  BY NameType DEF Kinds, n
<1>8. Fresh'
  <2> SUFFICES ASSUME NEW j \in Jobs, NEW s \in Shot,
                      status[j] \in {"new", "queued"} \/ (j = cur /\ at <= s)
               PROVE  data'[Inode(j, <<s, "side">>)] = None
    BY <1>2, FreshThen
  <2>1. data'[Inode(j, <<s, "side">>)] = data[Inode(j, <<s, "side">>)]
    BY <1>6, <1>7
  <2> QED
    BY <2>1 DEF Takes, Fresh
<1>9. Trio'
  <2> SUFFICES ASSUME NEW c \in Jobs, NEW s \in Shot, data'[Inode(c, <<s, "side">>)] = c
               PROVE  data'[Inode(c, <<s, "bin">>)] = c
    BY DEF Trio, Inode
  <2>1. data[Inode(c, <<s, "side">>)] = c
    BY <1>6, <1>7
  <2>2. ~(c = cur /\ s = at)
    <3>1. at <= at
      BY <1>1, LatentBankAssumption DEF Shot
    <3>2. data[Inode(cur, <<at, "side">>)] = None
      BY <1>1, <3>1 DEF Takes, Fresh
    <3> QED
      BY <1>1, <2>1, <3>2, TornType
  <2> QED
    BY <1>6, <1>7, <2>1, <2>2 DEF Takes, Trio
<1>10. InHand'
  BY <1>1, <1>2, <1>3 DEF InHand, n, TypeOK, Inode
<1>11. Recorded'
  <2> SUFFICES ASSUME NEW j \in Jobs, j \notin rushed, NEW s \in Shot, NEW k \in {"bin", "side"},
                      clip[j][s]["bin"] # None,
                      (status[j] = "completed" /\ Present(j)) \/ (j = cur /\ s < at)
               PROVE  Read(j, <<s, k>>)' = clip[j][s][k]
    BY <1>2, RecordedThen
  <2>1. <<s, k>> \in Names /\ (j # cur \/ <<s, k>> # n)
    <3>1. <<s, k>> \in Names /\ ~(at < at)
      <4>1. <<s, k>> \in Names
        BY NameType DEF Kinds
      <4>2. at \in Int
        BY <1>1, LatentBankAssumption DEF Shot
      <4> QED
        BY <4>1, <4>2
    <3>2. status[cur] # "completed" /\ (s # at => <<s, k>> # n)
      BY <1>1 DEF n
    <3> QED
      BY <3>1, <3>2
  <2>2. Read(j, <<s, k>>)' = Read(j, <<s, k>>)
    BY <1>4, <2>1, WritesSpare
  <2> QED
    BY <2>2 DEF Takes, Recorded
<1> QED
  BY <1>4, <1>5, <1>8, <1>9, <1>10, <1>11 DEF Takes

LEMMA SaveTakes ==
    ASSUME TypeOK, Order, Homed, ForkHeld, Takes, Save
    PROVE  Takes' /\ \E m, v : Writes(m, v)
<1> DEFINE n == <<at, "bin">>
<1>1. /\ cur \in Jobs /\ status[cur] = "generating" /\ out[cur] = cur
      /\ Present(cur) /\ at \in Shot
      /\ n \in Names /\ n[1] = at /\ n[2] = "bin" /\ n # <<at, "side">>
      /\ at \in Sampled(cur)
  BY AtWork DEF Save, Kinds, Order, WorkerAt
<1>2. dir[cur][n] = Inode(cur, n) /\ Inode(cur, n) \in Inodes /\ Inode(cur, n) # NoFile
  BY <1>1, InodeIsOne DEF Takes, InHand, Save
<1>3. /\ at' = at /\ step' = "preview" /\ cur' = cur /\ clip' = clip /\ dir' = dir
      /\ data' = [data EXCEPT ![Inode(cur, n)] = cur]
      /\ UNCHANGED <<status, out, first, last, pick, rushed, points>>
  BY <1>1, <1>2 DEF Save, Goto, jobVars, ghostVars
<1> HIDE DEF n
<1>4. Writes(n, cur)
  BY <1>1, <1>2, <1>3 DEF Writes, TypeOK
<1>5. /\ Placed' /\ Linked' /\ Own' /\ Holds' /\ Together' /\ Picked' /\ Kept'
  BY <1>4, WritesKeep
<1>6. \A c \in Jobs, m \in Names :
         data'[Inode(c, m)] = IF c = cur /\ m = n THEN cur ELSE data[Inode(c, m)]
  BY <1>4, WritesData
<1>7. \A s \in Shot : /\ <<s, "side">> \in Names /\ <<s, "side">> # n
                      /\ <<s, "bin">> \in Names /\ (<<s, "bin">> = n <=> s = at)
  BY NameType DEF Kinds, n
<1>8. Fresh' /\ Trio'
  <2>1. \A c \in Jobs, s \in Shot :
           data'[Inode(c, <<s, "side">>)] = data[Inode(c, <<s, "side">>)]
    BY <1>6, <1>7
  <2>2. Fresh'
    <3> SUFFICES ASSUME NEW j \in Jobs, NEW s \in Shot,
                        status[j] \in {"new", "queued"} \/ (j = cur /\ at <= s)
                 PROVE  data'[Inode(j, <<s, "side">>)] = None
      BY <1>3, FreshThen
    <3> QED
      BY <2>1 DEF Takes, Fresh
  <2>3. Trio'
    <3> SUFFICES ASSUME NEW c \in Jobs, NEW s \in Shot, data'[Inode(c, <<s, "side">>)] = c
                 PROVE  data'[Inode(c, <<s, "bin">>)] = c
      BY DEF Trio
    <3>1. data[Inode(c, <<s, "bin">>)] = c
      BY <2>1 DEF Takes, Trio
    <3> QED
      BY <1>6, <1>7, <3>1
  <2> QED
    BY <2>2, <2>3
<1>9. InHand'
  BY <1>1, <1>2, <1>3, <1>6 DEF InHand, n, Inode
<1>10. Recorded'
  <2> SUFFICES ASSUME NEW j \in Jobs, j \notin rushed, NEW s \in Shot, NEW k \in {"bin", "side"},
                      clip[j][s]["bin"] # None,
                      (status[j] = "completed" /\ Present(j)) \/ (j = cur /\ s < at)
               PROVE  Read(j, <<s, k>>)' = clip[j][s][k]
    BY <1>3, RecordedThen
  <2>1. <<s, k>> \in Names /\ (j # cur \/ <<s, k>> # n)
    <3>1. <<s, k>> \in Names /\ ~(at < at)
      <4>1. <<s, k>> \in Names
        BY NameType DEF Kinds
      <4>2. at \in Int
        BY <1>1, LatentBankAssumption DEF Shot
      <4> QED
        BY <4>1, <4>2
    <3>2. status[cur] # "completed" /\ (s # at => <<s, k>> # n)
      BY <1>1 DEF n
    <3> QED
      BY <3>1, <3>2
  <2>2. Read(j, <<s, k>>)' = Read(j, <<s, k>>)
    BY <1>4, <2>1, WritesSpare
  <2> QED
    BY <2>2 DEF Takes, Recorded
<1> QED
  BY <1>4, <1>5, <1>8, <1>9, <1>10 DEF Takes

LEMMA SideTakes ==
    ASSUME TypeOK, Order, Homed, ForkHeld, Takes, Side
    PROVE  Takes' /\ \E m, v : Writes(m, v)
<1> DEFINE n == <<at, "side">>
           m == <<at, "bin">>
<1>1. /\ cur \in Jobs /\ status[cur] = "generating" /\ out[cur] = cur
      /\ Present(cur) /\ at \in Shot
      /\ n \in Names /\ n[1] = at /\ n[2] = "side" /\ m \in Names /\ m # n
      /\ at \in Sampled(cur)
  BY AtWork DEF Side, Kinds, Order, WorkerAt
<1>2. /\ at' = at + 1 /\ step' \in {"sample", "restore", "finish"} /\ cur' = cur
      /\ clip' = [clip EXCEPT ![cur][at] = [k \in {"bin", "side"} |-> cur]]
      /\ dir' = [dir EXCEPT ![cur][n] = Opened(cur, n)]
      /\ data' = [data EXCEPT ![Opened(cur, n)] = cur]
      /\ UNCHANGED <<status, out, first, last, pick, rushed, points>>
  BY <1>1 DEF Side, Goto, jobVars, Entry
<1>3. dir[cur][m] = Inode(cur, m) /\ data[Inode(cur, m)] = cur
  BY DEF Takes, InHand, Side
<1>4. Opened(cur, n) = Inode(cur, n)
  BY <1>1, OpensOwn
<1>5. Writes(n, cur)
  <2>1. n[2] = "side" => dir[cur][<<n[1], "bin">>] = Inode(cur, <<n[1], "bin">>)
    BY <1>1, <1>3
  <2> HIDE DEF n, m
  <2> QED
    BY <1>1, <1>2, <1>4, <2>1 DEF Writes, TypeOK
<1>6. /\ Placed' /\ Linked' /\ Own' /\ Holds' /\ Together' /\ Picked' /\ Kept'
  BY <1>5, WritesKeep
<1>7. \A c \in Jobs, x \in Names :
         data'[Inode(c, x)] = IF c = cur /\ x = n THEN cur ELSE data[Inode(c, x)]
  BY <1>5, WritesData
<1>8. \A s \in Shot : /\ <<s, "bin">> \in Names /\ <<s, "bin">> # n
                      /\ <<s, "side">> \in Names /\ (<<s, "side">> = n <=> s = at)
                      /\ (at + 1 <= s => at <= s /\ s # at)
                      /\ (s < at + 1 <=> s < at \/ s = at)
  <2>1. \A s \in Shot : s \in Int /\ at \in Int
    BY <1>1, LatentBankAssumption DEF Shot
  <2>2. \A s \in Shot : /\ (at + 1 <= s => at <= s /\ s # at)
                        /\ (s < at + 1 <=> s < at \/ s = at)
    BY <2>1
  <2>3. \A s \in Shot : <<s, "bin">> \in Names /\ <<s, "side">> \in Names
    BY NameType DEF Kinds
  <2> QED
    BY <2>2, <2>3
<1> HIDE DEF n, m
<1>9. Fresh'
  <2> SUFFICES ASSUME NEW j \in Jobs, NEW s \in Shot,
                      status[j] \in {"new", "queued"} \/ (j = cur /\ at + 1 <= s)
               PROVE  data'[Inode(j, <<s, "side">>)] = None
    BY <1>2, FreshThen
  <2>1. ~(j = cur /\ s = at) /\ (j = cur => at <= s)
    BY <1>1, <1>8
  <2>2. data'[Inode(j, <<s, "side">>)] = data[Inode(j, <<s, "side">>)]
    BY <1>7, <1>8, <2>1
  <2> QED
    BY <2>1, <2>2 DEF Takes, Fresh
<1>10. Trio'
  <2> SUFFICES ASSUME NEW c \in Jobs, NEW s \in Shot, data'[Inode(c, <<s, "side">>)] = c
               PROVE  data'[Inode(c, <<s, "bin">>)] = c
    BY DEF Trio, Inode
  <2>1. data'[Inode(c, <<s, "bin">>)] = data[Inode(c, <<s, "bin">>)]
    BY <1>7, <1>8
  <2>2. CASE c = cur /\ s = at
    BY <1>3, <2>1, <2>2 DEF m
  <2>3. CASE ~(c = cur /\ s = at)
    BY <1>7, <1>8, <2>1, <2>3 DEF Takes, Trio
  <2> QED
    BY <2>2, <2>3
<1>11. InHand'
  BY <1>2 DEF InHand
<1>12. Recorded'
  <2> SUFFICES ASSUME NEW j \in Jobs, j \notin rushed, NEW s \in Shot, NEW k \in {"bin", "side"},
                      clip'[j][s]["bin"] # None,
                      (status[j] = "completed" /\ Present(j)) \/ (j = cur /\ s < at + 1)
               PROVE  Read(j, <<s, k>>)' = clip'[j][s][k]
    BY <1>2, RecordedThen
  <2>1. <<s, k>> \in Names /\ (s # at => <<s, k>> # n)
    BY NameType DEF Kinds, n
  <2>2. CASE j = cur /\ s = at
    <3>1. clip'[j][s][k] = cur
      BY <1>1, <1>2, <2>2 DEF TypeOK
    <3>2. CASE k = "bin"
      <4>1. <<s, k>> \in Names /\ <<s, k>> # n /\ <<s, k>> = m
        BY <1>1, <2>2, <3>2 DEF n, m
      <4>2. Read(j, <<s, k>>)' = Read(j, <<s, k>>)
        BY <1>5, <4>1, WritesSpare
      <4>3. Read(j, <<s, k>>) = cur
        BY <1>1, <1>3, <2>2, <4>1, InodeIsOne DEF Read
      <4> QED
        BY <3>1, <4>2, <4>3
    <3>3. CASE k = "side"
      <4>1. <<s, k>> \in Names /\ <<s, k>> = n
        BY <1>1, <2>2, <3>3 DEF n
      <4>2. dir'[j][<<s, k>>] = Inode(j, <<s, k>>) /\ data'[Inode(j, <<s, k>>)] = cur
        BY <1>5, <1>7, <2>2, <4>1 DEF Writes
      <4>3. Inode(j, <<s, k>>) # NoFile
        BY <4>1, InodeIsOne
      <4> QED
        BY <3>1, <4>2, <4>3 DEF Read
    <3> QED
      BY <3>2, <3>3
  <2>3. CASE ~(j = cur /\ s = at)
    <3>1. clip'[j][s] = clip[j][s]
      BY <1>1, <1>2, <2>3 DEF TypeOK
    <3>2. Read(j, <<s, k>>)' = Read(j, <<s, k>>)
      BY <1>5, <2>1, <2>3, WritesSpare
    <3>3. (status[j] = "completed" /\ Present(j)) \/ (j = cur /\ s < at)
      BY <1>8, <2>3
    <3> QED
      BY <3>1, <3>2, <3>3 DEF Takes, Recorded
  <2> QED
    BY <2>2, <2>3
<1> QED
  BY <1>5, <1>6, <1>9, <1>10, <1>11, <1>12 DEF Takes

LEMMA PublishTakes ==
    ASSUME TypeOK, Order, Homed, ForkHeld, Takes, Publish
    PROVE  Takes' /\ \E m, v : Writes(m, v)
<1> DEFINE n == <<busy, "webm">>
<1>1. busy # NoShot
  BY DEF Publish
<1>2. /\ cur \in Jobs /\ busy \in Shot /\ busy \in Sampled(cur) /\ n \in Names
      /\ n[1] = busy /\ n[2] = "webm"
  BY <1>1, Encodes, NameType DEF Kinds
<1>3. status[cur] = "generating" /\ out[cur] = cur /\ Present(cur)
  <2>1. status[cur] = "generating"
    BY <1>2 DEF Order, WorkerAt
  <2> QED
    BY <1>2, <2>1, OwnBank DEF Takes, Placed, Active
<1>4. /\ dir' = [dir EXCEPT ![cur][n] = Inode(cur, n)]
      /\ data' = [data EXCEPT ![Inode(cur, n)] = cur]
      /\ UNCHANGED <<cur, at, step, clip, status, out, first, last, pick, rushed, points>>
  BY <1>3 DEF Publish, EncoderIdle, jobVars, workVars
<1> HIDE DEF n
<1>5. Writes(n, cur)
  BY <1>2, <1>3, <1>4 DEF Writes, TypeOK
<1>6. /\ Placed' /\ Linked' /\ Own' /\ Holds' /\ Together' /\ Picked' /\ Kept'
  BY <1>5, WritesKeep
<1>7. \A s \in Shot, k \in {"bin", "side"} : <<s, k>> \in Names /\ <<s, k>> # n
  <2>1. \A s \in Shot, k \in {"bin", "side"} : <<s, k>> \in Names
    BY NameType DEF Kinds
  <2> QED
    BY <2>1 DEF n
<1>8. \A c \in Jobs, s \in Shot, k \in {"bin", "side"} :
         data'[Inode(c, <<s, k>>)] = data[Inode(c, <<s, k>>)]
  <2> TAKE c \in Jobs, s \in Shot, k \in {"bin", "side"}
  <2>1. <<s, k>> \in Names /\ <<s, k>> # n
    BY <1>7
  <2> QED
    BY <1>5, <2>1, WritesData
<1>9. Fresh' /\ Trio'
  <2>1. Fresh'
    <3> SUFFICES ASSUME NEW j \in Jobs, NEW s \in Shot,
                        status[j] \in {"new", "queued"} \/ (j = cur /\ at <= s)
                 PROVE  data'[Inode(j, <<s, "side">>)] = None
      BY <1>4, FreshThen
    <3> QED
      BY <1>8 DEF Takes, Fresh
  <2>2. Trio'
    BY <1>8 DEF Takes, Trio
  <2> QED
    BY <2>1, <2>2
<1>10. InHand'
  <2> SUFFICES ASSUME step \in {"save", "preview", "side"}
               PROVE  /\ dir'[cur][<<at, "bin">>] = Inode(cur, <<at, "bin">>)
                      /\ step \in {"preview", "side"} =>
                            data'[Inode(cur, <<at, "bin">>)] = cur
    BY <1>4 DEF InHand, Inode
  <2>1. at \in Shot
    BY Working
  <2>2. dir'[cur][<<at, "bin">>] = dir[cur][<<at, "bin">>]
    BY <1>2, <1>5, <1>7, <2>1, WritesSpare DEF Writes
  <2> QED
    BY <1>2, <1>8, <2>1, <2>2 DEF Takes, InHand
<1>11. Recorded'
  <2> SUFFICES ASSUME NEW j \in Jobs, j \notin rushed, NEW s \in Shot, NEW k \in {"bin", "side"},
                      clip[j][s]["bin"] # None,
                      (status[j] = "completed" /\ Present(j)) \/ (j = cur /\ s < at)
               PROVE  Read(j, <<s, k>>)' = clip[j][s][k]
    BY <1>4, RecordedThen
  <2>1. Read(j, <<s, k>>)' = Read(j, <<s, k>>)
    BY <1>5, <1>7, WritesSpare
  <2> QED
    BY <2>1 DEF Takes, Recorded
<1> QED
  BY <1>5, <1>6, <1>9, <1>10, <1>11 DEF Takes

-----------------------------------------------------------------------------
(* Where each shot of a new bank comes from.                                *)
LinkedFrom(j, lo, hi, p) ==
    \A s \in Shot :
       \/ p[s] = None /\ \A k \in Kinds : dir'[j][<<s, k>>] = NoFile
       \/ /\ s \notin lo..hi
          /\ \E x \in Jobs : /\ p[s] # None => x = p[s]
                             /\ j \notin rushed' => status[x] \in Ended /\ x \notin rushed
                             /\ \A k \in Kinds : dir'[j][<<s, k>>] = dir[x][<<s, k>>]

LEMMA NewBankTakes ==
    ASSUME TypeOK, Order, Takes, NEW j \in Jobs, j = made + 1,
           NEW lo \in Shot, NEW hi \in Shot, NEW p \in [Shot -> Jobs \cup {None}],
           Enqueue(j, lo, hi, p, j), LinkedFrom(j, lo, hi, p),
           \A b \in Jobs : b # j => dir'[b] = dir[b],
           \A s \in 0..(lo - 1) : p[s] = None => dir'[j][<<s, "bin">>] # NoFile,
           rushed' \in {rushed, rushed \cup {j}}
    PROVE  Takes'
<1>1. status[j] = "new" /\ j \notin Active /\ Active \subseteq Jobs
  <2>1. made \in Nat /\ Jobs \subseteq Nat
    BY TornType DEF TypeOK, Jobs
  <2>2. status[j] = "new"
    BY <2>1 DEF Order, MadeInOrder
  <2> QED
    BY <2>2 DEF Active
<1>2. /\ \A k \in Jobs : k # j => /\ status'[k] = status[k] /\ points'[k] = points[k]
                                  /\ pick'[k] = pick[k] /\ first'[k] = first[k]
                                  /\ last'[k] = last[k] /\ dir'[k] = dir[k]
      /\ status'[j] = "queued" /\ points'[j] = j /\ pick'[j] = p
      /\ first'[j] = lo /\ last'[j] = hi
      /\ UNCHANGED <<data, cur, at, step, clip>>
  BY DEF Enqueue, TypeOK, ghostVars
<1>3. /\ \A k \in Jobs : k # j => (k \in Active' <=> k \in Active) /\ Sampled(k)' = Sampled(k)
      /\ Sampled(j)' = lo..hi /\ j \in Active' /\ Active' \subseteq Jobs
  BY <1>2 DEF Active, Sampled
<1>4. \A x \in Jobs : status[x] \in Ended => x # j /\ status'[x] \in Ended
  BY <1>1, <1>2 DEF Ended
<1>5. \A n \in Names : /\ n[1] \in Shot /\ n[2] \in Kinds /\ n = <<n[1], n[2]>>
  BY DEF Names
<1>6. \A s \in Shot : /\ <<s, "bin">> \in Names /\ <<s, "side">> \in Names
  BY NameType DEF Kinds
<1>7. Placed'
  BY <1>2, <1>3 DEF Takes, Placed, Present
<1>8. Linked'
  <2> SUFFICES ASSUME NEW b \in Jobs, b \notin rushed', NEW n \in Names, dir'[b][n] # NoFile
               PROVE  \E c \in Jobs : dir'[b][n] = Inode(c, n)
                                      /\ (c = b \/ status'[c] \in Ended)
    BY DEF Linked
  <2>1. CASE b # j
    BY <1>2, <1>4, <2>1 DEF Takes, Linked
  <2>2. CASE b = j
    <3>1. PICK x \in Jobs \ rushed : status[x] \in Ended /\ dir'[j][n] = dir[x][n]
      BY <1>5, <2>2 DEF LinkedFrom
    <3>2. PICK c \in Jobs : dir[x][n] = Inode(c, n) /\ (c = x \/ status[c] \in Ended)
      BY <2>2, <3>1 DEF Takes, Linked
    <3> QED
      BY <1>4, <2>2, <3>1, <3>2
  <2> QED
    BY <2>1, <2>2
<1>9. Own'
  <2> SUFFICES ASSUME NEW k \in Active', NEW n \in Names, n[1] \in Sampled(k)'
               PROVE  dir'[k][n] \in {NoFile, Inode(k, n)}
    BY DEF Own
  <2>1. CASE k # j
    BY <1>2, <1>3, <2>1 DEF Takes, Own
  <2>2. CASE k = j
    <3>1. n[1] \in lo..hi
      BY <1>3, <2>2
    <3> QED
      BY <1>5, <2>2, <3>1 DEF LinkedFrom
  <2> QED
    BY <2>1, <2>2
<1>10. Holds' /\ Trio'
  BY <1>2 DEF Takes, Holds, Trio
<1>11. Fresh'
  BY <1>1, <1>2 DEF Takes, Fresh
<1>12. Together'
  <2> SUFFICES ASSUME NEW b \in Jobs, NEW c \in Jobs, NEW s \in Shot,
                      dir'[b][<<s, "side">>] = Inode(c, <<s, "side">>)
               PROVE  dir'[b][<<s, "bin">>] = Inode(c, <<s, "bin">>)
    BY DEF Together
  <2>1. CASE b # j
    BY <1>2, <2>1 DEF Takes, Together
  <2>2. CASE b = j
    <3>1. dir'[j][<<s, "side">>] # NoFile
      BY <1>6, <2>2, InodeIsOne
    <3>2. PICK x \in Jobs : \A k \in Kinds : dir'[j][<<s, k>>] = dir[x][<<s, k>>]
      BY <3>1 DEF LinkedFrom, Kinds
    <3> QED
      BY <2>2, <3>2 DEF Takes, Together, Kinds
  <2> QED
    BY <2>1, <2>2
<1>13. cur # j
  BY <1>1 DEF Order, WorkerAt
<1>14. InHand'
  <2>1. step # "idle" => cur \in Jobs
    BY Working
  <2> QED
    BY <1>2, <1>13, <2>1 DEF Takes, InHand
<1>15. Picked'
  <2> SUFFICES ASSUME NEW i \in Active', i \notin rushed', NEW s \in Shot, pick'[i][s] # None
               PROVE  /\ status'[pick'[i][s]] \in Ended /\ s \notin Sampled(i)'
                      /\ \/ dir'[pick'[i][s]][<<s, "bin">>] = NoFile
                         \/ \A k \in {"bin", "side"} :
                               dir'[pick'[i][s]][<<s, k>>] = dir'[i][<<s, k>>]
    BY DEF Picked
  <2>1. CASE i # j
    <3>1. i \in Active \ rushed /\ i \in Jobs /\ pick'[i] = pick[i] /\ pick[i][s] \in Jobs
          /\ pick[i][s] # None
      <4>1. i \in Active \ rushed /\ i \in Jobs /\ pick'[i] = pick[i] /\ pick[i][s] # None
        BY <1>2, <1>3, <2>1
      <4>2. pick[i][s] \in Jobs \cup {None}
        BY <4>1 DEF TypeOK
      <4> QED
        BY <4>1, <4>2
    <3>2. /\ status[pick[i][s]] \in Ended /\ s \notin Sampled(i)
          /\ \/ dir[pick[i][s]][<<s, "bin">>] = NoFile
             \/ \A k \in {"bin", "side"} : dir[pick[i][s]][<<s, k>>] = dir[i][<<s, k>>]
      BY <3>1 DEF Takes, Picked
    <3>3. pick[i][s] # j /\ status'[pick[i][s]] \in Ended
      BY <1>4, <3>1, <3>2
    <3>4. dir'[pick[i][s]] = dir[pick[i][s]] /\ dir'[i] = dir[i]
      BY <1>2, <2>1, <3>1, <3>3
    <3>5. Sampled(i)' = Sampled(i)
      BY <1>3, <2>1, <3>1
    <3> QED
      BY <3>1, <3>2, <3>3, <3>4, <3>5
  <2>2. CASE i = j
    <3>1. p[s] # None /\ pick'[i][s] = p[s] /\ p[s] \in Jobs
      BY <1>2, <2>2
    <3>2. /\ s \notin lo..hi /\ status[p[s]] \in Ended
          /\ \A k \in Kinds : dir'[j][<<s, k>>] = dir[p[s]][<<s, k>>]
      BY <2>2, <3>1 DEF LinkedFrom
    <3> QED
      BY <1>2, <1>3, <1>4, <2>2, <3>1, <3>2 DEF Kinds
  <2> QED
    BY <2>1, <2>2
<1>16. Kept'
  <2> SUFFICES ASSUME NEW i \in Active', NEW s \in 0..(first'[i] - 1), pick'[i][s] = None
               PROVE  dir'[i][<<s, "bin">>] # NoFile
    BY DEF Kept
  <2>1. CASE i = j
    BY <1>2, <2>1
  <2>2. CASE i # j
    BY <1>2, <1>3, <2>2 DEF Takes, Kept
  <2> QED
    BY <2>1, <2>2
<1>17. Recorded'
  <2> SUFFICES ASSUME NEW i \in Jobs, i \notin rushed', NEW s \in Shot, NEW k \in {"bin", "side"},
                      clip[i][s]["bin"] # None,
                      (status'[i] = "completed" /\ points'[i] = i) \/ (i = cur /\ s < at)
               PROVE  Read(i, <<s, k>>)' = clip[i][s][k]
    <3>1. UNCHANGED <<cur, at, clip>>
      BY <1>2
    <3> QED
      BY <3>1, RecordedNext
  <2>1. i # j /\ i \in Jobs \ rushed
    BY <1>2, <1>13
  <2>2. Read(i, <<s, k>>)' = Read(i, <<s, k>>)
    BY <1>2, <2>1 DEF Read
  <2>3. (status[i] = "completed" /\ Present(i)) \/ (i = cur /\ s < at)
    BY <1>2, <2>1 DEF Present
  <2>4. Recorded /\ i \notin rushed
    BY <2>1 DEF Takes
  <2>5. Read(i, <<s, k>>) = clip[i][s][k]
    BY <2>3, <2>4 DEF Recorded
  <2> QED
    BY <2>2, <2>5
<1> QED
  BY <1>7, <1>8, <1>9, <1>10, <1>11, <1>12, <1>14, <1>15, <1>16, <1>17 DEF Takes

LEMMA SubmitTakes == ASSUME TypeOK, Order, Takes, Submit PROVE Takes'
<1> DEFINE j == made + 1
           p == [s \in Shot |-> None]
<1>1. /\ j \in Jobs /\ p \in [Shot -> Jobs \cup {None}]
      /\ 0 \in Shot /\ Shots - 1 \in Shot
      /\ Enqueue(j, 0, Shots - 1, p, j) /\ dir' = dir /\ rushed' = rushed
  BY LatentBankAssumption DEF Submit, Shot
<1>2. dir[j] = Empty
  <2>1. made \in Nat /\ Jobs \subseteq Nat
    BY TornType DEF TypeOK, Jobs
  <2> QED
    BY <1>1, <2>1 DEF Order, MadeInOrder
<1>3. LinkedFrom(j, 0, Shots - 1, p)
  <2>1. \A s \in Shot, k \in Kinds : dir'[j][<<s, k>>] = NoFile
    <3>1. \A n \in Names : dir'[j][n] = NoFile
      BY <1>1, <1>2 DEF Empty
    <3> QED
      BY <3>1, NameType
  <2> QED
    BY <2>1 DEF LinkedFrom
<1> HIDE DEF p
<1>4. 0..(0 - 1) = {}
  OBVIOUS
<1> QED
  BY <1>1, <1>3, <1>4, NewBankTakes

(* A bank that is settled belongs to a job that has ended.                  *)
LEMMA SourceEnded ==
    ASSUME TypeOK, Order, ForkHeld, NEW b \in Jobs, Present(b),
           b \notin Active \/ b \notin Unsettled
    PROVE  status[b] \in Ended
<1>1. status[b] # "new"
  BY TornType DEF Order, MadeInOrder, Present
<1>2. out[b] = b
  BY <1>1, OwnBank
<1>3. b \notin Active
  BY <1>2 DEF Unsettled
<1> QED
  BY <1>1, <1>3 DEF TypeOK, Active

LEMMA ReuseTakes ==
    ASSUME TypeOK, Order, ForkHeld, ForkHeld', Takes,
           NEW r \in Jobs, Resolve(r) \in Jobs, Present(Resolve(r)),
           status[r] \notin {"queued", "generating"},
           NEW lo \in Shot, NEW hi \in Shot, Reuse(r, lo, hi),
           lo # 0 => Banked(Resolve(r), lo - 1)
    PROVE  Takes'
<1> DEFINE j == made + 1
           src == Resolve(r)
<1>1. src = r
  BY ResolveType, TornType DEF Takes, Placed
<1>2. status[src] \in Ended
  BY <1>1, SourceEnded DEF Active
<1>3. j \in Jobs
  BY DEF Reuse
<1>4. j # src
  <2>1. made \in Nat /\ Jobs \subseteq Nat
    BY TornType DEF TypeOK, Jobs
  <2> QED
    BY <1>2, <1>3, <2>1 DEF Order, MadeInOrder, Ended
<1>5. PICK p \in Picks(lo, hi) :
          \/ /\ Enqueue(j, lo, hi, p, j)
             /\ dir' = [dir EXCEPT ![j] = ForkLinks(src, lo, hi, p)]
             /\ rushed' = IF ({src} \cup {p[s] : s \in Shot}) \cap Unsettled = {}
                          THEN rushed ELSE rushed \cup {j}
          \/ /\ Fault
             /\ Enqueue(j, lo, hi, p, src)
             /\ UNCHANGED dir
  BY DEF Reuse
<1> HIDE DEF src
<1>6. ~Enqueue(j, lo, hi, p, src)
  <2> SUFFICES ASSUME Enqueue(j, lo, hi, p, src) PROVE FALSE
    OBVIOUS
  <2>1. out'[j] = src /\ src \in Jobs
    BY <1>3 DEF Enqueue, TypeOK, src
  <2>2. src # None
    BY <2>1, TornType
  <2> QED
    BY <1>3, <1>4, <2>1, <2>2 DEF ForkHeld, Fallen
<1>7. Enqueue(j, lo, hi, p, j) /\ dir' = [dir EXCEPT ![j] = ForkLinks(src, lo, hi, p)]
  BY <1>5, <1>6
<1>16. /\ rushed' \in {rushed, rushed \cup {j}}
       /\ j \notin rushed' => ({src} \cup {p[s] : s \in Shot}) \cap Unsettled = {}
  BY <1>5, <1>6
<1>8. p \in [Shot -> Jobs \cup {None}]
  BY PicksType
<1>9. \A s \in Shot : /\ s \in lo..hi => p[s] = None
                      /\ p[s] # None => /\ p[s] \in Jobs
                                        /\ j \notin rushed' => /\ status[p[s]] \in Ended
                                                             /\ p[s] \notin rushed
  <2> TAKE s \in Shot
  <2>1. s \in lo..hi => p[s] = None
    BY DEF Picks
  <2>2. ASSUME p[s] # None
        PROVE  /\ p[s] \in Jobs
               /\ j \notin rushed' => status[p[s]] \in Ended /\ p[s] \notin rushed
    <3>1. p[s] \in Pickable /\ p[s] \in Jobs
      BY <2>2 DEF Picks, Pickable
    <3>2. Present(p[s])
      BY <3>1, ResolveType, TornType DEF Pickable
    <3>3. j \notin rushed' => p[s] \notin Unsettled
      BY <1>16
    <3>4. j \notin rushed' => p[s] \notin rushed
      BY <3>3 DEF Unsettled
    <3> QED
      BY <3>1, <3>2, <3>3, <3>4, SourceEnded
  <2> QED
    BY <2>1, <2>2
<1>10. \A n \in Names : dir'[j][n] = ForkLinks(src, lo, hi, p)[n]
  BY <1>3, <1>7 DEF TypeOK
<1>11. ASSUME NEW s \in Shot, NEW k \in Kinds
       PROVE  dir'[j][<<s, k>>] = IF s \in lo..hi THEN NoFile
                                  ELSE dir[IF p[s] # None THEN p[s] ELSE src][<<s, k>>]
  BY <1>10, NameType DEF ForkLinks
<1>12. src \in Jobs
  BY DEF src
<1>13. LinkedFrom(j, lo, hi, p)
  <2> SUFFICES ASSUME NEW s \in Shot
               PROVE  \/ p[s] = None /\ \A k \in Kinds : dir'[j][<<s, k>>] = NoFile
                      \/ /\ s \notin lo..hi
                         /\ \E x \in Jobs :
                               /\ p[s] # None => x = p[s]
                               /\ j \notin rushed' => status[x] \in Ended /\ x \notin rushed
                               /\ \A k \in Kinds : dir'[j][<<s, k>>] = dir[x][<<s, k>>]
    BY DEF LinkedFrom
  <2>1. CASE s \in lo..hi
    BY <1>9, <1>11, <2>1
  <2>2. CASE s \notin lo..hi /\ p[s] # None
    BY <1>9, <1>11, <2>2
  <2>3. CASE s \notin lo..hi /\ p[s] = None
    <3>1. j \notin rushed' => src \notin rushed
      BY <1>16 DEF Unsettled
    <3> QED
      BY <1>2, <1>11, <1>12, <2>3, <3>1
  <2> QED
    BY <2>1, <2>2, <2>3
<1>14. ASSUME NEW s \in 0..(lo - 1), p[s] = None PROVE dir'[j][<<s, "bin">>] # NoFile
  <2>1. s \in Shot /\ s \notin lo..hi /\ lo # 0
    BY LatentBankAssumption DEF Shot
  <2>2. dir[src][<<s, "bin">>] # NoFile
    BY <2>1 DEF Banked, src
  <2> QED
    BY <1>11, <1>14, <2>1, <2>2 DEF Kinds
<1>15. \A b \in Jobs : b # j => dir'[b] = dir[b]
  BY <1>7 DEF TypeOK
<1> QED
  BY <1>3, <1>7, <1>8, <1>13, <1>14, <1>15, <1>16, NewBankTakes

LEMMA DeleteTakes ==
    ASSUME TypeOK, Order, Takes, DeleteRemoves PROVE Takes'
<1>1. /\ del \in Jobs /\ status[del] \in Ended
      /\ UNCHANGED <<jobVars, data, workVars, writerVars, faults, ghostVars>>
  BY DEF DeleteRemoves, TypeOK, Order, DeletesEnded
<1>2. UNCHANGED <<status, out, first, last, pick, rushed, data, cur, at, step, clip>>
  BY <1>1 DEF jobVars, workVars, ghostVars
<1>3. CASE Resolve(del) = None
  <2>1. UNCHANGED <<points, dir>>
    BY <1>3 DEF DeleteRemoves
  <2> QED
    BY <1>2, <2>1, DiskKept, WorkKept, AllTakes
<1>4. CASE Resolve(del) # None
  <2>1. Resolve(del) = del
    BY <1>1, <1>4, ResolveType, TornType DEF Takes, Placed
  <2>2. /\ \A j \in Jobs : points'[j] = IF j = del THEN None ELSE points[j]
        /\ \A j \in Jobs : j # del => dir'[j] = dir[j]
        /\ \A n \in Names : dir'[del][n] = NoFile
    <3>1. /\ points' = [points EXCEPT ![del] = None, ![del] = None]
          /\ dir' = [dir EXCEPT ![del] = Empty]
      BY <1>4, <2>1 DEF DeleteRemoves
    <3>2. /\ points \in [Jobs -> Jobs \cup {None}]
          /\ dir \in [Jobs -> [Names -> Inodes \cup {NoFile}]]
      BY DEF TypeOK
    <3> QED
      BY <1>1, <3>1, <3>2 DEF Empty
  <2>3. /\ del \notin Active /\ del # None /\ Active \subseteq Jobs
        /\ Active' = Active /\ \A j \in Jobs : Sampled(j)' = Sampled(j)
    BY <1>1, <1>2, TornType DEF Active, Sampled, Ended
  <2>4. Placed'
    BY <2>2, <2>3 DEF Takes, Placed, Present
  <2>5. \A b \in Jobs, n \in Names : dir'[b][n] # NoFile => b # del /\ dir'[b][n] = dir[b][n]
    BY <2>2
  <2>6. Linked'
    BY <1>2, <2>5 DEF Takes, Linked
  <2>7. Own'
    <3> SUFFICES ASSUME NEW j \in Active, NEW n \in Names, n[1] \in Sampled(j)
                 PROVE  dir'[j][n] \in {NoFile, Inode(j, n)}
      BY <2>3 DEF Own
    <3> QED
      BY <2>2, <2>3 DEF Takes, Own
  <2>8. Holds' /\ Trio' /\ Fresh'
    BY <1>2 DEF Takes, Holds, Trio, Fresh
  <2>9. Together'
    <3> SUFFICES ASSUME NEW b \in Jobs, NEW c \in Jobs, NEW s \in Shot,
                        dir'[b][<<s, "side">>] = Inode(c, <<s, "side">>)
                 PROVE  dir'[b][<<s, "bin">>] = Inode(c, <<s, "bin">>)
      BY DEF Together
    <3>1. <<s, "side">> \in Names
      BY NameType DEF Kinds
    <3>2. b # del
      BY <2>5, <3>1, InodeIsOne
    <3> QED
      BY <2>2, <3>2 DEF Takes, Together
  <2>10. cur # del
    BY <1>1 DEF Order, WorkerAt, Ended
  <2>11. InHand'
    <3>1. step # "idle" => cur \in Jobs
      BY Working
    <3> QED
      BY <1>2, <2>2, <2>10, <3>1 DEF Takes, InHand
  <2>12. Picked'
    <3> SUFFICES ASSUME NEW j \in Active, j \notin rushed, NEW s \in Shot, pick[j][s] # None
                 PROVE  /\ status[pick[j][s]] \in Ended /\ s \notin Sampled(j)
                        /\ \/ dir'[pick[j][s]][<<s, "bin">>] = NoFile
                           \/ \A k \in {"bin", "side"} :
                                 dir'[pick[j][s]][<<s, k>>] = dir'[j][<<s, k>>]
      BY <1>2, <2>3 DEF Picked
    <3>1. pick[j][s] \in Jobs /\ j \in Jobs /\ j # del
      BY <2>3 DEF TypeOK
    <3>2. /\ status[pick[j][s]] \in Ended /\ s \notin Sampled(j)
          /\ \/ dir[pick[j][s]][<<s, "bin">>] = NoFile
             \/ \A k \in {"bin", "side"} : dir[pick[j][s]][<<s, k>>] = dir[j][<<s, k>>]
      BY DEF Takes, Picked
    <3>3. <<s, "bin">> \in Names
      BY NameType DEF Kinds
    <3>4. CASE pick[j][s] = del
      BY <2>2, <3>2, <3>3, <3>4
    <3>5. CASE pick[j][s] # del
      BY <2>2, <3>1, <3>2, <3>5
    <3> QED
      BY <3>4, <3>5
  <2>13. Kept'
    <3> SUFFICES ASSUME NEW j \in Active, NEW s \in 0..(first[j] - 1), pick[j][s] = None
                 PROVE  dir'[j][<<s, "bin">>] # NoFile
      BY <1>2, <2>3 DEF Kept
    <3> QED
      BY <2>2, <2>3 DEF Takes, Kept
  <2>14. Recorded'
    <3> SUFFICES ASSUME NEW j \in Jobs, j \notin rushed, NEW s \in Shot, NEW k \in {"bin", "side"},
                        clip[j][s]["bin"] # None,
                        (status[j] = "completed" /\ points'[j] = j) \/ (j = cur /\ s < at)
                 PROVE  Read(j, <<s, k>>)' = clip[j][s][k]
      BY <1>2 DEF Recorded, Present
    <3>1. j # del
      BY <2>2, <2>3, <2>10
    <3>2. Read(j, <<s, k>>)' = Read(j, <<s, k>>)
      BY <1>2, <2>2, <3>1 DEF Read
    <3>3. (status[j] = "completed" /\ Present(j)) \/ (j = cur /\ s < at)
      BY <2>2, <3>1 DEF Present
    <3> QED
      BY <3>2, <3>3 DEF Takes, Recorded
  <2> QED
    BY <2>4, <2>6, <2>7, <2>8, <2>9, <2>11, <2>12, <2>13, <2>14 DEF Takes
<1> QED
  BY <1>3, <1>4

-----------------------------------------------------------------------------
(* The other steps of the worker.                                           *)
LEMMA StartTakes == ASSUME TypeOK, Order, Takes, Start PROVE Takes'
<1> DEFINE j == Head(queue)
<1>1. /\ cur = None /\ queue # <<>> /\ cur' = j /\ queue' = Tail(queue)
      /\ status' = [status EXCEPT ![j] = "generating"]
      /\ at' = 0 /\ step' \in {"finish", "sample", "restore"}
      /\ UNCHANGED <<out, first, last, pick, rushed, points, dir, data, clip>>
  BY DEF Start, Goto, Entry, diskVars, ghostVars
<1>2. j \in Jobs /\ status[j] = "queued"
  <2>1. 1 \in 1..Len(queue) /\ j = queue[1] /\ j \in Jobs
    BY <1>1, QueueMoves
  <2> QED
    BY <2>1 DEF Order, QueueWaits
<1> HIDE DEF j
<1>3. \A k \in Jobs : status'[k] = IF k = j THEN "generating" ELSE status[k]
  BY <1>1 DEF TypeOK
<1>4. Lasting'
  BY <1>1, <1>2, <1>3, DiskKept DEF Ended
<1>5. Fresh'
  <2> SUFFICES ASSUME NEW i \in Jobs, NEW s \in Shot,
                      status'[i] \in {"new", "queued"} \/ i = j
               PROVE  data[Inode(i, <<s, "side">>)] = None
    BY <1>1 DEF Fresh
  <2>1. status[i] \in {"new", "queued"}
    BY <1>2, <1>3
  <2> QED
    BY <2>1 DEF Takes, Fresh
<1>6. InHand'
  BY <1>1 DEF InHand
<1>7. Recorded'
  <2> SUFFICES ASSUME NEW i \in Jobs, i \notin rushed', NEW s \in Shot,
                      NEW k \in {"bin", "side"}, clip'[i][s]["bin"] # None,
                      (status'[i] = "completed" /\ Present(i)') \/ (i = cur' /\ s < at')
               PROVE  Read(i, <<s, k>>)' = clip'[i][s][k]
    BY DEF Recorded
  <2>1. ~(s < at')
    BY <1>1, LatentBankAssumption DEF Shot
  <2>2. Present(i)' = Present(i) /\ Read(i, <<s, k>>)' = Read(i, <<s, k>>)
    BY <1>1 DEF Present, Read
  <2>3. status[i] = "completed" /\ Present(i)
    BY <1>3, <2>1, <2>2
  <2>4. Read(i, <<s, k>>) = clip[i][s][k]
    BY <1>1, <2>3 DEF Takes, Recorded
  <2> QED
    BY <1>1, <2>2, <2>4
<1> QED
  BY <1>4, <1>5, <1>6, <1>7, AllTakes

LEMMA RestoreTakes ==
    ASSUME TypeOK, Order, ForkHeld, Takes, Restore PROVE Takes'
<1>1. /\ step = "restore" /\ Readable(Stem(cur, at), at)
      /\ clip' = [clip EXCEPT ![cur][at] = [k \in {"bin", "side"} |->
                                               Read(Stem(cur, at), <<at, k>>)]]
      /\ at' = at + 1 /\ step' \in {"finish", "sample", "restore"}
      /\ UNCHANGED <<status, out, first, last, pick, rushed, points, dir, data, cur>>
  BY DEF Restore, Goto, Entry, jobVars, diskVars
<1>2. /\ cur \in Jobs /\ status[cur] = "generating" /\ out[cur] = cur /\ at \in Shot
      /\ cur \in Active
  BY <1>1, AtWork DEF Active
<1>3. Lasting'
  BY <1>1, DiskKept
<1>4. \A s \in Shot : /\ (at + 1 <= s => at <= s)
                      /\ (s < at + 1 <=> s < at \/ s = at)
  <2>1. \A s \in Shot : s \in Int /\ at \in Int
    BY <1>2, LatentBankAssumption DEF Shot
  <2> QED
    BY <2>1
<1>5. Fresh'
  BY <1>1, <1>4, FreshThen DEF Takes, Fresh
<1>6. InHand'
  BY <1>1 DEF InHand
<1>7. ASSUME cur \notin rushed
      PROVE  \A k \in {"bin", "side"} : Read(Stem(cur, at), <<at, k>>) = Read(cur, <<at, k>>)
  <2>1. CASE pick[cur][at] = None
    BY <1>2, <2>1 DEF Stem
  <2>2. CASE pick[cur][at] # None
    <3>1. Stem(cur, at) = pick[cur][at]
      BY <2>2 DEF Stem
    <3>2. dir[pick[cur][at]][<<at, "bin">>] # NoFile
      BY <1>1, <3>1 DEF Readable, Read
    <3>3. \A k \in {"bin", "side"} : dir[pick[cur][at]][<<at, k>>] = dir[cur][<<at, k>>]
      BY <1>2, <1>7, <2>2, <3>2 DEF Takes, Picked
    <3> QED
      BY <3>1, <3>3 DEF Read
  <2> QED
    BY <2>1, <2>2
<1>8. Recorded'
  <2> SUFFICES ASSUME NEW j \in Jobs, j \notin rushed, NEW s \in Shot, NEW k \in {"bin", "side"},
                      clip'[j][s]["bin"] # None,
                      (status[j] = "completed" /\ Present(j)) \/ (j = cur /\ s < at + 1)
               PROVE  Read(j, <<s, k>>) = clip'[j][s][k]
    <3>1. at' = at + 1 /\ UNCHANGED <<status, points, dir, data, cur, rushed>>
      BY <1>1
    <3>2. \A j \in Jobs, n \in Names : Read(j, n)' = Read(j, n)
      BY <3>1 DEF Read
    <3>3. \A s \in Shot, k \in {"bin", "side"} : <<s, k>> \in Names
      BY NameType DEF Kinds
    <3> QED
      BY <3>1, <3>2, <3>3, RecordedThen
  <2>1. CASE j = cur /\ s = at
    <3>1. clip'[j][s][k] = Read(Stem(cur, at), <<at, k>>)
      BY <1>1, <1>2, <2>1 DEF TypeOK
    <3> QED
      BY <1>7, <2>1, <3>1
  <2>2. CASE ~(j = cur /\ s = at)
    <3>1. clip'[j][s] = clip[j][s]
      BY <1>1, <1>2, <2>2 DEF TypeOK
    <3>2. (status[j] = "completed" /\ Present(j)) \/ (j = cur /\ s < at)
      BY <1>4, <2>2
    <3> QED
      BY <3>1, <3>2 DEF Takes, Recorded
  <2> QED
    BY <2>1, <2>2
<1> QED
  BY <1>3, <1>5, <1>6, <1>8, AllTakes

LEMMA MoveTakes ==
    ASSUME TypeOK, Order, Takes, Fails \/ Preview PROVE Takes'
<1>1. /\ at' = at
      /\ (step' = "side" /\ step = "preview") \/ step' = "fail"
      /\ UNCHANGED <<status, out, first, last, pick, rushed, points, dir, data, cur, clip>>
  BY DEF Fails, Preview, Goto, jobVars, diskVars, ghostVars
<1>2. Lasting'
  BY <1>1, DiskKept
<1>3. Fresh' /\ Recorded'
  <2>1. Fresh'
    BY <1>1 DEF Takes, Fresh
  <2>2. Recorded'
    BY <1>1 DEF Takes, Recorded, Present, Read
  <2> QED
    BY <2>1, <2>2
<1>4. InHand'
  <2>1. CASE step' = "fail"
    BY <2>1 DEF InHand
  <2>2. CASE step' = "side" /\ step = "preview"
    BY <1>1, <2>2 DEF Takes, InHand
  <2> QED
    BY <1>1, <2>1, <2>2
<1> QED
  BY <1>2, <1>3, <1>4, AllTakes

LEMMA FinishTakes == ASSUME TypeOK, Order, Takes, Finish PROVE Takes'
<1>1. PICK st \in Ended, n \in 0..Shots :
         /\ n <= at
         /\ status' = [status EXCEPT ![cur] = st]
         /\ clip' = [clip EXCEPT ![cur] =
                        [s \in Shot |-> IF s < n THEN clip[cur][s] ELSE NoTake]]
  BY Ends
<1>2. /\ step \in {"finish", "fail"} /\ cur' = None /\ at' = 0 /\ step' = "idle"
      /\ UNCHANGED <<out, first, last, pick, rushed, points, dir, data>>
  BY DEF Finish, EndsWith, Goto, diskVars
<1>3. cur \in Jobs /\ status[cur] = "generating"
  BY <1>2, Working
<1>4. \A k \in Jobs : status'[k] = IF k = cur THEN st ELSE status[k]
  BY <1>1 DEF TypeOK
<1>5. Lasting'
  BY <1>1, <1>2, <1>3, <1>4, DiskKept DEF Ended
<1>6. Fresh'
  <2> SUFFICES ASSUME NEW j \in Jobs, NEW s \in Shot, status'[j] \in {"new", "queued"}
               PROVE  data[Inode(j, <<s, "side">>)] = None
    BY <1>2, TornType DEF Fresh
  <2>1. status[j] \in {"new", "queued"}
    BY <1>1, <1>4 DEF Ended
  <2> QED
    BY <2>1 DEF Takes, Fresh
<1>7. InHand'
  BY <1>2 DEF InHand
<1>8. Recorded'
  <2> SUFFICES ASSUME NEW j \in Jobs, j \notin rushed, NEW s \in Shot, NEW k \in {"bin", "side"},
                      clip'[j][s]["bin"] # None,
                      status'[j] = "completed" /\ Present(j)
               PROVE  Read(j, <<s, k>>) = clip'[j][s][k]
    <3>1. cur' = None /\ None \notin Jobs /\ UNCHANGED <<points, dir, data, rushed>>
      BY <1>2, TornType
    <3> QED
      BY <3>1 DEF Recorded, Present, Read
  <2>1. CASE j # cur
    <3>1. clip'[j] = clip[j] /\ status[j] = "completed"
      BY <1>1, <1>4, <2>1 DEF TypeOK
    <3> QED
      BY <3>1 DEF Takes, Recorded
  <2>2. CASE j = cur
    <3>1. clip'[j][s] = IF s < n THEN clip[j][s] ELSE NoTake
      BY <1>1, <1>3, <2>2 DEF TypeOK
    <3>2. s < n /\ clip'[j][s] = clip[j][s]
      BY <3>1 DEF NoTake
    <3>3. s < at
      BY <1>1, <3>2, LatentBankAssumption DEF Shot, TypeOK
    <3> QED
      BY <2>2, <3>2, <3>3 DEF Takes, Recorded
  <2> QED
    BY <2>1, <2>2
<1> QED
  BY <1>5, <1>6, <1>7, <1>8, AllTakes

LEMMA CrashTakes == ASSUME TypeOK, Order, Takes, Crash PROVE Takes'
<1>1. /\ status' = [j \in Jobs |-> IF j \in Active THEN "failed" ELSE status[j]]
      /\ clip' = [j \in Jobs |-> IF j \in Active THEN NoClip ELSE clip[j]]
      /\ cur' = None /\ step' = "idle"
      /\ UNCHANGED <<out, first, last, pick, rushed, points, dir, data>>
  BY DEF Crash, Goto, diskVars
<1>2. Lasting'
  BY <1>1, DiskKept DEF Active, Ended
<1>3. Fresh'
  <2> SUFFICES ASSUME NEW j \in Jobs, NEW s \in Shot, status'[j] \in {"new", "queued"}
               PROVE  data[Inode(j, <<s, "side">>)] = None
    BY <1>1, TornType DEF Fresh
  <2>1. status[j] \in {"new", "queued"}
    BY <1>1 DEF Active
  <2> QED
    BY <2>1 DEF Takes, Fresh
<1>4. InHand'
  BY <1>1 DEF InHand
<1>5. Recorded'
  <2> SUFFICES ASSUME NEW j \in Jobs, j \notin rushed, NEW s \in Shot, NEW k \in {"bin", "side"},
                      clip'[j][s]["bin"] # None,
                      status'[j] = "completed" /\ Present(j)
               PROVE  Read(j, <<s, k>>) = clip'[j][s][k]
    <3>1. cur' = None /\ None \notin Jobs /\ UNCHANGED <<points, dir, data, rushed>>
      BY <1>1, TornType
    <3> QED
      BY <3>1 DEF Recorded, Present, Read
  <2>1. status[j] = "completed" /\ clip'[j] = clip[j]
    BY <1>1 DEF Active
  <2> QED
    BY <2>1 DEF Takes, Recorded
<1> QED
  BY <1>2, <1>3, <1>4, <1>5, AllTakes

(* Steps that leave the disk and the worker alone.                          *)
LEMMA StillTakes ==
    ASSUME TypeOK, Order, Takes,
           \/ UNCHANGED vars \/ Take \/ EncodeFails
           \/ \E r \in Jobs : DeleteChecks(r) \/ CancelQueued(r)
    PROVE  Takes'
<1>1. /\ UNCHANGED <<points, dir, data, out, first, last, pick, rushed, cur, at, step, clip>>
      /\ status' = status \/ \E r \in Jobs : status' = [status EXCEPT ![r] = "failed"]
  <2>1. CASE UNCHANGED vars
    BY <2>1 DEF vars, jobVars, diskVars, workVars, ghostVars
  <2>2. CASE Take
    BY <2>2 DEF Take, jobVars, diskVars, workVars, ghostVars
  <2>3. CASE EncodeFails
    BY <2>3 DEF EncodeFails, EncoderIdle, jobVars, workVars
  <2>4. ASSUME NEW r \in Jobs, DeleteChecks(r)
        PROVE  /\ UNCHANGED <<points, dir, data, out, first, last, pick, rushed, cur, at, step, clip>>
               /\ status' = status
    BY <2>4 DEF DeleteChecks, jobVars, diskVars, workVars, ghostVars
  <2>5. ASSUME NEW r \in Jobs, CancelQueued(r)
        PROVE  /\ UNCHANGED <<points, dir, data, out, first, last, pick, rushed, cur, at, step, clip>>
               /\ status' = [status EXCEPT ![r] = "failed"]
    BY <2>5 DEF CancelQueued, diskVars, ghostVars
  <2> QED
    BY <2>1, <2>2, <2>3, <2>4, <2>5
<1>2. \A j \in Jobs : status'[j] = status[j] \/ status'[j] = "failed"
  <2>1. CASE status' = status
    BY <2>1
  <2>2. CASE \E r \in Jobs : status' = [status EXCEPT ![r] = "failed"]
    BY <2>2 DEF TypeOK
  <2> QED
    BY <1>1, <2>1, <2>2
<1>3. Lasting'
  BY <1>1, <1>2, DiskKept DEF Ended
<1>4. Fresh' /\ InHand' /\ Recorded'
  BY <1>1, <1>2, WorkKept
<1> QED
  BY <1>3, <1>4, AllTakes

-----------------------------------------------------------------------------
(* A job keeps the bank it was given.                                       *)
LEMMA ForkHeldBefore ==
    ASSUME TypeOK, Order, [Next]_vars, ForkHeld' PROVE ForkHeld
<1> SUFFICES ASSUME NEW k \in Jobs, out[k] \notin {None, k} PROVE FALSE
  BY DEF ForkHeld, Fallen
<1>1. out'[k] \in {None, k}
  BY DEF ForkHeld, Fallen
<1>2. out' # out
  BY <1>1
<1>3. PICK j \in Jobs, bank \in Jobs \cup {None} :
         j = made + 1 /\ out' = [out EXCEPT ![j] = bank]
  <2>1. ASSUME NEW r, NEW lo, NEW hi, Reuse(r, lo, hi), Resolve(r) \in Jobs
        PROVE  \E j \in Jobs, bank \in Jobs \cup {None} :
                  j = made + 1 /\ out' = [out EXCEPT ![j] = bank]
    BY <2>1 DEF Reuse, Enqueue
  <2>2. ASSUME NEW r \in Jobs, Resume(r) \/ \E s \in Shot : Retake(r, s)
        PROVE  \E j \in Jobs, bank \in Jobs \cup {None} :
                  j = made + 1 /\ out' = [out EXCEPT ![j] = bank]
    BY <2>1, <2>2, Asked
  <2>3. CASE Submit
    BY <2>3 DEF Submit, Enqueue
  <2>4. CASE \/ UNCHANGED vars \/ DeleteRemoves
             \/ \E r \in Jobs : DeleteChecks(r) \/ CancelQueued(r)
    BY <1>2, <2>4 DEF vars, jobVars, DeleteRemoves, DeleteChecks, CancelQueued
  <2>5. CASE Render
    BY <1>2, <2>5 DEF Render, Start, Restore, Fails, Sample, Save, Preview, Side, Finish,
                      EndsWith, jobVars
  <2>6. CASE Encoder \/ Crash
    BY <1>2, <2>6 DEF Encoder, Take, EncodeFails, Publish, EncoderIdle, Crash, jobVars
  <2> QED
    BY <2>2, <2>3, <2>4, <2>5, <2>6 DEF Next, Client
<1>4. out[j] = None
  <2>1. made \in Nat /\ Jobs \subseteq Nat
    BY TornType DEF TypeOK, Jobs
  <2> QED
    BY <1>3, <2>1 DEF Order, MadeInOrder
<1> QED
  BY <1>1, <1>3, <1>4 DEF TypeOK

Inv == Typed /\ (ForkHeld => Takes)

LEMMA InitInv == Init => Inv
BY InitType, InitOrder, InitHomed, InitTakes DEF Inv, Typed

LEMMA InvStep == Inv /\ [Next]_vars => Inv'
<1> SUFFICES ASSUME Inv, [Next]_vars, ForkHeld' PROVE Takes'
  BY TypedStep DEF Inv
<1>1. TypeOK /\ Order /\ Homed
  BY DEF Inv, Typed
<1>2. ForkHeld /\ Takes
  BY <1>1, ForkHeldBefore DEF Inv
<1>3. ASSUME NEW r \in Jobs, Resume(r) \/ \E s \in Shot : Retake(r, s) PROVE Takes'
  BY <1>1, <1>2, <1>3, Asked, ReuseTakes
<1>4. CASE UNCHANGED vars \/ Take \/ EncodeFails
           \/ \E r \in Jobs : DeleteChecks(r) \/ CancelQueued(r)
  BY <1>1, <1>2, <1>4, StillTakes
<1>5. CASE Submit \/ DeleteRemoves
  BY <1>1, <1>2, <1>5, SubmitTakes, DeleteTakes
<1>6. CASE Render
  BY <1>1, <1>2, <1>6, StartTakes, RestoreTakes, MoveTakes, SampleTakes, SaveTakes,
     SideTakes, FinishTakes DEF Render
<1>7. CASE Publish \/ Crash
  BY <1>1, <1>2, <1>7, PublishTakes, CrashTakes
<1> QED
  BY <1>3, <1>4, <1>5, <1>6, <1>7 DEF Next, Client, Encoder

LEMMA InvHolds == Spec => []Inv
<1>1. Inv /\ [Next]_vars => Inv'
  BY InvStep
<1> QED
  BY <1>1, InitInv, PTL DEF Spec

(* The .len and .audio next to a latent are of the take in it, or are not   *)
(* written yet: run_ltx2_longcat_chain writes the latent first and links or *)
(* leaves out the three together.                                           *)
THEOREM SidecarsAgree == Spec => []SidecarsMatch
<1>1. Inv => SidecarsMatch
  <2> SUFFICES ASSUME Inv, ForkHeld, NEW b \in Jobs, NEW s \in Shot
               PROVE  Read(b, <<s, "side">>) \in {None, Read(b, <<s, "bin">>)}
    BY DEF SidecarsMatch
  <2>1. Takes /\ <<s, "side">> \in Names /\ <<s, "bin">> \in Names
    BY NameType DEF Inv, Kinds
  <2>2. CASE dir[b][<<s, "side">>] = NoFile
    BY <2>2 DEF Read
  <2>3. CASE dir[b][<<s, "side">>] # NoFile
    <3>1. PICK c \in Jobs : dir[b][<<s, "side">>] = Inode(c, <<s, "side">>)
      BY <2>1, <2>3 DEF Inv, Typed, Homed
    <3>2. dir[b][<<s, "bin">>] = Inode(c, <<s, "bin">>)
      BY <2>1, <3>1 DEF Takes, Together
    <3>3. data[Inode(c, <<s, "side">>)] \in {None, c}
      BY <2>1 DEF Takes, Holds, Inv, Typed, Homed
    <3>4. data[Inode(c, <<s, "side">>)] = c => data[Inode(c, <<s, "bin">>)] = c
      BY <2>1 DEF Takes, Trio
    <3>5. Inode(c, <<s, "bin">>) # NoFile
      BY <2>1, InodeIsOne
    <3> QED
      BY <2>3, <3>1, <3>2, <3>3, <3>4, <3>5 DEF Read
  <2> QED
    BY <2>2, <2>3
<1> QED
  BY <1>1, InvHolds, PTL

(* What a completed job leaves on disk is, for each shot of its video, what *)
(* that was cut from, also where shots were restored from other banks, if   *)
(* these were at rest when they were linked, and also when the render failed *)
(* and the job was completed with the shots flushed before (async_jobs.cpp). *)
THEOREM RecordIsFaithful == Spec => []BankRecordsClip
<1>1. Inv => BankRecordsClip
  BY DEF Inv, Takes, Recorded, BankRecordsClip, Delivered
<1> QED
  BY <1>1, InvHolds, PTL

(* The bank an accepted job writes, and every shot its resume counted, stay *)
(* until the job has ended: fork_ltx_bank linked them, and DELETE refuses a *)
(* job that is active.                                                      *)
THEOREM ResumedBankStays == Spec => []ActiveBankStays
<1>1. Inv => ActiveBankStays
  <2> SUFFICES ASSUME Inv, ForkHeld, NEW j \in Active
               PROVE  /\ Present(j)
                      /\ \A s \in 0..(first[j] - 1) :
                            pick[j][s] = None => dir[j][<<s, "bin">>] # NoFile
    BY DEF ActiveBankStays
  <2>1. j \in Jobs
    BY DEF Active
  <2> QED
    BY <2>1 DEF Inv, Takes, Placed, Kept
<1> QED
  BY <1>1, InvHolds, PTL

(* While forks work, no step but its own job's or its own DELETE changes    *)
(* what is read in a bank that was linked from banks at rest: links share   *)
(* inodes, but each job opens its own.                                      *)
THEOREM TakesStay == Spec => TakesSurvive
<1> DEFINE Safe == ForkHeld' => \A b \in Jobs \ rushed :
                      (Present(b) /\ Present(b)' /\ b # cur) =>
                          \A n \in Names : Read(b, n)' = Read(b, n)
<1>1. Inv /\ [Next]_vars => [Safe]_vars
  <2> SUFFICES ASSUME Inv, [Next]_vars, ForkHeld', NEW b \in Jobs \ rushed, Present(b),
                      Present(b)', b # cur, NEW n \in Names
               PROVE  Read(b, n)' = Read(b, n)
    OBVIOUS
  <2>1. TypeOK /\ Order /\ Homed /\ ForkHeld /\ Takes
    <3>1. TypeOK /\ Order /\ Homed
      BY DEF Inv, Typed
    <3> QED
      BY <3>1, ForkHeldBefore DEF Inv
  <2>2. status[b] # "new" /\ points[b] = b /\ points'[b] = b /\ b # None
    BY <2>1, TornType DEF Order, MadeInOrder, Present
  <2>3. ASSUME dir'[b] = dir[b], data' = data PROVE Read(b, n)' = Read(b, n)
    BY <2>3 DEF Read
  <2>4. ASSUME NEW m, NEW v, Writes(m, v) PROVE Read(b, n)' = Read(b, n)
    BY <2>1, <2>4, WritesSpare
  <2>5. b # made + 1
    <3>1. made \in Nat /\ Jobs \subseteq Nat
      BY <2>1, TornType DEF TypeOK, Jobs
    <3> QED
      BY <2>1, <2>2, <3>1 DEF Order, MadeInOrder
  <2>6. CASE UNCHANGED vars \/ Start \/ Restore \/ Fails \/ Preview \/ Finish
    BY <2>3, <2>6 DEF vars, diskVars, Start, Restore, Fails, Preview, Finish, EndsWith
  <2>7. CASE Take \/ EncodeFails \/ Crash \/ Submit
    BY <2>3, <2>7 DEF diskVars, Take, EncodeFails, Crash, Submit, Enqueue
  <2>8. ASSUME NEW r \in Jobs, DeleteChecks(r) \/ CancelQueued(r)
        PROVE  Read(b, n)' = Read(b, n)
    BY <2>3, <2>8 DEF diskVars, DeleteChecks, CancelQueued
  <2>9. ASSUME NEW r \in Jobs, Resume(r) \/ \E s \in Shot : Retake(r, s)
        PROVE  Read(b, n)' = Read(b, n)
    <3>1. PICK lo \in Shot, hi \in Shot : Reuse(r, lo, hi)
      BY <2>1, <2>9, Asked
    <3>2. dir'[b] = dir[b] /\ data' = data
      <4>1. /\ data' = data
            /\ dir' = dir \/ \E links : dir' = [dir EXCEPT ![made + 1] = links]
        BY <3>1 DEF Reuse, Enqueue
      <4> QED
        BY <2>1, <2>5, <4>1 DEF TypeOK
    <3> QED
      BY <2>3, <3>2
  <2>10. CASE DeleteRemoves
    <3>1. data' = data
      BY <2>10 DEF DeleteRemoves
    <3>2. dir'[b] = dir[b]
      <4>1. CASE Resolve(del) = None
        BY <2>10, <4>1 DEF DeleteRemoves
      <4>2. CASE Resolve(del) # None
        <5>1. /\ points' = [points EXCEPT ![Resolve(del)] = None, ![del] = None]
              /\ dir' = [dir EXCEPT ![Resolve(del)] = Empty]
          BY <2>10, <4>2 DEF DeleteRemoves
        <5>2. Resolve(del) # b
          BY <2>1, <2>2, <5>1 DEF TypeOK
        <5> QED
          BY <2>1, <5>1, <5>2 DEF TypeOK
      <4> QED
        BY <4>1, <4>2
    <3> QED
      BY <2>3, <3>1, <3>2
  <2>11. CASE Sample \/ Save \/ Side \/ Publish
    <3>1. PICK m, v : Writes(m, v)
      BY <2>1, <2>11, SampleTakes, SaveTakes, SideTakes, PublishTakes
    <3> QED
      BY <2>4, <3>1
  <2> QED
    BY <2>6, <2>7, <2>8, <2>9, <2>10, <2>11 DEF Next, Client, Render, Encoder
<1> QED
  BY <1>1, InvHolds, PTL DEF Spec, TakesSurvive

-----------------------------------------------------------------------------
(* The bank a job was given is the bank of a job that was made.             *)
Given == \A j \in Jobs : out[j] # None => status[out[j]] # "new"

(* A preview of each shot that is done waits, is encoded, was skipped or is *)
(* out, unless the bank is gone.                                            *)
Shown ==
    /\ slot = NoShot \/ busy = NoShot
    /\ cur # None /\ Present(out[cur]) =>
          \A s \in Sampled(cur) : (s < at \/ (s = at /\ step = "side")) =>
             \/ s \in skipped \cup {slot, busy}
             \/ /\ dir[out[cur]][<<s, "webm">>] = Inode(cur, <<s, "webm">>)
                /\ data[Inode(cur, <<s, "webm">>)] = cur

LEMMA GivenStep == ASSUME TypeOK, Order, Given, [Next]_vars PROVE Given'
<1>1. ASSUME UNCHANGED out, \A j \in Jobs : status[j] # "new" => status'[j] # "new"
      PROVE  Given'
  BY <1>1 DEF Given, TypeOK
<1>2. ASSUME UNCHANGED <<out, status>> PROVE Given'
  BY <1>1, <1>2
<1>3. ASSUME NEW j \in Jobs, NEW bank \in Jobs, NEW lo, NEW hi, NEW p,
             Enqueue(j, lo, hi, p, bank), bank = j \/ status[bank] # "new"
      PROVE  Given'
  <2>1. \A k \in Jobs : /\ out'[k] = IF k = j THEN bank ELSE out[k]
                        /\ status'[k] = IF k = j THEN "queued" ELSE status[k]
    BY <1>3 DEF Enqueue, TypeOK
  <2> SUFFICES ASSUME NEW k \in Jobs, out'[k] # None PROVE status'[out'[k]] # "new"
    BY DEF Given
  <2>2. out[k] \in Jobs \cup {None}
    BY DEF TypeOK
  <2>3. CASE k = j
    BY <1>3, <2>1, <2>3
  <2>4. CASE k # j
    BY <2>1, <2>2, <2>4 DEF Given
  <2> QED
    BY <2>3, <2>4
<1>4. CASE Submit
  BY <1>3, <1>4 DEF Submit
<1>5. ASSUME NEW r \in Jobs, Resume(r) \/ \E s \in Shot : Retake(r, s) PROVE Given'
  <2>1. PICK lo \in Shot, hi \in Shot : Reuse(r, lo, hi)
    BY <1>5, Asked
  <2>2. Resolve(r) \in Jobs /\ status[Resolve(r)] # "new"
    BY <1>5, Asked, TornType DEF Order, MadeInOrder, Present
  <2> QED
    BY <1>3, <2>1, <2>2 DEF Reuse
<1>6. CASE UNCHANGED vars \/ DeleteRemoves \/ \E r \in Jobs : DeleteChecks(r)
  BY <1>2, <1>6 DEF vars, jobVars, DeleteRemoves, DeleteChecks
<1>7. CASE Restore \/ Fails \/ Sample \/ Save \/ Preview \/ Side \/ Encoder
  BY <1>2, <1>7 DEF Restore, Fails, Sample, Save, Preview, Side, Encoder, Take,
                    EncodeFails, Publish, EncoderIdle, jobVars
<1>8. ASSUME NEW r \in Jobs, CancelQueued(r) PROVE Given'
  BY <1>1, <1>8 DEF CancelQueued, TypeOK
<1>9. CASE Start
  <2>1. UNCHANGED out /\ status' = [status EXCEPT ![Head(queue)] = "generating"]
    BY <1>9 DEF Start
  <2> QED
    BY <1>1, <2>1 DEF TypeOK
<1>10. CASE Finish
  <2>1. UNCHANGED out /\ \E st \in Ended : status' = [status EXCEPT ![cur] = st]
    BY <1>10 DEF Finish, EndsWith, Ended
  <2> QED
    BY <1>1, <2>1 DEF TypeOK, Ended
<1>11. CASE Crash
  BY <1>1, <1>11 DEF Crash
<1> QED
  BY <1>4, <1>5, <1>6, <1>7, <1>8, <1>9, <1>10, <1>11 DEF Next, Client, Render

(* Writing another file leaves the previews as they are.                    *)
LEMMA OtherKind ==
    ASSUME TypeOK, Homed, NEW b \in Jobs, NEW n \in Names, n[2] # "webm",
           NEW i \in Inodes, i = Opened(b, n), NEW v,
           dir' = dir \/ dir' = [dir EXCEPT ![b][n] = i],
           data' = data \/ data' = [data EXCEPT ![i] = v],
           NEW c \in Jobs, NEW s \in Shot
    PROVE  /\ \A d \in Jobs : dir'[d][<<s, "webm">>] = dir[d][<<s, "webm">>]
           /\ data'[Inode(c, <<s, "webm">>)] = data[Inode(c, <<s, "webm">>)]
<1>1. <<s, "webm">> \in Names /\ <<s, "webm">> # n
  <2>1. <<s, "webm">> \in Names /\ <<s, "webm">>[2] = "webm"
    BY NameType DEF Kinds
  <2> QED
    BY <2>1
<1>2. PICK own \in Jobs : i = Inode(own, n)
  BY OpenedHomed
<1>3. Inode(c, <<s, "webm">>) \in Inodes /\ Inode(c, <<s, "webm">>) # i
  BY <1>1, <1>2, InodeIsOne
<1>4. data'[Inode(c, <<s, "webm">>)] = data[Inode(c, <<s, "webm">>)]
  <2>1. [data EXCEPT ![i] = v][Inode(c, <<s, "webm">>)] = data[Inode(c, <<s, "webm">>)]
    BY <1>3 DEF TypeOK
  <2> QED
    BY <2>1
<1>5. \A d \in Jobs : dir'[d][<<s, "webm">>] = dir[d][<<s, "webm">>]
  <2>1. \A d \in Jobs : [dir EXCEPT ![b][n] = i][d][<<s, "webm">>] = dir[d][<<s, "webm">>]
    BY <1>1 DEF TypeOK
  <2> QED
    BY <2>1
<1> QED
  BY <1>4, <1>5

(* The worker moves on, and no preview is touched.                          *)
LEMMA ShownMoves ==
    ASSUME TypeOK, Order, Shown, step # "idle",
           UNCHANGED <<cur, out, first, last, points, slot, busy, skipped>>,
           \A s \in Shot :
              /\ \A d \in Jobs : dir'[d][<<s, "webm">>] = dir[d][<<s, "webm">>]
              /\ data'[Inode(cur, <<s, "webm">>)] = data[Inode(cur, <<s, "webm">>)],
           \A s \in Sampled(cur) : (s < at' \/ (s = at' /\ step' = "side")) =>
                                   (s < at \/ (s = at /\ step = "side"))
    PROVE  Shown'
<1>1. cur \in Jobs /\ out[cur] \in Jobs /\ Sampled(cur) \subseteq Shot
  BY Working
<1>2. Sampled(cur)' = Sampled(cur)
  BY DEF Sampled
<1> SUFFICES ASSUME Present(out[cur]), NEW s \in Sampled(cur),
                    s < at' \/ (s = at' /\ step' = "side")
             PROVE  \/ s \in skipped \cup {slot, busy}
                    \/ /\ dir'[out[cur]][<<s, "webm">>] = Inode(cur, <<s, "webm">>)
                       /\ data'[Inode(cur, <<s, "webm">>)] = cur
  BY <1>2 DEF Shown, Present
<1>3. s < at \/ (s = at /\ step = "side")
  OBVIOUS
<1>4. \/ s \in skipped \cup {slot, busy}
      \/ /\ dir[out[cur]][<<s, "webm">>] = Inode(cur, <<s, "webm">>)
         /\ data[Inode(cur, <<s, "webm">>)] = cur
  BY <1>1, <1>3, TornType DEF Shown
<1> QED
  BY <1>1, <1>4

LEMMA ShownStep ==
    ASSUME TypeOK, Order, Homed, Given, Shown, [Next]_vars PROVE Shown'
<1>1. ASSUME UNCHANGED <<cur, at, step, out, first, last, slot, busy, skipped>>,
             cur # None =>
                (Present(out[cur])' => Present(out[cur]) /\ UNCHANGED <<dir[out[cur]], data>>)
      PROVE  Shown'
  <2>1. Sampled(cur)' = Sampled(cur)
    BY <1>1 DEF Sampled
  <2>2. slot' = NoShot \/ busy' = NoShot
    BY <1>1 DEF Shown
  <2> SUFFICES ASSUME cur # None, Present(out[cur])', NEW s \in Sampled(cur),
                      s < at \/ (s = at /\ step = "side")
               PROVE  \/ s \in skipped \cup {slot, busy}
                      \/ /\ dir'[out[cur]][<<s, "webm">>] = Inode(cur, <<s, "webm">>)
                         /\ data'[Inode(cur, <<s, "webm">>)] = cur
    BY <1>1, <2>1, <2>2 DEF Shown, Present
  <2>3. Present(out[cur]) /\ dir'[out[cur]] = dir[out[cur]] /\ data' = data
    BY <1>1
  <2>4. \/ s \in skipped \cup {slot, busy}
        \/ /\ dir[out[cur]][<<s, "webm">>] = Inode(cur, <<s, "webm">>)
           /\ data[Inode(cur, <<s, "webm">>)] = cur
    BY <2>3 DEF Shown
  <2> QED
    BY <2>3, <2>4
<1>2. ASSUME cur # None PROVE cur \in Jobs /\ out[cur] \in Jobs /\ status[out[cur]] # "new"
  <2>1. cur \in Jobs /\ out[cur] \in Jobs
    BY <1>2, Working DEF Order, WorkerAt
  <2> QED
    BY <2>1, TornType DEF Given
<1>3. CASE UNCHANGED vars \/ \E r \in Jobs : DeleteChecks(r) \/ CancelQueued(r)
  <2>1. UNCHANGED <<cur, at, step, out, first, last, slot, busy, skipped, points, dir, data>>
    BY <1>3 DEF vars, jobVars, diskVars, workVars, writerVars, ghostVars, DeleteChecks,
                CancelQueued
  <2> QED
    BY <1>1, <2>1 DEF Present
<1>4. ASSUME NEW j \in Jobs, NEW bank \in Jobs, NEW lo, NEW hi, NEW p, NEW links,
             j = made + 1, Enqueue(j, lo, hi, p, bank),
             dir' = dir \/ dir' = [dir EXCEPT ![j] = links]
      PROVE  Shown'
  <2>1. status[j] = "new"
    <3>1. made \in Nat /\ Jobs \subseteq Nat
      BY TornType DEF TypeOK, Jobs
    <3> QED
      BY <1>4, <3>1 DEF Order, MadeInOrder
  <2>2. ASSUME cur # None
        PROVE  /\ cur # j /\ out[cur] # j /\ out'[cur] = out[cur] /\ first'[cur] = first[cur]
               /\ last'[cur] = last[cur] /\ points'[out[cur]] = points[out[cur]]
               /\ dir'[out[cur]] = dir[out[cur]]
    <3>1. cur # j /\ out[cur] # j /\ cur \in Jobs /\ out[cur] \in Jobs
      BY <1>2, <2>1, <2>2 DEF Order, WorkerAt
    <3>2. /\ out'[cur] = out[cur] /\ first'[cur] = first[cur]
          /\ last'[cur] = last[cur] /\ points'[out[cur]] = points[out[cur]]
      BY <1>4, <3>1 DEF Enqueue, TypeOK
    <3>3. dir'[out[cur]] = dir[out[cur]]
      BY <1>4, <3>1 DEF TypeOK
    <3> QED
      BY <3>1, <3>2, <3>3
  <2>3. UNCHANGED <<cur, at, step, slot, busy, skipped, data>>
    BY <1>4 DEF Enqueue, writerVars, ghostVars
  <2>4. slot' = NoShot \/ busy' = NoShot
    BY <2>3 DEF Shown
  <2> SUFFICES ASSUME cur # None, points[out[cur]] = out[cur],
                      NEW s \in Sampled(cur), s < at \/ (s = at /\ step = "side")
               PROVE  \/ s \in skipped \cup {slot, busy}
                      \/ /\ dir[out[cur]][<<s, "webm">>] = Inode(cur, <<s, "webm">>)
                         /\ data[Inode(cur, <<s, "webm">>)] = cur
    BY <2>2, <2>3, <2>4 DEF Shown, Present, Sampled
  <2> QED
    BY DEF Shown, Present
<1>5. CASE Submit
  <2>1. made + 1 \in Jobs /\ dir' = dir
        /\ Enqueue(made + 1, 0, Shots - 1, [s \in Shot |-> None], made + 1)
    BY <1>5 DEF Submit
  <2> QED
    BY <1>4, <2>1
<1>6. ASSUME NEW r \in Jobs, Resume(r) \/ \E s \in Shot : Retake(r, s) PROVE Shown'
  <2>1. PICK lo \in Shot, hi \in Shot : Reuse(r, lo, hi)
    BY <1>6, Asked
  <2>2. Resolve(r) \in Jobs
    BY <1>6, Asked
  <2>3. PICK p \in Picks(lo, hi), bank \in Jobs :
           /\ made + 1 \in Jobs /\ Enqueue(made + 1, lo, hi, p, bank)
           /\ dir' = dir \/ \E links : dir' = [dir EXCEPT ![made + 1] = links]
    BY <2>1, <2>2 DEF Reuse
  <2> QED
    BY <1>4, <2>3
<1>7. CASE DeleteRemoves
  <2>1. UNCHANGED <<cur, at, step, out, first, last, slot, busy, skipped, data>>
    BY <1>7 DEF DeleteRemoves, jobVars, workVars, writerVars, ghostVars
  <2>2. ASSUME cur # None, Present(out[cur])'
        PROVE  Present(out[cur]) /\ dir'[out[cur]] = dir[out[cur]]
    <3>1. out[cur] \in Jobs /\ out[cur] # None /\ points'[out[cur]] = out[cur]
      BY <1>2, <2>1, <2>2, TornType DEF Present
    <3>2. CASE Resolve(del) = None
      BY <1>7, <3>1, <3>2 DEF DeleteRemoves, Present
    <3>3. CASE Resolve(del) # None
      <4>1. /\ points' = [points EXCEPT ![Resolve(del)] = None, ![del] = None]
            /\ dir' = [dir EXCEPT ![Resolve(del)] = Empty]
        BY <1>7, <3>3 DEF DeleteRemoves
      <4>2. Resolve(del) # out[cur] /\ points'[out[cur]] = points[out[cur]]
        BY <3>1, <4>1 DEF TypeOK
      <4> QED
        BY <3>1, <4>1, <4>2 DEF TypeOK, Present
    <3> QED
      BY <3>2, <3>3
  <2> QED
    BY <1>1, <2>1, <2>2
<1>8. CASE Start
  <2>1. /\ at' = 0 /\ step' \in {"finish", "sample", "restore"}
        /\ UNCHANGED <<slot, busy, first, last>> /\ cur' = Head(queue)
    BY <1>8 DEF Start, Goto, Entry, writerVars
  <2>2. Head(queue) \in Jobs
    BY <1>8, QueueMoves DEF Start
  <2>3. \A s \in Sampled(Head(queue)) : ~(s < 0)
    BY <2>2, SampledType, LatentBankAssumption DEF Shot
  <2>4. Sampled(cur)' = Sampled(Head(queue))
    BY <2>1 DEF Sampled
  <2> QED
    BY <2>1, <2>3, <2>4 DEF Shown
<1>9. CASE Fails
  <2>1. /\ at' = at /\ step' = "fail"
        /\ UNCHANGED <<cur, out, first, last, points, dir, data, slot, busy, skipped>>
    BY <1>9 DEF Fails, Goto, jobVars, diskVars, writerVars, ghostVars
  <2>2. Sampled(cur)' = Sampled(cur) /\ Present(out[cur])' = Present(out[cur])
    BY <2>1 DEF Sampled, Present
  <2> QED
    BY <2>1, <2>2 DEF Shown, Inode
<1>10. CASE Finish \/ Crash
  <2>1. cur' = None /\ slot' = NoShot
    BY <1>10 DEF Finish, EndsWith, Crash, writerVars
  <2> QED
    BY <2>1 DEF Shown
<1>11. ASSUME at \in Shot, NEW s \in Sampled(cur), cur \in Jobs, s < at + 1
       PROVE  s < at \/ s = at
  BY <1>11, SampledType, LatentBankAssumption DEF Shot
<1>12. CASE Restore
  <2>1. /\ step = "restore" /\ at' = at + 1 /\ step' \in {"finish", "sample", "restore"}
        /\ UNCHANGED <<cur, out, first, last, points, dir, data, slot, busy, skipped>>
    BY <1>12 DEF Restore, Goto, Entry, jobVars, diskVars, writerVars
  <2>2. cur \in Jobs /\ at \in Shot /\ at \notin Sampled(cur)
    BY <2>1, Working DEF Order, WorkerAt
  <2>3. \A s \in Sampled(cur) : s < at' => s < at
    BY <1>11, <2>1, <2>2
  <2> QED
    BY <2>1, <2>3, ShownMoves
<1>13. CASE Sample
  <2> DEFINE n == <<at, "bin">>
  <2>1. /\ step = "sample" /\ at' = at /\ step' = "save"
        /\ dir' = [dir EXCEPT ![out[cur]][n] = Opened(out[cur], n)]
        /\ data' = [data EXCEPT ![Opened(out[cur], n)] = Torn]
        /\ UNCHANGED <<cur, out, first, last, points, slot, busy, skipped>>
    BY <1>13 DEF Sample, Goto, jobVars, writerVars, ghostVars
  <2>2. cur \in Jobs /\ out[cur] \in Jobs /\ n \in Names /\ n[2] # "webm"
    BY <2>1, Working, NameType DEF Kinds
  <2> HIDE DEF n
  <2>3. Opened(out[cur], n) \in Inodes
    BY <2>2, OpenedType
  <2>4. \A s \in Shot :
           /\ \A d \in Jobs : dir'[d][<<s, "webm">>] = dir[d][<<s, "webm">>]
           /\ data'[Inode(cur, <<s, "webm">>)] = data[Inode(cur, <<s, "webm">>)]
    BY <2>1, <2>2, <2>3, OtherKind
  <2> QED
    BY <2>1, <2>4, ShownMoves
<1>14. CASE Save
  <2> DEFINE n == <<at, "bin">>
  <2>1. /\ step = "save" /\ at' = at /\ step' = "preview" /\ dir' = dir
        /\ data' = data \/ data' = [data EXCEPT ![Opened(out[cur], n)] = cur]
        /\ UNCHANGED <<cur, out, first, last, points, slot, busy, skipped>>
    BY <1>14 DEF Save, Goto, Opened, jobVars, writerVars, ghostVars
  <2>2. cur \in Jobs /\ out[cur] \in Jobs /\ n \in Names /\ n[2] # "webm"
    BY <2>1, Working, NameType DEF Kinds
  <2> HIDE DEF n
  <2>3. Opened(out[cur], n) \in Inodes
    BY <2>2, OpenedType
  <2>4. \A s \in Shot :
           /\ \A d \in Jobs : dir'[d][<<s, "webm">>] = dir[d][<<s, "webm">>]
           /\ data'[Inode(cur, <<s, "webm">>)] = data[Inode(cur, <<s, "webm">>)]
    BY <2>1, <2>2, <2>3, OtherKind
  <2> QED
    BY <2>1, <2>4, ShownMoves
<1>15. CASE Side
  <2> DEFINE n == <<at, "side">>
  <2>1. /\ step = "side" /\ at' = at + 1 /\ step' \in {"finish", "sample", "restore"}
        /\ \/ dir' = dir /\ data' = data
           \/ /\ dir' = [dir EXCEPT ![out[cur]][n] = Opened(out[cur], n)]
              /\ data' = [data EXCEPT ![Opened(out[cur], n)] = cur]
        /\ UNCHANGED <<cur, out, first, last, points, slot, busy, skipped>>
    BY <1>15 DEF Side, Goto, Entry, jobVars, writerVars
  <2>2. cur \in Jobs /\ out[cur] \in Jobs /\ n \in Names /\ n[2] # "webm" /\ at \in Shot
    BY <2>1, Working, NameType DEF Kinds
  <2> HIDE DEF n
  <2>3. Opened(out[cur], n) \in Inodes
    BY <2>2, OpenedType
  <2>4. \A s \in Shot :
           /\ \A d \in Jobs : dir'[d][<<s, "webm">>] = dir[d][<<s, "webm">>]
           /\ data'[Inode(cur, <<s, "webm">>)] = data[Inode(cur, <<s, "webm">>)]
    <3>1. CASE dir' = dir /\ data' = data
      BY <3>1
    <3>2. CASE /\ dir' = [dir EXCEPT ![out[cur]][n] = Opened(out[cur], n)]
               /\ data' = [data EXCEPT ![Opened(out[cur], n)] = cur]
      BY <2>2, <2>3, <3>2, OtherKind
    <3> QED
      BY <2>1, <3>1, <3>2
  <2>5. \A s \in Sampled(cur) : s < at' => s < at \/ s = at
    BY <1>11, <2>1, <2>2
  <2> QED
    BY <2>1, <2>4, <2>5, ShownMoves
<1>16. CASE Preview
  <2>1. /\ step = "preview" /\ slot = NoShot /\ busy = NoShot /\ slot' = at /\ at' = at
        /\ step' = "side"
        /\ UNCHANGED <<cur, out, first, last, points, dir, data, busy, skipped>>
    BY <1>16 DEF Preview, Goto, jobVars, diskVars, ghostVars
  <2>2. Sampled(cur)' = Sampled(cur) /\ NoShot \notin Sampled(cur) /\ cur # None
    BY <2>1, Working, TornType DEF Sampled
  <2> SUFFICES ASSUME Present(out[cur]), NEW s \in Sampled(cur), s < at \/ s = at
               PROVE  \/ s \in skipped \cup {at, busy}
                      \/ /\ dir[out[cur]][<<s, "webm">>] = Inode(cur, <<s, "webm">>)
                         /\ data[Inode(cur, <<s, "webm">>)] = cur
    BY <2>1, <2>2 DEF Shown, Present
  <2>3. CASE s = at
    BY <2>3
  <2>4. CASE s < at
    BY <2>1, <2>2, <2>4 DEF Shown
  <2> QED
    BY <2>3, <2>4
<1>17. CASE Take
  <2>1. /\ slot # NoShot /\ busy' = slot /\ slot' = NoShot
        /\ UNCHANGED <<cur, at, step, out, first, last, points, dir, data, skipped>>
    BY <1>17 DEF Take, jobVars, diskVars, workVars, ghostVars
  <2>2. busy = NoShot /\ Sampled(cur)' = Sampled(cur)
    BY <2>1 DEF Shown, Sampled
  <2> SUFFICES ASSUME cur # None, Present(out[cur]), NEW s \in Sampled(cur),
                      s < at \/ (s = at /\ step = "side")
               PROVE  \/ s \in skipped \cup {slot, NoShot}
                      \/ /\ dir[out[cur]][<<s, "webm">>] = Inode(cur, <<s, "webm">>)
                         /\ data[Inode(cur, <<s, "webm">>)] = cur
    BY <2>1, <2>2 DEF Shown, Present
  <2> QED
    BY <2>2 DEF Shown
<1>18. CASE EncodeFails
  <2>1. /\ skipped' = skipped \cup {busy} /\ busy' = NoShot
        /\ UNCHANGED <<cur, at, step, out, first, last, points, dir, data, slot>>
    BY <1>18 DEF EncodeFails, EncoderIdle, jobVars, workVars
  <2>2. Sampled(cur)' = Sampled(cur)
    BY <2>1 DEF Sampled
  <2> SUFFICES ASSUME cur # None, Present(out[cur]), NEW s \in Sampled(cur),
                      s < at \/ (s = at /\ step = "side")
               PROVE  \/ s \in skipped \cup {busy, slot, NoShot}
                      \/ /\ dir[out[cur]][<<s, "webm">>] = Inode(cur, <<s, "webm">>)
                         /\ data[Inode(cur, <<s, "webm">>)] = cur
    BY <2>1, <2>2 DEF Shown, Present
  <2> QED
    BY DEF Shown
<1>19. CASE Publish
  <2> DEFINE n == <<busy, "webm">>
             b == out[cur]
  <2>1. /\ busy' = NoShot
        /\ IF Present(b)
           THEN /\ dir' = [dir EXCEPT ![b][n] = Inode(cur, n)]
                /\ data' = [data EXCEPT ![Inode(cur, n)] = cur]
           ELSE UNCHANGED <<dir, data>>
        /\ UNCHANGED <<cur, at, step, out, first, last, points, slot, skipped>>
    BY <1>19 DEF Publish, EncoderIdle, jobVars, workVars
  <2>2. cur \in Jobs /\ b \in Jobs /\ n \in Names
    BY <1>19, Encodes DEF Publish
  <2>3. Sampled(cur)' = Sampled(cur) /\ Sampled(cur) \subseteq Shot
    BY <2>1, <2>2, SampledType DEF Sampled
  <2> SUFFICES ASSUME Present(b), NEW s \in Sampled(cur),
                      s < at \/ (s = at /\ step = "side")
               PROVE  \/ s \in skipped \cup {slot}
                      \/ /\ dir'[b][<<s, "webm">>] = Inode(cur, <<s, "webm">>)
                         /\ data'[Inode(cur, <<s, "webm">>)] = cur
    BY <2>1, <2>3 DEF Shown, Present
  <2>4. <<s, "webm">> \in Names /\ (s = busy <=> <<s, "webm">> = n)
    BY <2>3, NameType DEF Kinds
  <2>5. /\ dir' = [dir EXCEPT ![b][n] = Inode(cur, n)]
        /\ data' = [data EXCEPT ![Inode(cur, n)] = cur]
    BY <2>1
  <2>6. \/ s \in skipped \cup {slot, busy}
        \/ /\ dir[b][<<s, "webm">>] = Inode(cur, <<s, "webm">>)
           /\ data[Inode(cur, <<s, "webm">>)] = cur
    BY <2>2, TornType DEF Shown
  <2> HIDE DEF n, b
  <2>7. Inode(cur, n) \in Inodes /\ Inode(cur, <<s, "webm">>) \in Inodes
    BY <2>2, <2>4, InodeIsOne
  <2>8. CASE s = busy
    BY <2>2, <2>4, <2>5, <2>7, <2>8 DEF TypeOK
  <2>9. CASE s # busy
    <3>1. Inode(cur, <<s, "webm">>) # Inode(cur, n)
      BY <2>2, <2>4, <2>9, InodeIsOne
    <3>2. /\ dir'[b][<<s, "webm">>] = dir[b][<<s, "webm">>]
          /\ data'[Inode(cur, <<s, "webm">>)] = data[Inode(cur, <<s, "webm">>)]
      BY <2>2, <2>4, <2>5, <2>7, <2>9, <3>1 DEF TypeOK
    <3> QED
      BY <2>6, <2>9, <3>2
  <2> QED
    BY <2>8, <2>9
<1> QED
  BY <1>3, <1>5, <1>6, <1>7, <1>8, <1>9, <1>10, <1>12, <1>13, <1>14, <1>15, <1>16, <1>17,
     <1>18, <1>19 DEF Next, Client, Render, Encoder

(* When a job completes, the preview of every shot of its video that it     *)
(* rendered and could encode is out, in a bank of its own or in the one it  *)
(* fell back to, however early the video stops: segment_writer.finish()     *)
(* waits for the thread.                                                    *)
THEOREM PreviewsOut == Spec => PreviewsAreOut
<1> DEFINE I == Typed /\ Given /\ Shown
           Out == \A j \in Jobs : status[j] = "generating" /\ status'[j] = "completed"
                                  /\ Present(out[j]) =>
                     \A s \in (Sampled(j) \cap Delivered(j)') \ skipped :
                        Read(out[j], <<s, "webm">>) = j
<1>1. Init => I
  <2> SUFFICES ASSUME Init PROVE I
    OBVIOUS
  <2>1. Typed
    BY InitType, InitOrder, InitHomed DEF Typed
  <2> QED
    BY <2>1 DEF Init, Given, Shown
<1>2. I /\ [Next]_vars => I'
  BY TypedStep, GivenStep, ShownStep DEF Typed
<1>3. I /\ [Next]_vars => [Out]_vars
  <2> SUFFICES ASSUME I, [Next]_vars, NEW j \in Jobs, status[j] = "generating",
                      status'[j] = "completed", Present(out[j]),
                      NEW s \in (Sampled(j) \cap Delivered(j)') \ skipped
               PROVE  Read(out[j], <<s, "webm">>) = j
    OBVIOUS
  <2>1. TypeOK /\ Order /\ Given /\ Shown /\ j = cur /\ cur # None
    BY TornType DEF Typed, Order, WorkerAt
  <2>2. Finish
    <3>1. status' # status
      OBVIOUS
    <3>2. ASSUME NEW k, NEW lo, NEW hi, NEW p, NEW bank, Enqueue(k, lo, hi, p, bank)
          PROVE  FALSE
      BY <2>1, <3>2 DEF Enqueue, TypeOK
    <3>3. ~Submit /\ \A r \in Jobs : ~Resume(r) /\ \A q \in Shot : ~Retake(r, q)
      BY <3>2 DEF Submit, Resume, Retake, Reuse
    <3>4. ~Start /\ \A r \in Jobs : ~CancelQueued(r)
      BY <2>1 DEF Start, CancelQueued, TypeOK
    <3>5. ~Crash
      BY <2>1 DEF Crash, TypeOK, Active
    <3>6. ~(UNCHANGED vars) /\ ~DeleteRemoves /\ \A r \in Jobs : ~DeleteChecks(r)
      BY <3>1 DEF vars, jobVars, DeleteRemoves, DeleteChecks
    <3>7. ~(Restore \/ Fails \/ Sample \/ Save \/ Preview \/ Side \/ Encoder)
      BY <3>1 DEF Restore, Fails, Sample, Save, Preview, Side, Encoder, Take,
                  EncodeFails, Publish, EncoderIdle, jobVars
    <3> QED
      BY <3>3, <3>4, <3>5, <3>6, <3>7 DEF Next, Client, Render
  <2>3. slot = NoShot /\ busy = NoShot
    BY <2>2 DEF Finish
  <2>4. s \in Shot /\ s < at /\ s # NoShot
    <3>1. s \in Shot /\ s # NoShot /\ clip'[j][s]["bin"] # None
      BY LatentBankAssumption DEF Delivered, Shot, NoShot
    <3>2. PICK n \in 0..Shots :
             /\ n <= at
             /\ clip' = [clip EXCEPT ![cur] =
                            [t \in Shot |-> IF t < n THEN clip[cur][t] ELSE NoTake]]
      BY <2>1, <2>2, Ends
    <3>3. clip'[j][s] = IF s < n THEN clip[j][s] ELSE NoTake
      BY <2>1, <3>1, <3>2 DEF TypeOK
    <3>4. s < n
      BY <3>1, <3>3 DEF NoTake
    <3> QED
      BY <2>1, <3>1, <3>2, <3>4, LatentBankAssumption DEF Shot, TypeOK
  <2>5. /\ dir[out[cur]][<<s, "webm">>] = Inode(cur, <<s, "webm">>)
        /\ data[Inode(cur, <<s, "webm">>)] = cur
    <3>1. s \notin skipped \cup {slot, busy}
      BY <2>3, <2>4
    <3>2. Present(out[cur]) /\ s \in Sampled(cur)
      BY <2>1
    <3> QED
      BY <2>1, <2>4, <3>1, <3>2 DEF Shown
  <2>6. Inode(cur, <<s, "webm">>) # NoFile
    <3>1. "webm" \in Kinds /\ s \in Shot /\ cur \in Jobs
      BY <2>1, <2>4 DEF Kinds
    <3>2. <<s, "webm">> \in Names
      BY <3>1, NameType
    <3> QED
      BY <3>1, <3>2, InodeIsOne
  <2> QED
    BY <2>1, <2>5, <2>6 DEF Read
<1> QED
  BY <1>1, <1>2, <1>3, PTL DEF Spec, PreviewsAreOut
=============================================================================

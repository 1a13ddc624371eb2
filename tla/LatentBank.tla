----------------------------- MODULE LatentBank -----------------------------
(***************************************************************************)
(* The latent banks of LTX chains: what a job leaves on disk for later     *)
(* jobs to resume from (examples/server/routes_ltx.cpp, async_jobs.cpp,    *)
(* src/stable-diffusion.cpp).                                              *)
(*                                                                         *)
(* A bank is a directory named after its job. For each shot it holds the   *)
(* latent seg_<i>.bin, its sidecars seg_<i>.len and .audio (one kind here: *)
(* they are written together and read together) and the preview .webm.     *)
(* A job that resumes another one gets a bank of its own whose unchanged   *)
(* shots are hard links, so two names can share one inode and a write in   *)
(* place is seen through both. `dir` maps names to inodes and `data` maps  *)
(* inodes to the job whose take they hold.                                 *)
(*                                                                         *)
(* One worker thread renders; a second thread encodes its previews; HTTP   *)
(* handlers submit, resume, retake and delete; the process may die.        *)
(***************************************************************************)
EXTENDS Naturals, Sequences, SequencesExt, FiniteSets

CONSTANTS MaxJobs,      (* bound on the jobs made; their ids are 1..MaxJobs *)
          Shots,        (* shots of every chain                             *)
          MaxFaults     (* bound on what may go wrong or be asked in        *)
                        (* between: deaths, forks that fail, renders that   *)
                        (* fail, previews that fail, cancels and deletes    *)

ASSUME LatentBankAssumption ==
    /\ MaxJobs \in Nat \ {0}
    /\ Shots \in Nat \ {0}
    /\ MaxFaults \in Nat

Jobs == 1..MaxJobs
Shot == 0..(Shots - 1)
Kinds == {"bin", "side", "webm"}
Names == Shot \X Kinds
Inodes == Jobs \X Shot \X Kinds
NoFile == <<0, 0, "none">>
None == 0
Torn == MaxJobs + 1     \* an inode whose writer has not finished

VARIABLES made,      (* next_id: jobs made so far                           *)
          status,    (* each job's status; one lost in a restart has failed *)
          out,       (* job->ltx_bank_dir: the bank the job writes          *)
          first,     (* the first shot it samples                           *)
          last,      (* the last one                                        *)
          pick,      (* ltx_segment_bank_dirs: another bank for a shot      *)
          points,    (* a job's directory: itself, the bank_id file, None   *)
          dir,       (* the names in each bank                              *)
          data,      (* the take in each inode                              *)
          queue,     (* manager.queue                                       *)
          cur,       (* the job that renders                                *)
          at,        (* its shot                                            *)
          step,      (* where it is in that shot                            *)
          slot,      (* SegmentPreviewWriter: the shot queued (pending)     *)
          busy,      (* the shot being encoded (busy)                       *)
          del,       (* DELETE that has passed its check                    *)
          faults,    (* of those MaxFaults counts, so far                   *)
          clip,      (* history: the takes each job's video was cut from    *)
          skipped,   (* history: shots of `cur` without a preview           *)
          rushed     (* history: jobs whose bank has links taken from one   *)
                     (* that was still being written, itself or further up  *)

jobVars == <<made, status, out, first, last, pick, rushed>>
diskVars == <<points, dir, data>>
workVars == <<queue, cur, at, step>>
writerVars == <<slot, busy>>
ghostVars == <<clip, skipped>>
vars == <<jobVars, diskVars, workVars, writerVars, del, faults, ghostVars>>

NoShot == Shots
Empty == [n \in Names |-> NoFile]
NoTake == [k \in {"bin", "side"} |-> None]
NoClip == [s \in Shot |-> NoTake]

Init ==
    /\ made = 0
    /\ status = [j \in Jobs |-> "new"]
    /\ out = [j \in Jobs |-> None]
    /\ first = [j \in Jobs |-> 0]
    /\ last = [j \in Jobs |-> 0]
    /\ pick = [j \in Jobs |-> [s \in Shot |-> None]]
    /\ points = [j \in Jobs |-> None]
    /\ dir = [b \in Jobs |-> Empty]
    /\ data = [i \in Inodes |-> None]
    /\ queue = <<>>
    /\ cur = None /\ at = 0 /\ step = "idle"
    /\ slot = NoShot /\ busy = NoShot
    /\ del = None /\ faults = 0
    /\ clip = [j \in Jobs |-> NoClip]
    /\ skipped = {}
    /\ rushed = {}

-----------------------------------------------------------------------------
Active == {j \in Jobs : status[j] \in {"queued", "generating"}}
Ended == {"completed", "failed"}

(* resolve_ltx_bank_dir: follow the bank_id file once; None is "invalid".   *)
Resolve(r) == IF points[r] # None /\ points[points[r]] = points[r]
              THEN points[r] ELSE None

(* What a reader of a bank finds under a name.                              *)
Read(b, n) == IF dir[b][n] = NoFile THEN None ELSE data[dir[b][n]]

(* banked_segments counts the shots up to s: seg_<i>.bin exists for each.   *)
Banked(b, s) == \A t \in 0..s : dir[b][<<t, "bin">>] # NoFile

(* bank_stem_for: the bank a restored shot of job j is read from.           *)
Stem(j, s) == IF pick[j][s] # None THEN pick[j][s] ELSE out[j]

Sampled(j) == first[j]..last[j]

(* Slip: every shot is linked, also the ones about to be rendered again. *)
BugForkLinks(src, lo, hi, p) ==
    [n \in Names |-> dir[IF p[n[1]] # None THEN p[n[1]] ELSE src][n]]

(* Slip: every kept shot is linked from the resumed bank. *)
BugOneSource(src, lo, hi, p) ==
    [n \in Names |-> IF n[1] \in lo..hi THEN NoFile ELSE dir[src][n]]

(* Slip: only the latent of a re-rendered shot is left out. *)
BugKeepSidecars(src, lo, hi, p) ==
    [n \in Names |-> IF n[1] \in lo..hi /\ n[2] = "bin" THEN NoFile
                     ELSE dir[IF p[n[1]] # None THEN p[n[1]] ELSE src][n]]

(* fork_ltx_bank: hard links to every shot the job will not render, each    *)
(* from the bank it is restored from.                                       *)
ForkLinks(src, lo, hi, p) ==
    [n \in Names |-> IF n[1] \in lo..hi THEN NoFile
                     ELSE dir[IF p[n[1]] # None THEN p[n[1]] ELSE src][n]]

-----------------------------------------------------------------------------
(* One of the things MaxFaults bounds.                                      *)
Fault == faults < MaxFaults /\ faults' = faults + 1

Enqueue(j, lo, hi, p, bank) ==
    /\ made' = j
    /\ status' = [status EXCEPT ![j] = "queued"]
    /\ out' = [out EXCEPT ![j] = bank]
    /\ first' = [first EXCEPT ![j] = lo]
    /\ last' = [last EXCEPT ![j] = hi]
    /\ pick' = [pick EXCEPT ![j] = p]
    /\ points' = [points EXCEPT ![j] = bank]
    /\ queue' = Append(queue, j)
    /\ UNCHANGED <<data, cur, at, step, writerVars, del, ghostVars>>

(* POST without resume_job_id: an empty bank of its own.                    *)
Submit ==
    LET j == made + 1 IN
    /\ j \in Jobs
    /\ Enqueue(j, 0, Shots - 1, [s \in Shot |-> None], j)
    /\ UNCHANGED <<dir, faults, rushed>>

(* The banks a request may name for shots: any that resolves. The handler   *)
(* does not ask whether a job still writes there.                           *)
Pickable == {b \in Jobs : Resolve(b) = b}

(* The banks that a job still writes, or that were linked too early.        *)
Unsettled == {out[k] : k \in Active} \cup rushed

(* Requests name another bank only for shots they keep.                     *)
Picks(lo, hi) == {p \in [Shot -> Pickable \cup {None}] :
                     \A s \in lo..hi : p[s] = None}

(* The jobs whose fork failed: they write into the bank they resumed.       *)
Fallen == {j \in Jobs : out[j] \notin {None, j}}

(* POST with resume_job_id, and retake_segment or not: the job renders      *)
(* lo..hi and restores the rest; fork the bank, or write into it.           *)
Reuse(r, lo, hi) ==
    LET j == made + 1
        src == Resolve(r) IN
    /\ j \in Jobs
    /\ \E p \in Picks(lo, hi) :
          \/ /\ Enqueue(j, lo, hi, p, j)
             /\ dir' = [dir EXCEPT ![j] = ForkLinks(src, lo, hi, p)]
             /\ UNCHANGED faults
             /\ rushed' = IF ({src} \cup {p[s] : s \in Shot}) \cap Unsettled = {}
                          THEN rushed ELSE rushed \cup {j}
          \/ /\ Fault
             /\ Enqueue(j, lo, hi, p, src)
             /\ UNCHANGED <<dir, rushed>>

Resumable(r) == Resolve(r) # None /\ r \notin Active

Resume(r) ==
    /\ Resumable(r)
    /\ \E s \in 0..(Shots - 2) :
          /\ Banked(Resolve(r), s) /\ ~Banked(Resolve(r), s + 1)
          /\ Reuse(r, s + 1, Shots - 1)

Retake(r, s) ==
    /\ Resumable(r)
    /\ Banked(Resolve(r), s)
    /\ Reuse(r, s, s)

(* POST .../cancel of a job that is still queued.                           *)
CancelQueued(j) ==
    /\ status[j] = "queued"
    /\ status' = [status EXCEPT ![j] = "failed"]
    /\ \E i \in DOMAIN queue : queue[i] = j /\ queue' = RemoveAt(queue, i)
    /\ Fault
    /\ UNCHANGED <<made, out, first, last, pick, rushed, diskVars, cur, at,
                   step, writerVars, del, ghostVars>>

(* Slip: nobody asks whether the job is still active. *)
BugDeleteChecks(r) ==
    /\ del = None /\ points[r] # None
    /\ del' = r /\ Fault
    /\ UNCHANGED <<jobVars, diskVars, workVars, writerVars, ghostVars>>

(* DELETE /ltx/v1/job: the named job must not be active; the mutex is then  *)
(* released.                                                                *)
DeleteChecks(r) ==
    /\ del = None /\ points[r] # None
    /\ r \notin Active
    /\ del' = r /\ Fault
    /\ UNCHANGED <<jobVars, diskVars, workVars, writerVars, ghostVars>>

(* ... and then the bank it resolves to goes, and the alias with it.        *)
DeleteRemoves ==
    /\ del # None
    /\ del' = None
    /\ IF Resolve(del) = None THEN UNCHANGED <<points, dir>>
       ELSE /\ points' = [points EXCEPT ![Resolve(del)] = None, ![del] = None]
            /\ dir' = [dir EXCEPT ![Resolve(del)] = Empty]
    /\ UNCHANGED <<jobVars, data, workVars, writerVars, faults, ghostVars>>

-----------------------------------------------------------------------------
(* The worker. One shot is restored, or sampled and saved, at a time.       *)
Goto(s, st) == at' = s /\ step' = st

Entry(j, s) == IF s = Shots THEN "finish"
               ELSE IF s \in Sampled(j) THEN "sample" ELSE "restore"

Start ==
    /\ cur = None /\ queue # <<>>
    /\ cur' = Head(queue)
    /\ queue' = Tail(queue)
    /\ status' = [status EXCEPT ![Head(queue)] = "generating"]
    /\ Goto(0, Entry(Head(queue), 0))
    /\ UNCHANGED <<made, out, first, last, pick, rushed, diskVars, writerVars,
                   del, faults, ghostVars>>

(* decode_banked_video_latent succeeds.                                     *)
Readable(b, s) == Read(b, <<s, "bin">>) \notin {None, Torn}

(* A retake is pinned to the head of the shot that follows.                 *)
EndGuide == at = last[cur] /\ at + 1 < Shots => Readable(Stem(cur, at + 1), at + 1)

Present(b) == points[b] = b

(* A kept shot is decoded and spliced in, with its sidecars.                *)
Restore ==
    /\ step = "restore" /\ Readable(Stem(cur, at), at)
    /\ clip' = [clip EXCEPT ![cur][at] = [k \in {"bin", "side"} |->
                                             Read(Stem(cur, at), <<at, k>>)]]
    /\ Goto(at + 1, Entry(cur, at + 1))
    /\ UNCHANGED <<jobVars, diskVars, queue, cur, writerVars, del, faults, skipped>>

(* fail(): a latent that is missing or torn, a sampler that fails or is     *)
(* cancelled, a bank that is gone, a latent that cannot be saved or has no  *)
(* tail, a track that cannot be cut. What is on disk stays there, torn or   *)
(* not, and frames that were flushed cannot be taken back.                  *)
Fails ==
    /\ \/ /\ \/ step = "restore" /\ ~Readable(Stem(cur, at), at)
             \/ step = "sample" /\ ~(Present(out[cur]) /\ EndGuide)
          /\ UNCHANGED faults
       \/ step \in {"sample", "save", "preview", "side"} /\ Fault
    /\ Goto(at, "fail")
    /\ UNCHANGED <<jobVars, diskVars, queue, cur, writerVars, del, ghostVars>>

(* The inode a write opens: the one the name has, or a fresh one.           *)
Inode(b, n) == <<b, n[1], n[2]>>
Opened(b, n) == IF dir[b][n] = NoFile THEN Inode(b, n) ELSE dir[b][n]

(* A shot is sampled and save_banked_video_latent opens its file, which     *)
(* truncates it.                                                            *)
Sample ==
    LET b == out[cur]
        n == <<at, "bin">> IN
    /\ step = "sample" /\ Present(b)
    /\ EndGuide
    /\ dir' = [dir EXCEPT ![b][n] = Opened(b, n)]
    /\ data' = [data EXCEPT ![Opened(b, n)] = Torn]
    /\ Goto(at, "save")
    /\ UNCHANGED <<jobVars, points, queue, cur, writerVars, del, faults, ghostVars>>

(* The latent is written. A file deleted meanwhile is written all the same. *)
Save ==
    LET i == dir[out[cur]][<<at, "bin">>] IN
    /\ step = "save"
    /\ data' = IF i = NoFile THEN data ELSE [data EXCEPT ![i] = cur]
    /\ Goto(at, "preview")
    /\ UNCHANGED <<jobVars, points, dir, queue, cur, writerVars, del, faults, ghostVars>>

(* Slip: enqueue overwrites a preview that was not taken yet. *)
BugPreview ==
    /\ step = "preview"
    /\ slot' = at
    /\ Goto(at, "side")
    /\ UNCHANGED <<jobVars, diskVars, queue, cur, busy, del, faults, ghostVars>>

(* on_segment: enqueue waits for the encoder to be free.                    *)
Preview ==
    /\ step = "preview" /\ slot = NoShot /\ busy = NoShot
    /\ slot' = at
    /\ Goto(at, "side")
    /\ UNCHANGED <<jobVars, diskVars, queue, cur, busy, del, faults,
                   ghostVars>>

(* write_seg_len and write_seg_audio, best effort; the shot joins the clip. *)
Side ==
    LET b == out[cur]
        n == <<at, "side">> IN
    /\ step = "side"
    /\ IF Present(b)
       THEN /\ dir' = [dir EXCEPT ![b][n] = Opened(b, n)]
            /\ data' = [data EXCEPT ![Opened(b, n)] = cur]
       ELSE UNCHANGED <<dir, data>>
    /\ clip' = [clip EXCEPT ![cur][at] = [k \in {"bin", "side"} |-> cur]]
    /\ Goto(at + 1, Entry(cur, at + 1))
    /\ UNCHANGED <<jobVars, points, queue, cur, writerVars, del, faults, skipped>>

(* The job ends with a video of its first n shots: completed, unless there  *)
(* is nothing to deliver.                                                   *)
EndsWith(n) ==
    /\ status' = [status EXCEPT ![cur] = IF n = 0 THEN "failed" ELSE "completed"]
    /\ clip' = [clip EXCEPT ![cur] = [s \in Shot |-> IF s < n THEN @[s] ELSE NoTake]]
    /\ cur' = None /\ Goto(0, "idle")
    /\ skipped' = {}
    /\ UNCHANGED <<made, out, first, last, pick, rushed, diskVars, queue,
                   writerVars, del>>

(* segment_writer.finish(), which waits for the previews and joins the      *)
(* thread, and the end of the job. A chain that ran through delivers every  *)
(* shot, unless it is cancelled after all or cannot be encoded. Of one that *)
(* failed, a streamed video (webm) keeps the frames flushed so far: some of *)
(* the shots before the failing one, and not even those if all their frames *)
(* were in the window held back. Such a job completes all the same.         *)
Finish ==
    /\ step \in {"finish", "fail"} /\ slot = NoShot /\ busy = NoShot
    /\ \/ step = "finish" /\ EndsWith(Shots) /\ UNCHANGED faults
       \/ step = "finish" /\ EndsWith(0) /\ Fault
       \/ step = "fail" /\ (\E n \in 0..at : EndsWith(n)) /\ UNCHANGED faults

-----------------------------------------------------------------------------
(* The preview thread: take the shot,                                       *)
Take ==
    /\ slot # NoShot
    /\ busy' = slot /\ slot' = NoShot
    /\ UNCHANGED <<jobVars, diskVars, workVars, del, faults, ghostVars>>

(* Slip: the writer never says that it is free again. *)
BugEncoderIdle ==
    UNCHANGED <<jobVars, points, workVars, writerVars, del, clip>>

(* busy = false, after which enqueue and finish may go on.                  *)
EncoderIdle ==
    /\ busy' = NoShot
    /\ UNCHANGED <<jobVars, points, workVars, slot, del, clip>>

(* ... no bytes come out of the encoder,                                    *)
EncodeFails ==
    /\ busy # NoShot
    /\ skipped' = skipped \cup {busy}
    /\ Fault
    /\ EncoderIdle
    /\ UNCHANGED <<dir, data>>

(* ... or a temporary file is written and renamed over the name, if the     *)
(* bank is still there.                                                     *)
Publish ==
    LET n == <<busy, "webm">>
        i == Inode(cur, n) IN
    /\ busy # NoShot
    /\ IF Present(out[cur])
       THEN /\ dir' = [dir EXCEPT ![out[cur]][n] = i]
            /\ data' = [data EXCEPT ![i] = cur]
       ELSE UNCHANGED <<dir, data>>
    /\ EncoderIdle
    /\ UNCHANGED <<faults, skipped>>

(* The process dies and is started again: the disk is all that is left.     *)
Crash ==
    /\ Active # {}
    /\ Fault
    /\ status' = [j \in Jobs |-> IF j \in Active THEN "failed" ELSE status[j]]
    /\ queue' = <<>> /\ cur' = None /\ Goto(0, "idle")
    /\ slot' = NoShot /\ busy' = NoShot
    /\ del' = None /\ skipped' = {}
    /\ clip' = [j \in Jobs |-> IF j \in Active THEN NoClip ELSE clip[j]]
    /\ UNCHANGED <<made, out, first, last, pick, rushed, diskVars>>

Render == Start \/ Restore \/ Fails \/ Sample \/ Save \/ Preview \/ Side \/ Finish
Encoder == Take \/ EncodeFails \/ Publish
Client == \/ Submit
          \/ \E r \in Jobs : Resume(r) \/ DeleteChecks(r) \/ CancelQueued(r)
          \/ \E r \in Jobs, s \in Shot : Retake(r, s)
          \/ DeleteRemoves

Next == Client \/ Render \/ Encoder \/ Crash

Spec == Init /\ [][Next]_vars

(* The worker and the preview thread are never starved. Clients and crashes *)
(* owe nothing.                                                             *)
LiveSpec == Spec /\ WF_vars(Render) /\ WF_vars(Encoder)
-----------------------------------------------------------------------------
(* Every variable keeps to its values.                                      *)
TypeOK ==
    /\ made \in 0..MaxJobs
    /\ status \in [Jobs -> {"new", "queued", "generating"} \cup Ended]
    /\ {out, points} \subseteq [Jobs -> Jobs \cup {None}]
    /\ {first, last} \subseteq [Jobs -> Shot]
    /\ pick \in [Jobs -> [Shot -> Jobs \cup {None}]]
    /\ dir \in [Jobs -> [Names -> Inodes \cup {NoFile}]]
    /\ data \in [Inodes -> 0..Torn]
    /\ queue \in Seq(Jobs) /\ IsInjective(queue)
    /\ cur \in Jobs \cup {None} /\ at \in 0..Shots
    /\ step \in {"idle", "restore", "sample", "save", "preview", "side",
                 "finish", "fail"}
    /\ {slot, busy} \subseteq 0..Shots
    /\ del \in Jobs \cup {None}
    /\ faults \in 0..MaxFaults
    /\ clip \in [Jobs -> [Shot -> [{"bin", "side"} -> 0..MaxJobs]]]
    /\ skipped \subseteq Shot
    /\ rushed \subseteq Jobs

(* Every resumed job so far got a bank of its own.                          *)
ForkHeld == Fallen = {}

(* A take is never lost to a later job: while forks work, what can be read  *)
(* in a bank changes only by the job the bank belongs to, or by a DELETE of *)
(* that bank (fork_ltx_bank: "no other take is touched"); only a bank that  *)
(* was linked from one still being written may see that one's writes.       *)
TakesSurvive ==
    [][ForkHeld' => \A b \in Jobs \ rushed :
          (Present(b) /\ Present(b)' /\ b # cur) =>
              \A n \in Names : Read(b, n)' = Read(b, n)]_vars

(* The shots in a job's video.                                              *)
Delivered(j) == {s \in Shot : clip[j][s]["bin"] # None}

(* The bank a completed job leaves describes the video it delivered, shot   *)
(* by shot, latent and sidecars, however its takes were mixed and also when *)
(* the render failed and the video stops early (routes_ltx.cpp: "a faithful *)
(* record of what was actually rendered"), as long as all that it was       *)
(* linked from was at rest.                                                 *)
BankRecordsClip ==
    ForkHeld => \A j \in Jobs \ rushed : status[j] = "completed" /\ Present(j) =>
        \A s \in Delivered(j), k \in {"bin", "side"} : Read(j, <<s, k>>) = clip[j][s][k]

(* A job that completes delivers every shot. The code does not keep it: a   *)
(* streamed chain that fails is completed with what was flushed before.     *)
CompletedIsWhole == \A j \in Jobs : status[j] = "completed" => Delivered(j) = Shot

(* A shot's sidecars may be missing after a death or a failure, but they    *)
(* are never those of another take than the latent next to them             *)
(* (stable-diffusion.cpp: "the three move together, per shot").             *)
SidecarsMatch ==
    ForkHeld => \A b \in Jobs, s \in Shot :
        Read(b, <<s, "side">>) \in {None, Read(b, <<s, "bin">>)}

(* A job that was accepted finds, until it has ended, the bank it writes    *)
(* and every shot the resume counted, whatever is deleted meanwhile.        *)
ActiveBankStays ==
    ForkHeld => \A j \in Active :
        /\ Present(j)
        /\ \A s \in 0..(first[j] - 1) :
              pick[j][s] = None => dir[j][<<s, "bin">>] # NoFile

(* When a job completes, a preview of its own take is out for every shot of *)
(* its video that it sampled, but for those that could not be encoded: it   *)
(* lists them at once, also when the video stops at a shot that failed.     *)
PreviewsAreOut ==
    [][\A j \in Jobs : status[j] = "generating" /\ status'[j] = "completed"
                        /\ Present(out[j]) =>
          \A s \in (Sampled(j) \cap Delivered(j)') \ skipped :
              Read(out[j], <<s, "webm">>) = j]_vars

(* Every job that was accepted ends, or is lost with the process.           *)
EveryJobEnds == \A j \in Jobs : status[j] = "queued" ~> status[j] \in Ended
=============================================================================

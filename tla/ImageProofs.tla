---------------------------- MODULE ImageProofs ----------------------------
(***************************************************************************)
(* Safety of what is done with images: of the OCR queue, for every set of  *)
(* images and every bound on attempts, requests and faults, and of the     *)
(* store of their originals, for every set of images, every number of      *)
(* clips and every bound on copies, commands, failures and restarts.       *)
(***************************************************************************)
EXTENDS OcrQueue, ImageStore, TLAPS

----------------------------------------------------------------------------
(* The OCR queue. *)


\* A job that may be claimed again, now or after a recovery, has an attempt left
\* that the limit or a fault pays for; the worker counts what its job has had.
AttemptsLeft ==
    \A i \in Rows :
      /\ jobs[i].attempts <= MaxAttempts + faults
      /\ \/ jobs[i].status \in {"pending", "retry"}
         \/ worker.pc = "down"
         \/ jobs[i].status = "processing" /\ worker.pc \in {"load", "apply", "recover"}
         => jobs[i].attempts < MaxAttempts + faults
      /\ i \in worker.image => jobs[i].attempts <= worker.attempts

IInv == TypeOK /\ ProcessingIsOwned /\ AttemptsLeft

----------------------------------------------------------------------------

\* What the assumption says of the bounds.
LEMMA Bounds ==
    /\ MaxAttempts \in Nat \ {0} /\ MaxRequests \in Nat /\ MaxFaults \in Nat
    /\ MaxAttempts + MaxFaults \in Nat
<1>1. MaxAttempts \in Nat \ {0} /\ MaxRequests \in Nat /\ MaxFaults \in Nat
  BY OcrAssumption
<1> QED
  BY <1>1

\* Being asked for (again) makes a job of a job, with no attempts.
LEMMA QueuedJob ==
    ASSUME NEW j \in Job
    PROVE  /\ Queued(j) \in Job
           /\ Queued(j).status = "pending" /\ Queued(j).attempts = 0
           /\ Queued(j).text = j.text
<1>1. 0 \in Attempts
  BY Bounds DEF Attempts
<1>2. Queued(j) \in Job
  BY <1>1 DEF Queued, Job, Statuses
<1>3. Queued(j).status = "pending" /\ Queued(j).attempts = 0 /\ Queued(j).text = j.text
  BY DEF Queued, Job
<1> QED
  BY <1>2, <1>3

\* The first state has no jobs and an idle worker.
LEMMA InitInv == Init => IInv
<1> SUFFICES ASSUME Init PROVE IInv
  OBVIOUS
<1>1. Rows = {} /\ JobsTyped
  BY DEF Init, Rows, JobsTyped
<1>2. WorkerTyped
  BY Bounds DEF Init, WorkerTyped, AtMostOne, IdleWorker, Attempts
<1>3. OthersTyped
  <2>1. AtMostOne({})
    BY DEF AtMostOne
  <2>2. 0 \in 0 .. MaxRequests /\ 0 \in 0 .. MaxFaults
    BY Bounds
  <2> QED
    BY <2>1, <2>2 DEF Init, OthersTyped
<1> QED
  BY <1>1, <1>2, <1>3 DEF IInv, TypeOK, ProcessingIsOwned, AttemptsLeft

----------------------------------------------------------------------------
(* Steps that leave the worker alone: captures, commands, the reprocess.   *)

Asked(j) == j.status = "pending" /\ j.attempts = 0

\* What these steps may do to a job, short of asking for it again.
Tamed(j, new) ==
    /\ new.attempts = j.attempts
    /\ new.status \in {"pending", "retry"} => j.status \in {"pending", "retry"}
    /\ new.status = "processing" => j.status = "processing" /\ new.text = j.text

Quiet ==
    /\ worker' = worker /\ faults' \in {faults, faults + 1}
    /\ Rows' \subseteq Images /\ jobs' \in [Rows' -> Job]
    /\ \A i \in Rows' : Asked(jobs'[i]) \/ (i \in Rows /\ Tamed(jobs[i], jobs'[i]))

\* Such a step keeps every claimed job with the worker and adds no attempt.
LEMMA QuietStep ==
    ASSUME IInv, Quiet
    PROVE  JobsTyped' /\ WorkerTyped' /\ ProcessingIsOwned' /\ AttemptsLeft'
<1>1. JobsTyped' /\ WorkerTyped'
  BY DEF IInv, TypeOK, Quiet, JobsTyped, WorkerTyped, AtMostOne, Rows
<1>2. ProcessingIsOwned'
  BY DEF IInv, TypeOK, Quiet, ProcessingIsOwned, Asked, Tamed, Rows
<1>3. /\ faults \in Nat /\ faults' \in Nat /\ faults <= faults'
      /\ worker.attempts \in Nat /\ worker' = worker
  BY Bounds DEF IInv, TypeOK, Quiet, OthersTyped, WorkerTyped, Attempts
<1>4. ASSUME NEW i \in Rows'
      PROVE  /\ jobs'[i].attempts <= MaxAttempts + faults'
             /\ \/ jobs'[i].status \in {"pending", "retry"}
                \/ worker'.pc = "down"
                \/ jobs'[i].status = "processing" /\ worker'.pc \in {"load", "apply", "recover"}
                => jobs'[i].attempts < MaxAttempts + faults'
             /\ i \in worker'.image => jobs'[i].attempts <= worker'.attempts
  <2>1. CASE Asked(jobs'[i])
    <3>1. jobs'[i].attempts = 0
      BY <2>1 DEF Asked
    <3> QED
      BY <1>3, <3>1, Bounds
  <2>2. CASE i \in Rows /\ Tamed(jobs[i], jobs'[i])
    <3>1. jobs[i].attempts \in Nat
      BY <2>2, Bounds DEF IInv, TypeOK, JobsTyped, Job, Attempts
    <3> QED
      BY <1>3, <2>2, <3>1, Bounds DEF IInv, Tamed, AttemptsLeft
  <2> QED
    BY <1>4, <2>1, <2>2 DEF Quiet
<1> QED
  BY <1>1, <1>2, <1>4 DEF AttemptsLeft

\* An original comes or goes, or a retry falls due: no more than that.
LEMMA OneFieldSet ==
    ASSUME JobsTyped, NEW i \in Rows, NEW value \in BOOLEAN,
           \/ jobs' = [jobs EXCEPT ![i].stored = value]
           \/ jobs' = [jobs EXCEPT ![i].due = value]
    PROVE  /\ Rows' = Rows /\ jobs' \in [Rows' -> Job]
           /\ \A k \in Rows' : Tamed(jobs[k], jobs'[k])
<1>1. Rows' = Rows
  BY DEF JobsTyped, Rows
<1>2. jobs' = [k \in Rows |-> jobs'[k]]
  BY DEF JobsTyped, Rows
<1>3. ASSUME NEW k \in Rows
      PROVE  jobs'[k] \in Job /\ Tamed(jobs[k], jobs'[k])
  <2>1. jobs[k] \in Job
    BY DEF JobsTyped
  <2>2. jobs'[k] \in {jobs[k], [jobs[k] EXCEPT !.stored = value],
                      [jobs[k] EXCEPT !.due = value]}
    BY DEF JobsTyped, Rows
  <2> QED
    BY <2>1, <2>2 DEF Job, Tamed
<1> QED
  BY <1>1, <1>2, <1>3

\* Captures, commands, the clock and the reprocess are quiet.
LEMMA QuietActions ==
    ASSUME IInv,
           \/ \E i \in Images : InsertImage(i)
           \/ Capturing \/ RetryIsDue \/ User \/ Reprocess
    PROVE  Quiet
<1> USE Bounds, QueuedJob
        DEF IInv, TypeOK, JobsTyped, Quiet, Asked, Tamed, Rows, Request, Fault, CommandOnly,
            counters, Job, Attempts, Statuses
<1>1. ASSUME NEW i \in Images, InsertImage(i) PROVE Quiet
  BY <1>1 DEF InsertImage
<1>2. ASSUME StoreImage PROVE Quiet
  <2>1. PICK c \in capturing : \/ jobs' = [jobs EXCEPT ![c.image].stored = TRUE]
                              \/ jobs' = Without(c.image)
    BY <1>2 DEF StoreImage
  <2>2. CASE jobs' = [jobs EXCEPT ![c.image].stored = TRUE]
    BY <1>2, <2>2, OneFieldSet DEF StoreImage
  <2>3. CASE jobs' = Without(c.image)
    BY <1>2, <2>3 DEF StoreImage, Without
  <2> QED
    BY <2>1, <2>2, <2>3
<1>3. ASSUME NEW i \in Images, Recapture(i) PROVE Quiet
  BY <1>3, OneFieldSet DEF Recapture
<1>4. ASSUME Enqueue PROVE Quiet
  BY <1>4 DEF Enqueue
<1>5. ASSUME RetryIsDue PROVE Quiet
  BY <1>5, OneFieldSet DEF RetryIsDue
<1>6. ASSUME NEW i \in Images, NEW text \in {"none", "corrected"}, SetText(i, text) PROVE Quiet
  BY <1>6 DEF SetText
<1>7. ASSUME NEW i \in Images, Rescan(i) PROVE Quiet
  BY <1>7 DEF Rescan
<1>8. ASSUME RetryFailed PROVE Quiet
  BY <1>8 DEF RetryFailed
<1>9. ASSUME NEW i \in Images, Delete(i) PROVE Quiet
  BY <1>9 DEF Delete, Without
<1>10. ASSUME NEW i \in Images, Expire(i) PROVE Quiet
  BY <1>10, OneFieldSet DEF Expire
<1>11. ASSUME NEW value \in BOOLEAN, SavePaused(value) PROVE Quiet
  BY <1>11 DEF SavePaused
<1>12. ASSUME SetPaused PROVE Quiet
  BY <1>12 DEF SetPaused
<1>13. ASSUME CheckReprocess PROVE Quiet
  BY <1>13 DEF CheckReprocess
<1>14. ASSUME ResetTexts PROVE Quiet
  BY <1>14 DEF ResetTexts
<1>15. ASSUME FlagReprocessed PROVE Quiet
  BY <1>15 DEF FlagReprocessed
<1> QED
  BY <1>1, <1>2, <1>3, <1>4, <1>5, <1>6, <1>7, <1>8, <1>9, <1>10, <1>11, <1>12, <1>13, <1>14,
     <1>15 DEF Capturing, User, Reprocess

----------------------------------------------------------------------------

\* The settings, the capture, the pause and the counters keep their types.
LEMMA OthersStep == IInv /\ Next => OthersTyped'
<1> SUFFICES ASSUME IInv, Next PROVE OthersTyped'
  OBVIOUS
<1> USE Bounds DEF IInv, TypeOK, OthersTyped, AtMostOne
<1>1. ASSUME NEW i \in Images, InsertImage(i) PROVE OthersTyped'
  BY <1>1 DEF InsertImage, counters
<1>2. ASSUME StoreImage PROVE OthersTyped'
  BY <1>2 DEF StoreImage, Fault
<1>3. ASSUME Enqueue PROVE OthersTyped'
  BY <1>3 DEF Enqueue, Fault
<1>4. ASSUME Worker PROVE OthersTyped'
  <2>1. WorkerOnly /\ faults' \in {faults} \cup {f \in {faults + 1} : faults < MaxFaults}
    BY <1>4 DEF Worker, LoadPaused, ApplyPaused, Recover, Claim, Recognize, MarkCompleted,
       MarkUnavailable, MarkFailed, WorkerFails, Fault
  <2>2. paused' \in {paused, worker.loaded}
    BY <1>4 DEF Worker, LoadPaused, ApplyPaused, Recover, Claim, Recognize, MarkCompleted,
       MarkUnavailable, MarkFailed, WorkerFails
  <2>3. paused' \in BOOLEAN
    BY <2>2 DEF WorkerTyped
  <2> QED
    BY <2>1, <2>3 DEF WorkerOnly
<1>5. ASSUME RetryIsDue PROVE OthersTyped'
  BY <1>5 DEF RetryIsDue, counters
<1>6. ASSUME User PROVE OthersTyped'
  <2>1. ASSUME NEW i \in Images, Rescan(i) \/ Delete(i) \/ Expire(i) PROVE OthersTyped'
    BY <2>1 DEF Rescan, Delete, Expire, CommandOnly, Request
  <2>2. ASSUME NEW i \in Images, Recapture(i) PROVE OthersTyped'
    BY <2>2 DEF Recapture, Request
  <2>3. ASSUME NEW i \in Images, NEW text \in {"none", "corrected"}, SetText(i, text)
        PROVE  OthersTyped'
    BY <2>3 DEF SetText, CommandOnly, Request
  <2>4. ASSUME RetryFailed PROVE OthersTyped'
    BY <2>4 DEF RetryFailed, CommandOnly, Request
  <2>5. ASSUME NEW value \in BOOLEAN, SavePaused(value) PROVE OthersTyped'
    BY <2>5 DEF SavePaused, CommandOnly, Request
  <2>6. ASSUME SetPaused PROVE OthersTyped'
    BY <2>6 DEF SetPaused, CommandOnly
  <2> QED
    BY <1>6, <2>1, <2>2, <2>3, <2>4, <2>5, <2>6 DEF User
<1>7. ASSUME Reprocess PROVE OthersTyped'
  <2>1. ASSUME CheckReprocess PROVE OthersTyped'
    BY <2>1 DEF CheckReprocess, Fault
  <2>2. ASSUME ResetTexts PROVE OthersTyped'
    BY <2>2 DEF ResetTexts, Fault
  <2>3. ASSUME FlagReprocessed PROVE OthersTyped'
    <3>1. flagged' \in BOOLEAN
      BY <2>3 DEF FlagReprocessed
    <3> QED
      BY <2>3, <3>1 DEF FlagReprocessed, Fault
  <2> QED
    BY <1>7, <2>1, <2>2, <2>3 DEF Reprocess
<1>8. ASSUME Crash PROVE OthersTyped'
  <2>1. capturing' = {} /\ pausing' = {} /\ paused' = FALSE /\ reprocess' = "check"
    BY <1>8 DEF Crash
  <2>2. UNCHANGED <<saved, flagged, requests>> /\ faults' \in 0 .. MaxFaults
    BY <1>8 DEF Crash, Fault
  <2> QED
    BY <2>1, <2>2
<1>9. ASSUME Boot PROVE OthersTyped'
  BY <1>9 DEF Boot, counters
<1> QED
  BY <1>1, <1>2, <1>3, <1>4, <1>5, <1>6, <1>7, <1>8, <1>9 DEF Next, Capturing

----------------------------------------------------------------------------
(* Steps of the worker, and the process that ends and starts.              *)

\* A worker without a job is well typed.
LEMMA WorkerWithoutJob ==
    ASSUME WorkerTyped,
           \/ worker' = IdleWorker
           \/ worker' = [IdleWorker EXCEPT !.pc = "down"]
           \/ BackToLoop
    PROVE  WorkerTyped' /\ worker'.image = {}
<1>1. PICK where \in {"load", "down", "loop"}, loaded \in BOOLEAN :
        worker' = [pc |-> where, image |-> {}, attempts |-> 0, payload |-> FALSE,
                   result |-> {}, loaded |-> loaded]
  <2>1. CASE worker' = IdleWorker
    BY <2>1 DEF IdleWorker
  <2>2. CASE worker' = [IdleWorker EXCEPT !.pc = "down"]
    BY <2>2 DEF IdleWorker
  <2>3. CASE BackToLoop
    <3>1. worker.loaded \in BOOLEAN
      BY DEF WorkerTyped
    <3> QED
      BY <2>3, <3>1 DEF BackToLoop, IdleWorker
  <2> QED
    BY <2>1, <2>2, <2>3
<1>2. 0 \in Attempts
  BY Bounds DEF Attempts
<1>3. worker' \in [pc : {"load", "apply", "recover", "loop", "job", "mark", "down"},
                  image : SUBSET Images, attempts : Attempts,
                  payload : BOOLEAN, result : SUBSET Results, loaded : BOOLEAN]
  BY <1>1, <1>2
<1> QED
  BY <1>1, <1>3 DEF WorkerTyped, AtMostOne

\* The worker writes a result: no row is left 'processing', and one that is to
\* be tried again has an attempt left.
Settled ==
    /\ worker.pc = "mark" /\ BackToLoop /\ faults' = faults
    /\ Rows' = Rows /\ jobs' \in [Rows -> Job]
    /\ \A k \in Rows :
         /\ jobs'[k].attempts = jobs[k].attempts
         /\ jobs'[k].status # "processing"
         /\ jobs'[k].status \in {"pending", "retry"}
              => jobs[k].status \in {"pending", "retry"} \/ (k \in worker.image /\ Retries)

\* A job that is settled leaves the worker at its loop.
LEMMA SettledStep ==
    ASSUME IInv, Settled
    PROVE  JobsTyped' /\ WorkerTyped' /\ ProcessingIsOwned' /\ AttemptsLeft'
<1>1. JobsTyped'
  BY DEF IInv, TypeOK, Settled, JobsTyped
<1>2. WorkerTyped' /\ worker'.image = {} /\ worker'.pc = "loop"
  BY WorkerWithoutJob DEF IInv, TypeOK, Settled, BackToLoop, IdleWorker
<1>3. ProcessingIsOwned'
  BY DEF ProcessingIsOwned, Settled
<1>4. ASSUME NEW k \in Rows
      PROVE  /\ jobs'[k].attempts <= MaxAttempts + faults'
             /\ jobs'[k].status \in {"pending", "retry"} =>
                    jobs'[k].attempts < MaxAttempts + faults'
  <2>1. faults \in Nat /\ worker.attempts \in Nat /\ jobs[k].attempts \in Nat
    BY Bounds DEF IInv, TypeOK, JobsTyped, Job, OthersTyped, WorkerTyped, Attempts
  <2>2. faults' = faults /\ jobs'[k].attempts = jobs[k].attempts
    BY DEF Settled
  <2>3. CASE jobs[k].status \in {"pending", "retry"}
    BY <2>1, <2>2, <2>3 DEF IInv, AttemptsLeft
  <2>4. CASE k \in worker.image /\ Retries
    BY <2>1, <2>2, <2>4, Bounds DEF IInv, AttemptsLeft, Retries
  <2>5. CASE jobs'[k].status \notin {"pending", "retry"}
    BY <2>1, <2>2, <2>5 DEF IInv, AttemptsLeft
  <2> QED
    BY <2>3, <2>4, <2>5 DEF Settled
<1> QED
  BY <1>1, <1>2, <1>3, <1>4 DEF AttemptsLeft, Settled

\* mark_completed and mark_failed settle what the worker claimed: it is the only
\* 'processing' row there is.
LEMMA MarkingSettles ==
    ASSUME IInv, MarkCompleted \/ MarkUnavailable \/ MarkFailed
    PROVE  Settled
<1>1. worker.pc = "mark" /\ BackToLoop /\ faults' = faults
  BY DEF MarkCompleted, MarkUnavailable, MarkFailed
<1>2. ASSUME NEW k \in Rows, jobs[k].status = "processing"
      PROVE  worker.image = {k} /\ jobs[k].text = "none"
  BY <1>1, <1>2 DEF IInv, ProcessingIsOwned
<1>3. ASSUME NEW k \in Rows PROVE jobs[k] \in Job
  BY <1>3 DEF IInv, TypeOK, JobsTyped
<1> USE DEF Job, Statuses, Rows
<1>4. CASE MarkCompleted
  <2>1. PICK i \in worker.image :
          jobs' = [k \in Rows |->
                    IF k = i
                    THEN [jobs[k] EXCEPT !.status = "completed", !.due = TRUE,
                            !.text = IF worker.result = {"text"} THEN "recognized" ELSE "none"]
                    ELSE jobs[k]]
    BY <1>4 DEF MarkCompleted
  <2>2. ASSUME NEW k \in Rows
        PROVE  jobs'[k] \in Job /\ jobs'[k].attempts = jobs[k].attempts
               /\ jobs'[k].status \in {"completed", jobs[k].status}
               /\ (k = i => jobs'[k].status = "completed")
    BY <1>3, <2>1, <2>2
  <2>3. Rows' = Rows /\ jobs' \in [Rows -> Job]
    BY <2>1, <2>2
  <2>4. ASSUME NEW k \in Rows PROVE jobs'[k].status # "processing"
    BY <1>2, <2>2, <2>4
  <2> QED
    BY <1>1, <2>2, <2>3, <2>4 DEF Settled
<1>5. CASE MarkUnavailable
  <2>1. ASSUME NEW k \in Rows
        PROVE  /\ jobs'[k] \in Job /\ jobs'[k].attempts = jobs[k].attempts
               /\ jobs'[k].status \in {"unavailable", jobs[k].status}
               /\ jobs[k].status = "processing" => jobs'[k].status = "unavailable"
    BY <1>2, <1>3, <1>5, <2>1 DEF MarkUnavailable
  <2> QED
    BY <1>1, <1>5, <2>1 DEF Settled, MarkUnavailable
<1>6. CASE MarkFailed
  <2>1. PICK i \in worker.image :
          jobs' = [k \in Rows |->
                    IF k = i
                    THEN [jobs[k] EXCEPT !.status = IF Retries THEN "retry" ELSE "failed",
                                         !.due = ~Retries]
                    ELSE jobs[k]]
    BY <1>6 DEF MarkFailed
  <2>2. ASSUME NEW k \in Rows
        PROVE  /\ jobs'[k] \in Job /\ jobs'[k].attempts = jobs[k].attempts
               /\ k # i => jobs'[k] = jobs[k]
               /\ k = i => jobs'[k].status = IF Retries THEN "retry" ELSE "failed"
    BY <1>3, <2>1, <2>2
  <2>3. Rows' = Rows /\ jobs' \in [Rows -> Job]
    BY <2>1, <2>2
  <2>4. ASSUME NEW k \in Rows
        PROVE  /\ jobs'[k].status # "processing"
               /\ jobs'[k].status \in {"pending", "retry"}
                    => jobs[k].status \in {"pending", "retry"} \/ (k \in worker.image /\ Retries)
    BY <1>2, <2>2, <2>4
  <2> QED
    BY <1>1, <2>2, <2>3, <2>4 DEF Settled
<1> QED
  BY <1>4, <1>5, <1>6

\* The numbers that AttemptsLeft compares.
LEMMA Numbers ==
    ASSUME IInv
    PROVE  /\ faults \in Nat /\ worker.attempts \in Nat
           /\ \A k \in Rows : jobs[k] \in Job /\ jobs[k].attempts \in Nat
  BY Bounds DEF IInv, TypeOK, JobsTyped, Job, OthersTyped, WorkerTyped, Attempts

\* Loading the pause moves only the worker.
LEMMA LoadingStep ==
    ASSUME IInv, LoadPaused \/ ApplyPaused
    PROVE  JobsTyped' /\ WorkerTyped' /\ ProcessingIsOwned' /\ AttemptsLeft'
<1>1. /\ jobs' = jobs /\ faults' = faults
      /\ worker.pc \in {"load", "apply"} /\ worker'.pc \in {"apply", "recover"}
      /\ worker'.image = worker.image /\ worker'.result = worker.result
      /\ worker'.attempts = worker.attempts
  BY DEF LoadPaused, ApplyPaused, IInv, TypeOK, WorkerTyped
<1>2. JobsTyped'
  BY <1>1 DEF IInv, TypeOK, JobsTyped, Rows
<1>3. WorkerTyped'
  <2>1. saved \in BOOLEAN
    BY DEF IInv, TypeOK, OthersTyped
  <2> QED
    BY <1>1, <2>1 DEF LoadPaused, ApplyPaused, IInv, TypeOK, WorkerTyped, AtMostOne
<1>4. ProcessingIsOwned'
  BY <1>1 DEF IInv, ProcessingIsOwned, Rows
<1>5. AttemptsLeft'
  BY <1>1 DEF IInv, AttemptsLeft, Rows
<1> QED
  BY <1>2, <1>3, <1>4, <1>5

\* A recovered job has an attempt left: the fault that cut it short pays for it.
LEMMA RecoverStep ==
    ASSUME IInv, Recover
    PROVE  JobsTyped' /\ WorkerTyped' /\ ProcessingIsOwned' /\ AttemptsLeft'
<1>1. /\ worker.pc = "recover" /\ worker'.pc = "loop" /\ faults' = faults
      /\ worker'.image = {} /\ worker'.result = {} /\ worker.image = {}
  BY DEF Recover, IInv, TypeOK, WorkerTyped
<1>2. ASSUME NEW k \in Rows
      PROVE  /\ jobs'[k] \in Job /\ jobs'[k].attempts = jobs[k].attempts
             /\ jobs'[k].status # "processing"
             /\ jobs'[k].status \in {"pending", "retry"}
                  => jobs[k].status \in {"pending", "retry", "processing"}
  <2>1. jobs[k] \in Job
    BY Numbers
  <2>2. jobs[k].status = "processing" => jobs[k].text = "none"
    BY DEF IInv, ProcessingIsOwned
  <2> QED
    BY <2>1, <2>2 DEF Recover, Job, Statuses
<1>3. Rows' = Rows /\ jobs' \in [Rows -> Job]
  BY <1>2 DEF Recover, Rows
<1>4. JobsTyped'
  BY <1>3 DEF IInv, TypeOK, JobsTyped
<1>5. WorkerTyped'
  BY <1>1 DEF Recover, IInv, TypeOK, WorkerTyped, AtMostOne
<1>6. ProcessingIsOwned'
  BY <1>2, <1>3 DEF ProcessingIsOwned
<1>7. AttemptsLeft'
  BY <1>1, <1>2, <1>3 DEF IInv, AttemptsLeft
<1> QED
  BY <1>4, <1>5, <1>6, <1>7

\* A claim takes one of the attempts that are left, when no row is 'processing'.
LEMMA ClaimStep ==
    ASSUME IInv, Claim
    PROVE  JobsTyped' /\ WorkerTyped' /\ ProcessingIsOwned' /\ AttemptsLeft'
<1>1. PICK i \in Claimable :
        /\ worker.pc = "loop"
        /\ jobs' = [jobs EXCEPT ![i].status = "processing", ![i].attempts = @ + 1]
        /\ worker' = [worker EXCEPT !.pc = "job", !.image = {i},
                                    !.attempts = jobs[i].attempts + 1,
                                    !.payload = jobs[i].stored]
        /\ faults' = faults
  BY DEF Claim
<1>2. i \in Rows /\ jobs[i].text = "none" /\ jobs[i].status \in {"pending", "retry"}
  BY DEF Claimable
<1>3. jobs[i].attempts < MaxAttempts + faults
  BY <1>2 DEF IInv, AttemptsLeft
<1>4. jobs[i].attempts + 1 \in Attempts /\ jobs[i].attempts + 1 <= MaxAttempts + faults
  <2>1. faults <= MaxFaults
    BY Bounds DEF IInv, TypeOK, OthersTyped
  <2> QED
    BY <1>2, <1>3, <2>1, Bounds, Numbers DEF Attempts
<1>5. ASSUME NEW k \in Rows
      PROVE  /\ k # i => jobs'[k] = jobs[k]
             /\ k = i => /\ jobs'[k].status = "processing" /\ jobs'[k].text = "none"
                         /\ jobs'[k].attempts = jobs[k].attempts + 1
             /\ jobs'[k] \in Job
  <2>1. k = i => jobs'[k] = [jobs[i] EXCEPT !.status = "processing", !.attempts = @ + 1]
    BY <1>1, <1>2 DEF IInv, TypeOK, JobsTyped
  <2>2. k # i => jobs'[k] = jobs[k]
    BY <1>1, <1>2 DEF IInv, TypeOK, JobsTyped
  <2> QED
    BY <1>2, <1>4, <2>1, <2>2, Numbers DEF Job, Statuses
<1>6. Rows' = Rows /\ jobs' \in [Rows -> Job]
  <2>1. Rows' = Rows /\ jobs' = [k \in Rows |-> jobs'[k]]
    BY <1>1 DEF IInv, TypeOK, JobsTyped, Rows
  <2> QED
    BY <1>5, <2>1
<1>7. /\ worker'.pc = "job" /\ worker'.image = {i} /\ worker'.result = {}
      /\ worker'.attempts = jobs[i].attempts + 1
  BY <1>1 DEF IInv, TypeOK, WorkerTyped
<1>8. JobsTyped'
  BY <1>6 DEF IInv, TypeOK, JobsTyped
<1>9. WorkerTyped'
  <2>1. i \in Images /\ jobs[i].stored \in BOOLEAN
    BY <1>2, Numbers DEF IInv, TypeOK, JobsTyped, Job
  <2>2. worker' \in [pc : {"load", "apply", "recover", "loop", "job", "mark", "down"},
                    image : SUBSET Images, attempts : Attempts,
                    payload : BOOLEAN, result : SUBSET Results, loaded : BOOLEAN]
    BY <1>1, <1>4, <2>1 DEF IInv, TypeOK, WorkerTyped
  <2> QED
    BY <1>7, <2>2 DEF WorkerTyped, AtMostOne
<1>10. ProcessingIsOwned'
  BY <1>1, <1>5, <1>6, <1>7 DEF IInv, ProcessingIsOwned
<1>11. AttemptsLeft'
  BY <1>1, <1>2, <1>4, <1>5, <1>6, <1>7, Numbers DEF IInv, AttemptsLeft
<1> QED
  BY <1>8, <1>9, <1>10, <1>11

\* Recognizing keeps the job.
LEMMA RecognizeStep ==
    ASSUME IInv, Recognize
    PROVE  JobsTyped' /\ WorkerTyped' /\ ProcessingIsOwned' /\ AttemptsLeft'
<1>1. PICK result \in Results :
        /\ worker.pc = "job" /\ worker.image # {}
        /\ worker' = [worker EXCEPT !.pc = "mark", !.result = {result}]
        /\ jobs' = jobs /\ faults' = faults
  BY DEF Recognize
<1>2. /\ worker'.pc = "mark" /\ worker'.image = worker.image
      /\ worker'.result = {result} /\ worker'.attempts = worker.attempts
  BY <1>1 DEF IInv, TypeOK, WorkerTyped
<1>3. JobsTyped'
  BY <1>1 DEF IInv, TypeOK, JobsTyped, Rows
<1>4. WorkerTyped'
  <2>1. worker' \in [pc : {"load", "apply", "recover", "loop", "job", "mark", "down"},
                    image : SUBSET Images, attempts : Attempts,
                    payload : BOOLEAN, result : SUBSET Results, loaded : BOOLEAN]
    BY <1>1 DEF IInv, TypeOK, WorkerTyped
  <2> QED
    BY <1>1, <1>2, <2>1 DEF IInv, TypeOK, WorkerTyped, AtMostOne
<1>5. ProcessingIsOwned'
  BY <1>1, <1>2 DEF IInv, ProcessingIsOwned, Rows
<1>6. AttemptsLeft'
  BY <1>1, <1>2 DEF IInv, AttemptsLeft, Rows
<1> QED
  BY <1>3, <1>4, <1>5, <1>6

\* A fault pays for one more attempt of whatever it cuts short.
LEMMA FaultStep ==
    ASSUME IInv, WorkerFails \/ Crash
    PROVE  JobsTyped' /\ WorkerTyped' /\ ProcessingIsOwned' /\ AttemptsLeft'
<1>1. jobs' = jobs /\ faults' = faults + 1
  BY DEF WorkerFails, Crash, Fault
<1>2. worker'.pc \in {"load", "down"}
  BY DEF WorkerFails, Crash, IdleWorker
<1>3. WorkerTyped' /\ worker'.image = {}
  BY WorkerWithoutJob DEF WorkerFails, Crash, IInv, TypeOK
<1>4. JobsTyped'
  BY <1>1 DEF IInv, TypeOK, JobsTyped, Rows
<1>5. ProcessingIsOwned'
  BY <1>1, <1>2 DEF IInv, ProcessingIsOwned, Rows
<1>6. ASSUME NEW k \in Rows
      PROVE  jobs'[k].attempts < MaxAttempts + faults' /\ jobs'[k].attempts <= MaxAttempts + faults'
  BY <1>1, Numbers, Bounds DEF IInv, AttemptsLeft
<1> QED
  BY <1>1, <1>3, <1>4, <1>5, <1>6 DEF AttemptsLeft, Rows

\* What the process left behind waits again when the database opens.
LEMMA BootStep ==
    ASSUME IInv, Boot
    PROVE  JobsTyped' /\ WorkerTyped' /\ ProcessingIsOwned' /\ AttemptsLeft'
<1>1. worker.pc = "down" /\ faults' = faults
  BY DEF Boot, counters
<1>2. WorkerTyped' /\ worker'.image = {}
  BY WorkerWithoutJob DEF Boot, IInv, TypeOK
<1>3. ASSUME NEW k \in Rows
      PROVE  /\ jobs'[k] \in Job /\ jobs'[k].attempts = jobs[k].attempts
             /\ jobs'[k].status # "processing"
  <2>1. jobs[k] \in Job
    BY Numbers
  <2> QED
    BY <2>1 DEF Boot, Job, Statuses
<1>4. Rows' = Rows /\ jobs' \in [Rows -> Job]
  BY <1>3 DEF Boot, Rows
<1>5. JobsTyped'
  BY <1>4 DEF IInv, TypeOK, JobsTyped
<1>6. ProcessingIsOwned'
  BY <1>3, <1>4 DEF ProcessingIsOwned
<1>7. AttemptsLeft'
  BY <1>1, <1>2, <1>3, <1>4 DEF IInv, AttemptsLeft
<1> QED
  BY <1>2, <1>5, <1>6, <1>7

----------------------------------------------------------------------------

\* Every step preserves the invariant.
LEMMA StepInv == IInv /\ [Next]_vars => IInv'
<1> SUFFICES ASSUME IInv, [Next]_vars PROVE IInv'
  OBVIOUS
<1>1. CASE Next
  <2>1. JobsTyped' /\ WorkerTyped' /\ ProcessingIsOwned' /\ AttemptsLeft'
    <3>1. CASE \/ \E i \in Images : InsertImage(i)
               \/ Capturing \/ RetryIsDue \/ User \/ Reprocess
      BY <3>1, QuietActions, QuietStep
    <3>2. CASE Worker
      BY <3>2, LoadingStep, RecoverStep, ClaimStep, RecognizeStep, MarkingSettles, SettledStep,
         FaultStep DEF Worker
    <3>3. CASE Crash \/ Boot
      BY <3>3, FaultStep, BootStep
    <3> QED
      BY <1>1, <3>1, <3>2, <3>3 DEF Next
  <2>2. OthersTyped'
    BY <1>1, OthersStep
  <2> QED
    BY <2>1, <2>2 DEF IInv, TypeOK
<1>2. CASE UNCHANGED vars
  BY <1>2 DEF vars, IInv, TypeOK, JobsTyped, WorkerTyped, OthersTyped, AtMostOne,
     ProcessingIsOwned, AttemptsLeft, Rows
<1> QED
  BY <1>1, <1>2

\* The invariant holds of every reachable state.
THEOREM Invariance == Spec => []IInv
<1> QED
  BY InitInv, StepInv, PTL DEF Spec

\* Every variable keeps its type, the attempts their bound among them.
THEOREM TypeCorrect == Spec => []TypeOK
<1>1. IInv => TypeOK
  BY DEF IInv
<1> QED
  BY <1>1, Invariance, PTL

\* No job is stranded (recover_processing_jobs and the supervisor): a row is
\* 'processing' only while a worker has it or is about to recover it.
THEOREM NoJobStranded == Spec => []ProcessingIsOwned
<1>1. IInv => ProcessingIsOwned
  BY DEF IInv
<1> QED
  BY <1>1, Invariance, PTL

\* Only a fault costs an attempt beyond MAX_ATTEMPTS.
THEOREM AttemptsAreBounded == Spec => []AttemptsBounded
<1>1. IInv => AttemptsBounded
  BY DEF IInv, AttemptsLeft, AttemptsBounded
<1> QED
  BY <1>1, Invariance, PTL

----------------------------------------------------------------------------
(* The store of the originals. *)

\* What a capture under way is about: Lookup finds it a clip; only a new one is inserted,
\* indexed and rolled back, and only one that was there is updated in a transaction, which
\* keeps its row until it ends.  A capture has files to unlink only when it drops rows.
Shape(c) ==
    /\ c.pc = "lookup" <=> c.clip = None
    /\ c.new => c.pc \notin {"lookup", "update", "commit"}
    /\ ~c.new => c.pc \notin {"insert", "index", "undo", "undoFile", "path", "drop"}
    /\ c.pc \notin {"drop", "unlink"} => c.paths = {}
    /\ c.pc = "drop" => c.paths \subseteq {c.clip} /\ {c.clip} \cap named \subseteq c.paths
    /\ c.pc = "unlink" => c.paths \cap named = {}
    /\ c.new /\ c.pc \in {"insert", "stage", "write", "replace", "recover", "index", "undo",
                          "undoFile"} => c.clip \notin named
    /\ ~c.new /\ c.pc \in {"replace", "recover", "commit"} => Stored(c.clip)

Shaped == capture # Idle => Shape(capture)

\* The rows: an original is named only for a stored clip, and a uuid that is stored is used.
RowsFit == (\A u \in named : Stored(u)) /\ (\A u \in unused : ~Stored(u))

\* The temp of a capture is as its step says.
TempFits ==
    /\ capture.pc = "write" => temp[capture.clip] = "part"
    /\ capture.pc \in {"update", "replace", "recover"} => temp[capture.clip] = "full"
    /\ \A u \in (Temps \cap file) \ kept :
          capture.pc \in {"write", "update", "replace", "recover"} /\ capture.clip = u

\* A named file is whole, and nobody is about to unlink it, but for the doomed.
DoomedOnly ==
    /\ torn \cap named \subseteq doomed
    /\ command # Idle => command.paths \cap named \subseteq doomed

\* While the capture holds its temp, a named original is in place; once it has replaced it,
\* it is there, whole, before it is named.
InPlace ==
    /\ capture.pc \in {"write", "update", "replace"} /\ capture.clip \in named =>
          capture.clip \in file \cup doomed
    /\ capture.pc \in {"commit", "index"} =>
          /\ capture.clip \in (file \ torn) \cup doomed
          /\ command # Idle /\ capture.clip \in command.paths => capture.clip \in doomed

\* Every file has a row, an excuse, or somebody whose next step deals with it.
Owned ==
    \A u \in file :
        \/ u \in named \cup excused
        \/ capture.pc \in {"commit", "index", "undoFile"} /\ capture.clip = u
        \/ capture.pc = "unlink" /\ u \in capture.paths
        \/ command # Idle /\ u \in command.paths

\* What a reader that nobody has overtaken has found is still there.
ReaderSees ==
    reader # Idle /\ reader.whole /\ ~reader.overtaken =>
        /\ reader.result # "thumbnail"
        /\ reader.pc # "done" =>
              /\ reader.clip \in (named \cap file) \ torn
              /\ command # Idle => reader.clip \notin command.paths

\* The inductive invariant.
StoreInv ==
    /\ StoreTypeOK /\ Shaped /\ RowsFit /\ TempFits /\ DoomedOnly
    /\ InPlace /\ NamedFilesExist /\ Owned /\ ReaderSees

----------------------------------------------------------------------------

\* The records of who is at work.
CaptureType == [pc : CapturePc, image : Hashes, clip : Clips \cup {None}, new : BOOLEAN,
                paths : SUBSET Clips]
CommandType == [pc : {"unlink"}, paths : SUBSET Clips, dedup : BOOLEAN]
ReaderType == [pc : {"path", "read", "done"}, clip : Clips, whole : BOOLEAN,
               overtaken : BOOLEAN, result : {"none", "original", "thumbnail", "refused"}]
CountType == [captures : 0 .. MaxCaptures, commands : 0 .. MaxCommands,
              failures : 0 .. MaxFailures, restarts : 0 .. MaxRestarts]

\* What the assumption says of the bounds and of the images.
LEMMA StoreBounds ==
    /\ MaxCaptures \in Nat /\ MaxCommands \in Nat /\ MaxFailures \in Nat /\ MaxRestarts \in Nat
    /\ None \notin Clips /\ None \notin Hashes
    /\ ImageOf \in [Clips -> Hashes]
BY ImageAssumption

\* Idle is no record of somebody at work, and a row that has gone is no row.
LEMMA NoneIdle ==
    /\ Idle.pc = "idle" /\ Idle \notin CaptureType /\ Idle \notin CommandType
    /\ Idle \notin ReaderType /\ Gone \notin Row
<1>1. Idle.pc = "idle" /\ "idle" \notin CapturePc
  BY DEF Idle, CapturePc
<1>2. /\ \A c \in CaptureType : c.pc \in CapturePc
      /\ \A c \in CommandType : c.pc = "unlink"
      /\ \A r \in ReaderType : r.pc \in {"path", "read", "done"}
  BY DEF CaptureType, CommandType, ReaderType
<1>3. Gone \notin Row
  <2>1. DOMAIN Gone = {"gone"} /\ \A r \in Row : "pinned" \in DOMAIN r
    BY DEF Gone, Row
  <2> QED
    BY <2>1
<1> QED
  BY <1>1, <1>2, <1>3

\* What the type invariant says of the parts of the records.
LEMMA StoreFields ==
    ASSUME StoreTypeOK
    PROVE  /\ Idle.pc = "idle"
           /\ capture # Idle => /\ capture \in CaptureType /\ capture.pc \in CapturePc
                                /\ capture.image \in Hashes
                                /\ capture.clip \in Clips \cup {None}
                                /\ capture.new \in BOOLEAN /\ capture.paths \subseteq Clips
           /\ command # Idle => /\ command \in CommandType /\ command.paths \subseteq Clips
                                /\ command.dedup \in BOOLEAN
           /\ reader # Idle => /\ reader \in ReaderType /\ reader.clip \in Clips
                               /\ reader.pc \in {"path", "read", "done"}
                               /\ reader.whole \in BOOLEAN /\ reader.overtaken \in BOOLEAN
           /\ \A u \in Clips : Stored(u) => clips[u] \in Row
           /\ doomed \subseteq Clips /\ excused \subseteq Clips /\ kept \subseteq Clips
           /\ lastStable \in Hashes \cup {None}
           /\ named \subseteq Clips /\ file \subseteq Clips /\ torn \subseteq file
           /\ unused \subseteq Clips /\ temp \in [Clips -> {"none", "part", "full"}]
           /\ clips \in [Clips -> Row \cup {Gone}]
BY NoneIdle DEF StoreTypeOK, CaptureType, CommandType, ReaderType, Stored

\* What a step may make of a capture.
Became(pc, c, new, paths) ==
    /\ capture' # Idle /\ capture' \in CaptureType /\ capture'.image = capture.image
    /\ capture'.pc = pc /\ capture'.clip = c /\ capture'.new = new /\ capture'.paths = paths

\* The ways a capture goes on: what changes of it, and that it stays a capture.
LEMMA Moves ==
    ASSUME StoreTypeOK, capture # Idle
    PROVE  /\ \A pc \in CapturePc : Go(pc) => Became(pc, capture.clip, capture.new, capture.paths)
           /\ \A pc \in CapturePc, c \in Clips :
                 capture' = [capture EXCEPT !.pc = pc, !.clip = c] =>
                     Became(pc, c, capture.new, capture.paths)
           /\ \A pc \in CapturePc, c \in Clips, new \in BOOLEAN :
                 capture' = [capture EXCEPT !.pc = pc, !.clip = c, !.new = new] =>
                     Became(pc, c, new, capture.paths)
           /\ \A pc \in CapturePc, paths \in SUBSET Clips :
                 capture' = [capture EXCEPT !.pc = pc, !.paths = paths] =>
                     Became(pc, capture.clip, capture.new, paths)
           /\ \A paths \in SUBSET Clips :
                 capture' = [capture EXCEPT !.paths = paths] =>
                     Became(capture.pc, capture.clip, capture.new, paths)
<1> DEFINE P == SUBSET Clips  C == Clips \cup {None}
<1> HIDE DEF P, C
<1>0. /\ CaptureType = [pc : CapturePc, image : Hashes, clip : C, new : BOOLEAN, paths : P]
      /\ Clips \subseteq C
  BY DEF CaptureType, P, C
<1>1. capture \in CaptureType
  BY StoreFields
<1>2. \A pc \in CapturePc : Go(pc) => Became(pc, capture.clip, capture.new, capture.paths)
  BY <1>0, <1>1, NoneIdle DEF Became, Go
<1>3. ASSUME NEW pc \in CapturePc, NEW c \in Clips,
             capture' = [capture EXCEPT !.pc = pc, !.clip = c]
      PROVE  Became(pc, c, capture.new, capture.paths)
  BY <1>0, <1>1, <1>3, NoneIdle DEF Became
<1>4. ASSUME NEW pc \in CapturePc, NEW c \in Clips, NEW new \in BOOLEAN,
             capture' = [capture EXCEPT !.pc = pc, !.clip = c, !.new = new]
      PROVE  Became(pc, c, new, capture.paths)
  BY <1>0, <1>1, <1>4, NoneIdle DEF Became
<1>5. ASSUME NEW pc \in CapturePc, NEW paths \in P,
             capture' = [capture EXCEPT !.pc = pc, !.paths = paths]
      PROVE  Became(pc, capture.clip, capture.new, paths)
  BY <1>0, <1>1, <1>5, NoneIdle DEF Became
<1>6. ASSUME NEW paths \in P, capture' = [capture EXCEPT !.paths = paths]
      PROVE  Became(capture.pc, capture.clip, capture.new, paths)
  BY <1>0, <1>1, <1>6, NoneIdle DEF Became
<1> QED
  BY <1>2, <1>3, <1>4, <1>5, <1>6 DEF P

\* A step that overtakes a reader leaves it what it has read.
LEMMA Overtakes ==
    ASSUME StoreTypeOK, NEW S, Overtake(S)
    PROVE  /\ reader' = Idle <=> reader = Idle
           /\ reader # Idle =>
                 /\ reader' \in ReaderType /\ reader'.clip = reader.clip
                 /\ reader'.pc = reader.pc /\ reader'.whole = reader.whole
                 /\ reader'.result = reader.result
                 /\ reader'.overtaken = (reader.overtaken \/ reader.clip \in S)
<1>1. reader = Idle \/ reader \in ReaderType
  BY StoreFields
<1> QED
  BY <1>1, NoneIdle DEF Overtake, ReaderType

\* The steps of a capture are steps of a capture.
LEMMA Pcs ==
    /\ "lookup" \in CapturePc /\ "stage" \in CapturePc /\ "write" \in CapturePc
    /\ "update" \in CapturePc /\ "replace" \in CapturePc /\ "recover" \in CapturePc
    /\ "commit" \in CapturePc /\ "insert" \in CapturePc /\ "index" \in CapturePc
    /\ "undo" \in CapturePc /\ "undoFile" \in CapturePc /\ "formats" \in CapturePc
    /\ "path" \in CapturePc /\ "drop" \in CapturePc /\ "unlink" \in CapturePc
    /\ "stable" \in CapturePc /\ "retention" \in CapturePc
BY DEF CapturePc

\* StoreTypeOK by these names.
Types ==
    /\ clips \in [Clips -> Row \cup {Gone}]
    /\ named \subseteq Clips /\ file \subseteq Clips
    /\ temp \in [Clips -> {"none", "part", "full"}]
    /\ torn \subseteq file /\ unused \subseteq Clips
    /\ lastStable \in Hashes \cup {None}
    /\ capture \in {Idle} \cup CaptureType
    /\ command \in {Idle} \cup CommandType
    /\ reader \in {Idle} \cup ReaderType
    /\ doomed \subseteq Clips /\ excused \subseteq Clips /\ kept \subseteq Clips
    /\ count \in CountType

\* The type invariant, with names for its records.
LEMMA TypesAre == (StoreTypeOK <=> Types) /\ (StoreTypeOK' <=> Types')
BY DEF StoreTypeOK, Types, CaptureType, CommandType, ReaderType, CountType

\* Retention leaves rows rows, names no more originals and overtakes who reads them.
LEMMA Retained ==
    ASSUME StoreTypeOK, NEW S \in SUBSET Clips, Retention(S)
    PROVE  /\ clips' \in [Clips -> Row \cup {Gone}] /\ named' \subseteq named
           /\ Overtake(S \cup Removed(S))
<1>1. ASSUME NEW u \in Clips, u \in Preserved(S) PROVE [clips[u] EXCEPT !.expired = TRUE] \in Row
  <2>1. clips[u] \in Row
    BY <1>1, StoreFields DEF Preserved, Retainable, Shown
  <2> QED
    BY <2>1 DEF Row
<1> QED
  BY <1>1, StoreFields DEF Retention

\* A step that counts stays within its bound.
LEMMA Counted ==
    ASSUME count \in CountType
    PROVE  /\ Works => count' \in CountType
           /\ Fails => count' \in CountType
           /\ count.captures < MaxCaptures /\ count' = [count EXCEPT !.captures = @ + 1] =>
                 count' \in CountType
           /\ count.commands < MaxCommands /\ count' = [count EXCEPT !.commands = @ + 1] =>
                 count' \in CountType
BY StoreBounds DEF CountType, Works, Fails

\* A temp that is dropped goes, or stays and is excused.
Dropped ==
    \/ temp' = [temp EXCEPT ![capture.clip] = "none"] /\ kept' = kept
    \/ temp' = temp /\ kept' = kept \cup {capture.clip}

\* A file that is removed goes, or stays and is excused unless a row names it.
Took(u) ==
    \/ Unlink({u}) /\ excused' = excused
    \/ excused' = excused \cup ({u} \ named) /\ file' = file /\ torn' = torn

\* What dropping a temp and removing a file come to, but for the count.
LEMMA DroppedAndTook ==
    ASSUME StoreTypeOK
    PROVE  /\ \A failed \in BOOLEAN : DropTemp(failed) => Dropped /\ count' \in CountType
           /\ \A u \in Clips : Remove(u) => Took(u) /\ count' \in CountType
<1>1. count \in CountType
  BY TypesAre DEF Types
<1> QED
  BY <1>1, Counted DEF DropTemp, Dropped, Remove, Took

----------------------------------------------------------------------------
(* The steps of a capture. *)

\* A copy finds its clip, or a uuid for a new one (process_clipboard_snapshot).
LEMMA LookupStep ==
    ASSUME StoreInv, Lookup
    PROVE  StoreInv'
<1>1. /\ capture # Idle /\ capture.pc = "lookup"
      /\ \/ \E u \in Clips :
               /\ Stored(u) /\ ImageOf[u] = capture.image
               /\ Became("stage", u, capture.new, capture.paths)
         \/ \E u \in unused : Became("insert", u, TRUE, capture.paths)
      /\ UNCHANGED <<clips, named, file, temp, torn, unused, command, reader, doomed, excused,
                     kept>>
      /\ lastStable' \in Hashes \cup {None}
  BY StoreFields, Pcs, NoneIdle, Moves DEF StoreInv, Lookup, At, Works, rows, files, history
<1>2. count' \in CountType
  BY TypesAre, Counted DEF StoreInv, Types, Lookup
<1>3. StoreTypeOK'
  BY <1>1, <1>2, TypesAre, StoreFields DEF StoreInv, Types, Stored, Became
<1>4. Shaped'
  BY <1>1, StoreFields, NoneIdle, StoreBounds
  DEF StoreInv, Shaped, RowsFit, Stored, Shape, Became
<1>5. TempFits'
  BY <1>1, StoreFields DEF StoreInv, TempFits, Shaped, Stored, Temps, Shape, Became
<1>6. InPlace'
  BY <1>1, StoreFields
  DEF StoreInv, InPlace, DoomedOnly, NamedFilesExist, TempFits, Shaped, Stored, Temps, Shape,
      Became
<1>7. Owned'
  BY <1>1, StoreFields DEF StoreInv, Owned, Shaped, Stored, Shape, Became
<1>8. RowsFit' /\ DoomedOnly' /\ NamedFilesExist' /\ ReaderSees'
  BY <1>1 DEF StoreInv, RowsFit, DoomedOnly, NamedFilesExist, ReaderSees, Stored
<1> QED
  BY <1>3, <1>4, <1>5, <1>6, <1>7, <1>8 DEF StoreInv

\* The row of a new clip, whose uuid was in no row before.
LEMMA InsertStep ==
    ASSUME StoreInv, Insert
    PROVE  StoreInv'
<1>1. /\ capture # Idle /\ capture.pc = "insert"
      /\ Became("stage", capture.clip, capture.new, capture.paths)
      /\ \E r \in Row : clips' = [clips EXCEPT ![capture.clip] = r]
      /\ unused' = unused \ {capture.clip}
      /\ UNCHANGED <<named, file, temp, torn, command, reader, doomed, excused,
                     kept>>
      /\ lastStable' \in Hashes \cup {None}
  BY StoreFields, Pcs, NoneIdle, Moves
  DEF StoreInv, Insert, At, Writable, Works, files, history, Row
<1>2. capture.clip \in Clips
  BY <1>1, StoreFields, NoneIdle, StoreBounds DEF StoreInv, Shaped, Shape
<1>3. count' \in CountType
  BY TypesAre, Counted DEF StoreInv, Types, Insert
<1>4. StoreTypeOK'
  BY <1>1, <1>2, <1>3, TypesAre, StoreFields DEF StoreInv, Types, Became
<1>5. Shaped'
  BY <1>1, <1>2, StoreFields, NoneIdle, StoreBounds
  DEF StoreInv, Shaped, RowsFit, Shape, Stored, Became
<1>6. RowsFit'
  BY <1>1, <1>2, StoreFields, NoneIdle, StoreBounds
  DEF StoreInv, RowsFit, Shaped, Stored, Shape, Became
<1>7. TempFits'
  BY <1>1, <1>2, StoreFields DEF StoreInv, TempFits, Shaped, Temps, Shape, Stored, Became
<1>8. InPlace'
  BY <1>1, <1>2, StoreFields
  DEF StoreInv, InPlace, DoomedOnly, NamedFilesExist, TempFits, Shaped, Temps, Shape, Stored,
      Became
<1>9. Owned'
  BY <1>1, <1>2, StoreFields DEF StoreInv, Owned, Shaped, Shape, Stored, Became
<1>10. DoomedOnly' /\ NamedFilesExist' /\ ReaderSees'
  BY <1>1 DEF StoreInv, DoomedOnly, NamedFilesExist, ReaderSees
<1> QED
  BY <1>4, <1>5, <1>6, <1>7, <1>8, <1>9, <1>10 DEF StoreInv

\* The temp is opened, unless one is there (write_staged_image_temp).
LEMMA StageStep ==
    ASSUME StoreInv, Stage
    PROVE  StoreInv'
<1>1. /\ capture # Idle /\ capture.pc = "stage"
      /\ \/ /\ temp[capture.clip] = "none" /\ temp' = [temp EXCEPT ![capture.clip] = "part"]
            /\ Became("write", capture.clip, capture.new, capture.paths)
         \/ /\ capture.new
            /\ UNCHANGED temp /\ Became("undo", capture.clip, capture.new, capture.paths)
         \/ ~capture.new /\ UNCHANGED temp /\ capture' = Idle
      /\ UNCHANGED <<clips, named, file, torn, unused, command, reader, doomed, excused,
                     kept>>
      /\ lastStable' \in Hashes \cup {None}
  BY StoreFields, Pcs, NoneIdle, Moves DEF StoreInv, Stage, At, End, Works, rows, history
<1>2. capture.clip \in Clips
  BY <1>1, StoreFields, NoneIdle, StoreBounds DEF StoreInv, Shaped, Shape
<1>3. count' \in CountType
  BY TypesAre, Counted DEF StoreInv, Types, Stage
<1>4. StoreTypeOK'
  BY <1>1, <1>2, <1>3, TypesAre, StoreFields DEF StoreInv, Types, Became
<1>5. Shaped'
  BY <1>1, <1>2, StoreFields, NoneIdle, StoreBounds
  DEF StoreInv, Shaped, RowsFit, Shape, Stored, Became
<1>6. TempFits'
  BY <1>1, <1>2, StoreFields DEF StoreInv, TempFits, Shaped, Temps, Shape, Stored, Became
<1>7. InPlace'
  BY <1>1, <1>2, StoreFields
  DEF StoreInv, InPlace, DoomedOnly, NamedFilesExist, TempFits, Shaped, Temps, Shape, Stored,
      Became
<1>8. NamedFilesExist'
  BY <1>1, <1>2, StoreFields
  DEF StoreInv, NamedFilesExist, InPlace, DoomedOnly, TempFits, Shaped, Temps, Shape, Stored,
      Became
<1>9. Owned'
  BY <1>1, <1>2, StoreFields DEF StoreInv, Owned, Shaped, Shape, Stored, Became
<1>10. RowsFit' /\ DoomedOnly' /\ ReaderSees'
  BY <1>1 DEF StoreInv, RowsFit, DoomedOnly, ReaderSees, Stored
<1> QED
  BY <1>4, <1>5, <1>6, <1>7, <1>8, <1>9, <1>10 DEF StoreInv

\* The temp is written, or dropped while the original it was for is still in place.
LEMMA WriteStep ==
    ASSUME StoreInv, Write
    PROVE  StoreInv'
<1>1. /\ capture # Idle /\ capture.pc = "write"
      /\ \/ /\ temp' = [temp EXCEPT ![capture.clip] = "full"] /\ kept' = kept
            /\ \/ capture.new /\ Became("replace", capture.clip, capture.new, capture.paths)
               \/ ~capture.new /\ Became("update", capture.clip, capture.new, capture.paths)
         \/ /\ Dropped
            /\ \/ capture.new /\ Became("undo", capture.clip, capture.new, capture.paths)
               \/ ~capture.new /\ capture' = Idle
      /\ UNCHANGED <<clips, named, file, torn, unused, command, reader, doomed, excused>>
      /\ lastStable' \in Hashes \cup {None}
  BY StoreFields, Pcs, NoneIdle, Moves, DroppedAndTook DEF StoreInv, Write, At, End, rows
<1>2. capture.clip \in Clips
  BY <1>1, StoreFields, NoneIdle, StoreBounds DEF StoreInv, Shaped, Shape
<1>3. count' \in CountType
  BY TypesAre, Counted, DroppedAndTook DEF StoreInv, Types, Write
<1>4. StoreTypeOK'
  BY <1>1, <1>2, <1>3, TypesAre, StoreFields DEF StoreInv, Types, Became, Dropped
<1>5. Shaped'
  BY <1>1, <1>2, StoreFields, NoneIdle, StoreBounds
  DEF StoreInv, Shaped, RowsFit, Shape, Stored, Became
<1>6. TempFits'
  BY <1>1, <1>2, StoreFields DEF StoreInv, TempFits, Dropped, Shaped, Temps, Shape, Stored, Became
<1>7. InPlace'
  BY <1>1, <1>2, StoreFields
  DEF StoreInv, Dropped, InPlace, DoomedOnly, NamedFilesExist, TempFits, Shaped, Temps, Shape,
      Stored, Became
<1>8. NamedFilesExist'
  BY <1>1, <1>2, StoreFields
  DEF StoreInv, Dropped, NamedFilesExist, InPlace, DoomedOnly, TempFits, Shaped, Temps, Shape,
      Stored, Became
<1>9. Owned'
  BY <1>1, <1>2, StoreFields DEF StoreInv, Owned, Shaped, Shape, Stored, Became
<1>10. RowsFit' /\ DoomedOnly' /\ ReaderSees'
  BY <1>1 DEF StoreInv, RowsFit, DoomedOnly, ReaderSees, Stored
<1> QED
  BY <1>4, <1>5, <1>6, <1>7, <1>8, <1>9, <1>10 DEF StoreInv

\* The row is brought up to date in a transaction, or the temp dropped
\* (apply_existing_image_recapture).
LEMMA UpdateStep ==
    ASSUME StoreInv, Update
    PROVE  StoreInv'
<1>1. /\ capture # Idle /\ capture.pc = "update"
      /\ \/ /\ Stored(capture.clip)
            /\ UNCHANGED <<temp, kept>>
            /\ Became("replace", capture.clip, capture.new, capture.paths)
         \/ Dropped /\ capture' = Idle
      /\ UNCHANGED <<clips, named, file, torn, unused, command, reader, doomed, excused>>
      /\ lastStable' \in Hashes \cup {None}
  <2>1. Stored(capture.clip) \in BOOLEAN
    BY DEF Stored
  <2> QED
    BY <2>1, StoreFields, Pcs, NoneIdle, Moves, DroppedAndTook
    DEF StoreInv, Update, At, Writable, End, rows
<1>2. capture.clip \in Clips
  BY <1>1, StoreFields, NoneIdle, StoreBounds DEF StoreInv, Shaped, Shape
<1>3. count' \in CountType
  <2>1. Stored(capture.clip) \in BOOLEAN
    BY DEF Stored
  <2> QED
    BY <2>1, TypesAre, Counted, DroppedAndTook DEF StoreInv, Types, Update
<1>4. StoreTypeOK'
  BY <1>1, <1>2, <1>3, TypesAre, StoreFields DEF StoreInv, Types, Stored, Became, Dropped
<1>5. Shaped'
  BY <1>1, <1>2, StoreFields, NoneIdle, StoreBounds
  DEF StoreInv, Shaped, RowsFit, Stored, Shape, Became
<1>6. TempFits'
  BY <1>1, <1>2, StoreFields DEF StoreInv, TempFits, Dropped, Shaped, Stored, Temps, Shape, Became
<1>7. InPlace'
  BY <1>1, <1>2, StoreFields
  DEF StoreInv, Dropped, InPlace, DoomedOnly, NamedFilesExist, TempFits, Shaped, Stored, Temps,
      Shape, Became
<1>8. NamedFilesExist'
  BY <1>1, <1>2, StoreFields
  DEF StoreInv, Dropped, NamedFilesExist, InPlace, DoomedOnly, TempFits, Shaped, Stored, Temps,
      Shape, Became
<1>9. Owned'
  BY <1>1, <1>2, StoreFields DEF StoreInv, Owned, Shaped, Stored, Shape, Became
<1>10. RowsFit' /\ DoomedOnly' /\ ReaderSees'
  BY <1>1 DEF StoreInv, RowsFit, DoomedOnly, ReaderSees, Stored
<1> QED
  BY <1>4, <1>5, <1>6, <1>7, <1>8, <1>9, <1>10 DEF StoreInv

\* The temp takes the place of the file; on FAT a failure may take the file and leave
\* only the temp, which is whole (StagedImageFile::commit).
LEMMA ReplaceStep ==
    ASSUME StoreInv, Replace
    PROVE  StoreInv'
<1>1. /\ capture # Idle /\ capture.pc = "replace"
      /\ \/ /\ Renamed
            /\ UNCHANGED reader /\ capture.new
            /\ Became("index", capture.clip, capture.new, capture.paths)
         \/ /\ Renamed
            /\ UNCHANGED reader /\ ~capture.new
            /\ Became("commit", capture.clip, capture.new, capture.paths)
         \/ /\ UNCHANGED <<file, torn, reader, temp, doomed>>
            /\ Became("recover", capture.clip, capture.new, capture.paths)
         \/ /\ Unlink({capture.clip}) /\ Overtake({capture.clip})
            /\ UNCHANGED <<temp, doomed>>
            /\ Became("recover", capture.clip, capture.new, capture.paths)
      /\ UNCHANGED <<clips, named, unused, command, excused, kept>>
      /\ lastStable' \in Hashes \cup {None}
  BY StoreFields, Pcs, NoneIdle, Moves
  DEF StoreInv, Replace, At, AfterReplace, Works, Fails, rows
<1>2. capture.clip \in Clips
  BY <1>1, StoreFields, NoneIdle, StoreBounds DEF StoreInv, Shaped, Shape
<1>3. count' \in CountType
  BY TypesAre, Counted DEF StoreInv, Types, Replace
<1>4. StoreTypeOK'
  BY <1>1, <1>2, <1>3, TypesAre, StoreFields, Overtakes
  DEF StoreInv, Types, Renamed, Unlink, Became
<1>5. Shaped'
  BY <1>1, <1>2, StoreFields, NoneIdle, StoreBounds
  DEF StoreInv, Shaped, RowsFit, Renamed, Unlink, Shape, Stored, Became
<1>6. TempFits'
  BY <1>1, <1>2, StoreFields
  DEF StoreInv, TempFits, Shaped, Renamed, Unlink, Temps, Shape, Stored, Became
<1>7. DoomedOnly'
  BY <1>1, <1>2, StoreFields
  DEF StoreInv, DoomedOnly, InPlace, NamedFilesExist, Shaped, Renamed, Unlink, Shape, Stored,
      Became
<1>8. InPlace'
  BY <1>1, <1>2, StoreFields
  DEF StoreInv, InPlace, DoomedOnly, NamedFilesExist, TempFits, Shaped, Renamed, Unlink, Temps,
      Shape, Stored, Became
<1>9. NamedFilesExist'
  BY <1>1, <1>2, StoreFields
  DEF StoreInv, NamedFilesExist, InPlace, DoomedOnly, TempFits, Shaped, Renamed, Unlink, Temps,
      Shape, Stored, Became
<1>10. Owned'
  BY <1>1, <1>2, StoreFields DEF StoreInv, Owned, Shaped, Renamed, Unlink, Shape, Stored, Became
<1>11. ReaderSees'
  BY <1>1, <1>2, StoreFields, Overtakes
  DEF StoreInv, ReaderSees, Shaped, TempFits, Renamed, Unlink, Shape, Temps, Stored, Became
<1>12. RowsFit'
  BY <1>1 DEF StoreInv, RowsFit, Stored
<1> QED
  BY <1>4, <1>5, <1>6, <1>7, <1>8, <1>9, <1>10, <1>11, <1>12 DEF StoreInv

\* A temp is dropped only beside its file (recover_dest_gone_replace).
LEMMA RecoverDestGoneStep ==
    ASSUME StoreInv, RecoverDestGone
    PROVE  StoreInv'
<1>1. /\ capture # Idle /\ capture.pc = "recover"
      /\ \/ /\ capture.clip \notin file
            /\ Renamed /\ UNCHANGED kept /\ capture.new
            /\ Became("index", capture.clip, capture.new, capture.paths)
         \/ /\ capture.clip \notin file
            /\ Renamed /\ UNCHANGED kept /\ ~capture.new
            /\ Became("commit", capture.clip, capture.new, capture.paths)
         \/ /\ UNCHANGED <<file, torn, doomed>>
            /\ \/ capture.clip \in file /\ Dropped
               \/ capture.clip \notin file /\ UNCHANGED <<temp, kept>>
            /\ \/ capture.new /\ Became("undo", capture.clip, capture.new, capture.paths)
               \/ ~capture.new /\ capture' = Idle
      /\ UNCHANGED <<clips, named, unused, command, reader, excused>>
      /\ lastStable' \in Hashes \cup {None}
  BY StoreFields, Pcs, NoneIdle, Moves, DroppedAndTook
  DEF StoreInv, RecoverDestGone, At, AfterReplace, End, rows
<1>2. capture.clip \in Clips
  BY <1>1, StoreFields, NoneIdle, StoreBounds DEF StoreInv, Shaped, Shape
<1>3. count' \in CountType
  BY TypesAre, Counted, DroppedAndTook DEF StoreInv, Types, RecoverDestGone
<1>4. StoreTypeOK'
  BY <1>1, <1>2, <1>3, TypesAre, StoreFields DEF StoreInv, Types, Renamed, Dropped, Became
<1>5. Shaped'
  BY <1>1, <1>2, StoreFields, NoneIdle, StoreBounds
  DEF StoreInv, Shaped, RowsFit, Renamed, Shape, Stored, Became
<1>6. TempFits'
  BY <1>1, <1>2, StoreFields
  DEF StoreInv, TempFits, Dropped, Shaped, Renamed, Temps, Shape, Stored, Became
<1>7. DoomedOnly'
  BY <1>1, <1>2, StoreFields
  DEF StoreInv, DoomedOnly, InPlace, NamedFilesExist, Shaped, Renamed, Shape, Stored, Became
<1>8. InPlace'
  BY <1>1, <1>2, StoreFields
  DEF StoreInv, Dropped, InPlace, DoomedOnly, NamedFilesExist, TempFits, Shaped, Renamed, Temps,
      Shape, Stored, Became
<1>9. NamedFilesExist'
  BY <1>1, <1>2, StoreFields
  DEF StoreInv, Dropped, NamedFilesExist, InPlace, DoomedOnly, TempFits, Shaped, Renamed, Temps,
      Shape, Stored, Became
<1>10. Owned'
  BY <1>1, <1>2, StoreFields DEF StoreInv, Owned, Shaped, Renamed, Shape, Stored, Became
<1>11. ReaderSees'
  BY <1>1, <1>2, StoreFields
  DEF StoreInv, Dropped, ReaderSees, Shaped, TempFits, Renamed, Shape, Temps, Stored, Became
<1>12. RowsFit'
  BY <1>1 DEF StoreInv, RowsFit, Stored
<1> QED
  BY <1>4, <1>5, <1>6, <1>7, <1>8, <1>9, <1>10, <1>11, <1>12 DEF StoreInv

\* The original is named once it is in place.
LEMMA CommitStep ==
    ASSUME StoreInv, Commit
    PROVE  StoreInv'
<1>1. /\ capture # Idle /\ capture.pc = "commit"
      /\ \/ /\ \E r \in Row : clips' = [clips EXCEPT ![capture.clip] = r]
            /\ named' = named \cup {capture.clip} /\ excused' = excused \ {capture.clip}
            /\ Became("formats", capture.clip, capture.new, capture.paths)
         \/ /\ UNCHANGED <<clips, named>> /\ capture' = Idle
            /\ excused' = IF capture.clip \in named THEN excused ELSE excused \cup {capture.clip}
      /\ UNCHANGED <<file, temp, torn, unused, command, reader, doomed, kept>>
      /\ lastStable' \in Hashes \cup {None}
  <2>1. capture # Idle /\ capture.pc = "commit" /\ ~capture.new
    BY StoreFields DEF StoreInv, Commit, At, Shaped, Shape
  <2>2. Stored(capture.clip) /\ capture.clip \in Clips
    BY <2>1, StoreFields, StoreBounds DEF StoreInv, Shaped, Shape
  <2> DEFINE r == [clips[capture.clip] EXCEPT !.deleted = FALSE, !.expired = FALSE]
  <2>3. r \in Row
    <3>1. clips[capture.clip] \in Row
      BY <2>2, StoreFields DEF StoreInv
    <3> QED
      BY <3>1 DEF Row
  <2>4. Commit => clips' = [clips EXCEPT ![capture.clip] = r] \/ UNCHANGED clips
    BY DEF Commit, rows
  <2> HIDE DEF r
  <2>5. CASE /\ Go("formats")
             /\ clips' = [clips EXCEPT ![capture.clip] =
                             [@ EXCEPT !.deleted = FALSE, !.expired = FALSE]]
             /\ named' = named \cup {capture.clip} /\ excused' = excused \ {capture.clip}
    <3>1. clips' = [clips EXCEPT ![capture.clip] = r]
      BY <2>5 DEF r
    <3>2. Became("formats", capture.clip, capture.new, capture.paths)
      BY <2>1, <2>5, Pcs, Moves DEF StoreInv
    <3> QED
      BY <2>1, <2>3, <2>5, <3>1, <3>2, StoreFields DEF Commit, files, StoreInv
  <2>6. CASE /\ UNCHANGED rows /\ End
             /\ excused' = IF capture.clip \in named THEN excused ELSE excused \cup {capture.clip}
    BY <2>1, <2>6, StoreFields DEF Commit, files, rows, End, StoreInv
  <2> QED
    BY <2>5, <2>6 DEF Commit
<1>2. capture.clip \in Clips
  BY <1>1, StoreFields, NoneIdle, StoreBounds DEF StoreInv, Shaped, Shape
<1>3. count' \in CountType
  BY TypesAre, Counted DEF StoreInv, Types, Commit
<1>4. StoreTypeOK'
  BY <1>1, <1>2, <1>3, TypesAre, StoreFields DEF StoreInv, Types, Became
<1>5. Shaped'
  BY <1>1, <1>2, StoreFields, NoneIdle, StoreBounds
  DEF StoreInv, Shaped, RowsFit, Shape, Stored, Became
<1>6. RowsFit'
  BY <1>1, <1>2, StoreFields, NoneIdle, StoreBounds
  DEF StoreInv, RowsFit, Shaped, Stored, Shape, Became
<1>7. TempFits'
  BY <1>1, <1>2, StoreFields DEF StoreInv, TempFits, Shaped, Temps, Shape, Stored, Became
<1>8. DoomedOnly'
  BY <1>1, <1>2, StoreFields
  DEF StoreInv, DoomedOnly, InPlace, NamedFilesExist, Shaped, Shape, Stored, Became
<1>9. InPlace'
  BY <1>1, <1>2, StoreFields
  DEF StoreInv, InPlace, DoomedOnly, NamedFilesExist, TempFits, Shaped, Temps, Shape, Stored,
      Became
<1>10. NamedFilesExist'
  BY <1>1, <1>2, StoreFields
  DEF StoreInv, NamedFilesExist, InPlace, DoomedOnly, TempFits, Shaped, Temps, Shape, Stored,
      Became
<1>11. Owned'
  BY <1>1, <1>2, StoreFields DEF StoreInv, Owned, Shaped, Shape, Stored, Became
<1>12. ReaderSees'
  BY <1>1, <1>2, StoreFields
  DEF StoreInv, ReaderSees, Shaped, TempFits, Shape, Temps, Stored, Became
<1> QED
  BY <1>4, <1>5, <1>6, <1>7, <1>8, <1>9, <1>10, <1>11, <1>12 DEF StoreInv

\* A new original is named, or its row and its file go.
LEMMA IndexStep ==
    ASSUME StoreInv, Index
    PROVE  StoreInv'
<1>1. /\ capture # Idle /\ capture.pc = "index"
      /\ \/ /\ Stored(capture.clip)
            /\ named' = named \cup {capture.clip}
            /\ Became("formats", capture.clip, capture.new, capture.paths)
         \/ UNCHANGED named /\ Became("undoFile", capture.clip, capture.new, capture.paths)
      /\ UNCHANGED <<clips, file, temp, torn, unused, command, reader, doomed, excused,
                     kept>>
      /\ lastStable' \in Hashes \cup {None}
  BY StoreFields, Pcs, NoneIdle, Moves
  DEF StoreInv, Index, At, Writable, Works, Fails, files, history
<1>2. capture.clip \in Clips
  BY <1>1, StoreFields, NoneIdle, StoreBounds DEF StoreInv, Shaped, Shape
<1>3. count' \in CountType
  BY TypesAre, Counted DEF StoreInv, Types, Index
<1>4. StoreTypeOK'
  BY <1>1, <1>2, <1>3, TypesAre, StoreFields DEF StoreInv, Types, Stored, Became
<1>5. Shaped'
  BY <1>1, <1>2, StoreFields, NoneIdle, StoreBounds
  DEF StoreInv, Shaped, RowsFit, Stored, Shape, Became
<1>6. RowsFit'
  BY <1>1, <1>2, StoreFields, NoneIdle, StoreBounds
  DEF StoreInv, RowsFit, Shaped, Stored, Shape, Became
<1>7. TempFits'
  BY <1>1, <1>2, StoreFields DEF StoreInv, TempFits, Shaped, Stored, Temps, Shape, Became
<1>8. DoomedOnly'
  BY <1>1, <1>2, StoreFields
  DEF StoreInv, DoomedOnly, InPlace, NamedFilesExist, Shaped, Stored, Shape, Became
<1>9. InPlace'
  BY <1>1, <1>2, StoreFields
  DEF StoreInv, InPlace, DoomedOnly, NamedFilesExist, TempFits, Shaped, Stored, Temps, Shape,
      Became
<1>10. NamedFilesExist'
  BY <1>1, <1>2, StoreFields
  DEF StoreInv, NamedFilesExist, InPlace, DoomedOnly, TempFits, Shaped, Stored, Temps, Shape,
      Became
<1>11. Owned'
  BY <1>1, <1>2, StoreFields DEF StoreInv, Owned, Shaped, Stored, Shape, Became
<1>12. ReaderSees'
  BY <1>1, <1>2, StoreFields
  DEF StoreInv, ReaderSees, Shaped, TempFits, Stored, Shape, Temps, Became
<1> QED
  BY <1>4, <1>5, <1>6, <1>7, <1>8, <1>9, <1>10, <1>11, <1>12 DEF StoreInv

\* The row of a new clip goes; its file, if it has one, is to be unlinked.
LEMMA UndoStep ==
    ASSUME StoreInv, Undo
    PROVE  StoreInv'
<1>1. /\ capture # Idle /\ capture.pc \in {"undo", "undoFile"}
      /\ \/ DeleteRows({capture.clip}) /\ Overtake({capture.clip})
         \/ UNCHANGED <<clips, named, reader>>
      /\ \/ capture.pc = "undo" /\ capture' = Idle
         \/ capture.pc = "undoFile" /\ Became("unlink", capture.clip, capture.new, {capture.clip})
      /\ UNCHANGED <<file, temp, torn, unused, command, doomed, excused, kept>>
      /\ lastStable' \in Hashes \cup {None}
  <2>1. capture # Idle /\ capture.pc \in {"undo", "undoFile"}
    BY StoreFields DEF StoreInv, Undo, At
  <2>2. capture.clip \in Clips
    BY <2>1, StoreFields, StoreBounds DEF StoreInv, Shaped, Shape
  <2>3. \/ capture.pc = "undo" /\ capture' = Idle
        \/ /\ capture.pc = "undoFile"
           /\ capture' = [capture EXCEPT !.pc = "unlink", !.paths = {capture.clip}]
    BY DEF Undo, At, End
  <2>4. {capture.clip} \in SUBSET Clips
    BY <2>2
  <2>5. \/ capture.pc = "undo" /\ capture' = Idle
        \/ capture.pc = "undoFile" /\ Became("unlink", capture.clip, capture.new, {capture.clip})
    BY <2>1, <2>3, <2>4, Pcs, Moves DEF StoreInv
  <2> QED
    BY <2>1, <2>5, StoreFields DEF Undo, rows, files, history, StoreInv
<1>2. capture.clip \in Clips
  BY <1>1, StoreFields, NoneIdle, StoreBounds DEF StoreInv, Shaped, Shape
<1>3. count' \in CountType
  BY TypesAre, Counted DEF StoreInv, Types, Undo
<1>4. StoreTypeOK'
  BY <1>1, <1>2, <1>3, TypesAre, StoreFields, Overtakes DEF StoreInv, Types, DeleteRows, Became
<1>5. Shaped'
  BY <1>1, <1>2, StoreFields, NoneIdle, StoreBounds
  DEF StoreInv, Shaped, RowsFit, DeleteRows, Shape, Stored, Became
<1>6. RowsFit'
  BY <1>1, <1>2, StoreFields, NoneIdle, StoreBounds
  DEF StoreInv, RowsFit, Shaped, DeleteRows, Stored, Shape, Became
<1>7. TempFits'
  BY <1>1, <1>2, StoreFields
  DEF StoreInv, TempFits, Shaped, DeleteRows, Temps, Shape, Stored, Became
<1>8. DoomedOnly'
  BY <1>1, <1>2, StoreFields
  DEF StoreInv, DoomedOnly, InPlace, NamedFilesExist, Shaped, DeleteRows, Shape, Stored, Became
<1>9. InPlace'
  BY <1>1, <1>2, StoreFields
  DEF StoreInv, InPlace, DoomedOnly, NamedFilesExist, TempFits, Shaped, DeleteRows, Temps,
      Shape, Stored, Became
<1>10. NamedFilesExist'
  BY <1>1, <1>2, StoreFields
  DEF StoreInv, NamedFilesExist, InPlace, DoomedOnly, TempFits, Shaped, DeleteRows, Temps,
      Shape, Stored, Became
<1>11. Owned'
  BY <1>1, <1>2, StoreFields DEF StoreInv, Owned, Shaped, DeleteRows, Shape, Stored, Became
<1>12. ReaderSees'
  <2>1. CASE DeleteRows({capture.clip}) /\ Overtake({capture.clip})
    BY <1>1, <1>2, <2>1, StoreFields, Overtakes DEF StoreInv, ReaderSees, DeleteRows
  <2>2. CASE UNCHANGED <<clips, named, reader>>
    BY <1>1, <2>2 DEF StoreInv, ReaderSees
  <2> QED
    BY <1>1, <2>1, <2>2
<1> QED
  BY <1>4, <1>5, <1>6, <1>7, <1>8, <1>9, <1>10, <1>11, <1>12 DEF StoreInv

\* The formats are replaced; a new clip whose formats fail is rolled back
\* (replace_clip_formats).
LEMMA FormatsStep ==
    ASSUME StoreInv, Formats
    PROVE  StoreInv'
<1>1. /\ capture # Idle /\ capture.pc = "formats"
      /\ \/ Became("stable", capture.clip, capture.new, capture.paths)
         \/ capture.new /\ Became("path", capture.clip, capture.new, capture.paths)
         \/ ~capture.new /\ capture' = Idle
      /\ UNCHANGED <<clips, named, file, temp, torn, unused, command, reader, doomed, excused,
                     kept>>
      /\ lastStable' \in Hashes \cup {None}
  BY StoreFields, Pcs, NoneIdle, Moves
  DEF StoreInv, Formats, At, Works, End, Fails, rows, files, history
<1>2. capture.clip \in Clips
  BY <1>1, StoreFields, NoneIdle, StoreBounds DEF StoreInv, Shaped, Shape
<1>3. count' \in CountType
  BY TypesAre, Counted DEF StoreInv, Types, Formats
<1>4. StoreTypeOK'
  BY <1>1, <1>2, <1>3, TypesAre, StoreFields DEF StoreInv, Types, Became
<1>5. Shaped'
  BY <1>1, <1>2, StoreFields, NoneIdle, StoreBounds
  DEF StoreInv, Shaped, RowsFit, Shape, Stored, Became
<1>6. TempFits'
  BY <1>1, <1>2, StoreFields DEF StoreInv, TempFits, Shaped, Temps, Shape, Stored, Became
<1>7. InPlace'
  BY <1>1, <1>2, StoreFields
  DEF StoreInv, InPlace, DoomedOnly, NamedFilesExist, TempFits, Shaped, Temps, Shape, Stored,
      Became
<1>8. Owned'
  BY <1>1, <1>2, StoreFields DEF StoreInv, Owned, Shaped, Shape, Stored, Became
<1>9. RowsFit' /\ DoomedOnly' /\ NamedFilesExist' /\ ReaderSees'
  BY <1>1 DEF StoreInv, RowsFit, DoomedOnly, NamedFilesExist, ReaderSees, Stored
<1> QED
  BY <1>4, <1>5, <1>6, <1>7, <1>8, <1>9 DEF StoreInv

\* A roll-back looks up the path of the file before it deletes the row.
LEMMA RollBackPathStep ==
    ASSUME StoreInv, RollBackPath
    PROVE  StoreInv'
<1>1. /\ capture # Idle /\ capture.pc = "path"
      /\ \/ Became("drop", capture.clip, capture.new, {capture.clip} \cap named)
         \/ Became("drop", capture.clip, capture.new, {capture.clip})
      /\ UNCHANGED <<clips, named, file, temp, torn, unused, command, reader, doomed, excused,
                     kept>>
      /\ lastStable' \in Hashes \cup {None}
  <2>1. capture # Idle /\ capture.pc = "path"
    BY StoreFields DEF StoreInv, RollBackPath, At
  <2>2. {capture.clip} \in SUBSET Clips /\ {capture.clip} \cap named \in SUBSET Clips
    BY <2>1, StoreFields, StoreBounds DEF StoreInv, Shaped, Shape
  <2> QED
    BY <2>1, <2>2, StoreFields, Pcs, Moves
    DEF StoreInv, RollBackPath, rows, files, history
<1>2. capture.clip \in Clips
  BY <1>1, StoreFields, NoneIdle, StoreBounds DEF StoreInv, Shaped, Shape
<1>3. count' \in CountType
  BY TypesAre, Counted DEF StoreInv, Types, RollBackPath
<1>4. StoreTypeOK'
  BY <1>1, <1>2, <1>3, TypesAre, StoreFields DEF StoreInv, Types, Became
<1>5. Shaped'
  BY <1>1, <1>2, StoreFields, NoneIdle, StoreBounds
  DEF StoreInv, Shaped, RowsFit, Shape, Stored, Became
<1>6. TempFits'
  BY <1>1, <1>2, StoreFields DEF StoreInv, TempFits, Shaped, Temps, Shape, Stored, Became
<1>7. InPlace'
  BY <1>1, <1>2, StoreFields
  DEF StoreInv, InPlace, DoomedOnly, NamedFilesExist, TempFits, Shaped, Temps, Shape, Stored,
      Became
<1>8. Owned'
  BY <1>1, <1>2, StoreFields DEF StoreInv, Owned, Shaped, Shape, Stored, Became
<1>9. RowsFit' /\ DoomedOnly' /\ NamedFilesExist' /\ ReaderSees'
  BY <1>1 DEF StoreInv, RowsFit, DoomedOnly, NamedFilesExist, ReaderSees, Stored
<1> QED
  BY <1>4, <1>5, <1>6, <1>7, <1>8, <1>9 DEF StoreInv

\* The row goes, and the file it named is to be unlinked.
LEMMA RollBackRowStep ==
    ASSUME StoreInv, RollBackRow
    PROVE  StoreInv'
<1>1. /\ capture # Idle /\ capture.pc = "drop"
      /\ \/ /\ DeleteRows({capture.clip}) /\ Overtake({capture.clip})
            /\ Became("unlink", capture.clip, capture.new, capture.paths)
         \/ UNCHANGED <<clips, named, reader>> /\ capture' = Idle
      /\ UNCHANGED <<file, temp, torn, unused, command, doomed, excused, kept>>
      /\ lastStable' \in Hashes \cup {None}
  BY StoreFields, Pcs, NoneIdle, Moves 
  DEF StoreInv, RollBackRow, At, End, Writable, rows, files, history
<1>2. capture.clip \in Clips
  BY <1>1, StoreFields, NoneIdle, StoreBounds DEF StoreInv, Shaped, Shape
<1>3. count' \in CountType
  BY TypesAre, Counted DEF StoreInv, Types, RollBackRow
<1>4. StoreTypeOK'
  BY <1>1, <1>2, <1>3, TypesAre, StoreFields, Overtakes DEF StoreInv, Types, DeleteRows, Became
<1>5. Shaped'
  BY <1>1, <1>2, StoreFields, NoneIdle, StoreBounds
  DEF StoreInv, Shaped, RowsFit, DeleteRows, Shape, Stored, Became
<1>6. RowsFit'
  BY <1>1, <1>2, StoreFields, NoneIdle, StoreBounds
  DEF StoreInv, RowsFit, Shaped, DeleteRows, Stored, Shape, Became
<1>7. TempFits'
  BY <1>1, <1>2, StoreFields
  DEF StoreInv, TempFits, Shaped, DeleteRows, Temps, Shape, Stored, Became
<1>8. DoomedOnly'
  BY <1>1, <1>2, StoreFields
  DEF StoreInv, DoomedOnly, InPlace, NamedFilesExist, Shaped, DeleteRows, Shape, Stored, Became
<1>9. InPlace'
  BY <1>1, <1>2, StoreFields
  DEF StoreInv, InPlace, DoomedOnly, NamedFilesExist, TempFits, Shaped, DeleteRows, Temps,
      Shape, Stored, Became
<1>10. NamedFilesExist'
  BY <1>1, <1>2, StoreFields
  DEF StoreInv, NamedFilesExist, InPlace, DoomedOnly, TempFits, Shaped, DeleteRows, Temps,
      Shape, Stored, Became
<1>11. Owned'
  BY <1>1, <1>2, StoreFields DEF StoreInv, Owned, Shaped, DeleteRows, Shape, Stored, Became
<1>12. ReaderSees'
  <2>1. CASE DeleteRows({capture.clip}) /\ Overtake({capture.clip})
    BY <1>1, <1>2, <2>1, StoreFields, Overtakes DEF StoreInv, ReaderSees, DeleteRows
  <2>2. CASE UNCHANGED <<clips, named, reader>>
    BY <1>1, <2>2 DEF StoreInv, ReaderSees
  <2> QED
    BY <1>1, <2>1, <2>2
<1> QED
  BY <1>4, <1>5, <1>6, <1>7, <1>8, <1>9, <1>10, <1>11, <1>12 DEF StoreInv

\* The copy is noted as the last one.
LEMMA SetStableStep ==
    ASSUME StoreInv, SetStable
    PROVE  StoreInv'
<1>1. /\ capture # Idle /\ capture.pc = "stable"
      /\ Became("retention", capture.clip, capture.new, capture.paths)
      /\ UNCHANGED <<clips, named, file, temp, torn, unused, command, reader, doomed, excused,
                     kept>>
      /\ lastStable' \in Hashes \cup {None}
  BY StoreFields, Pcs, NoneIdle, Moves DEF StoreInv, SetStable, At, rows, files, history
<1>2. capture.clip \in Clips
  BY <1>1, StoreFields, NoneIdle, StoreBounds DEF StoreInv, Shaped, Shape
<1>3. count' \in CountType
  BY TypesAre, Counted DEF StoreInv, Types, SetStable
<1>4. StoreTypeOK'
  BY <1>1, <1>2, <1>3, TypesAre, StoreFields DEF StoreInv, Types, Became
<1>5. Shaped'
  BY <1>1, <1>2, StoreFields, NoneIdle, StoreBounds
  DEF StoreInv, Shaped, RowsFit, Shape, Stored, Became
<1>6. TempFits'
  BY <1>1, <1>2, StoreFields DEF StoreInv, TempFits, Shaped, Temps, Shape, Stored, Became
<1>7. InPlace'
  BY <1>1, <1>2, StoreFields
  DEF StoreInv, InPlace, DoomedOnly, NamedFilesExist, TempFits, Shaped, Temps, Shape, Stored,
      Became
<1>8. Owned'
  BY <1>1, <1>2, StoreFields DEF StoreInv, Owned, Shaped, Shape, Stored, Became
<1>9. RowsFit' /\ DoomedOnly' /\ NamedFilesExist' /\ ReaderSees'
  BY <1>1 DEF StoreInv, RowsFit, DoomedOnly, NamedFilesExist, ReaderSees, Stored
<1> QED
  BY <1>4, <1>5, <1>6, <1>7, <1>8, <1>9 DEF StoreInv

\* The files of the rows a capture has deleted go one by one; no row names them.
LEMMA CaptureUnlinkStep ==
    ASSUME StoreInv, CaptureUnlink
    PROVE  StoreInv'
<1>1. /\ capture # Idle /\ capture.pc = "unlink"
      /\ \/ \E u \in capture.paths :
               /\ Took(u)
               /\ Became("unlink", capture.clip, capture.new, capture.paths \ {u})
         \/ capture.paths = {} /\ capture' = Idle /\ UNCHANGED <<file, torn, excused>>
      /\ UNCHANGED <<clips, named, temp, unused, command, reader, doomed, kept>>
      /\ lastStable' \in Hashes \cup {None}
  <2>1. capture # Idle /\ capture.pc = "unlink"
    BY StoreFields DEF StoreInv, CaptureUnlink, At
  <2>2. ASSUME NEW u \in capture.paths, capture' = [capture EXCEPT !.paths = @ \ {u}]
        PROVE  Became("unlink", capture.clip, capture.new, capture.paths \ {u})
    <3>1. /\ capture.paths \ {u} \in SUBSET Clips
          /\ capture' = [capture EXCEPT !.paths = capture.paths \ {u}]
      BY <2>1, <2>2, StoreFields DEF StoreInv
    <3> QED
      BY <2>1, <3>1, Moves DEF StoreInv
  <2>3. /\ lastStable' \in Hashes \cup {None}
        /\ UNCHANGED <<clips, named, temp, unused, command, reader, doomed, kept>>
    BY StoreFields DEF CaptureUnlink, rows, StoreInv
  <2>4. CASE \E u \in capture.paths : Remove(u) /\ capture' = [capture EXCEPT !.paths = @ \ {u}]
    <3>1. PICK u \in capture.paths : Remove(u) /\ capture' = [capture EXCEPT !.paths = @ \ {u}]
      BY <2>4
    <3>2. Took(u)
      BY <2>1, <3>1, StoreFields, DroppedAndTook DEF StoreInv
    <3> HIDE DEF StoreInv
    <3> QED
      BY <2>1, <2>2, <2>3, <3>1, <3>2
  <2>5. CASE capture.paths = {} /\ End /\ UNCHANGED <<file, torn, excused>>
    BY <2>1, <2>3, <2>5 DEF End
  <2> QED
    BY <2>4, <2>5 DEF CaptureUnlink
<1>2. capture.clip \in Clips
  BY <1>1, StoreFields, NoneIdle, StoreBounds DEF StoreInv, Shaped, Shape
<1>3. count' \in CountType
  <2>1. capture.pc = "unlink" /\ capture.paths \subseteq Clips
    BY <1>1, StoreFields DEF StoreInv
  <2>2. (\E u \in capture.paths : Remove(u)) \/ Works
    BY DEF CaptureUnlink
  <2> QED
    BY <2>1, <2>2, TypesAre, Counted, DroppedAndTook DEF StoreInv, Types
<1>4. StoreTypeOK'
  BY <1>1, <1>2, <1>3, TypesAre, StoreFields DEF StoreInv, Types, Took, Unlink, Became
<1>5. Shaped'
  BY <1>1, <1>2, StoreFields, NoneIdle, StoreBounds
  DEF StoreInv, Shaped, RowsFit, Took, Unlink, Shape, Stored, Became
<1>6. TempFits'
  BY <1>1, <1>2, StoreFields
  DEF StoreInv, TempFits, Shaped, Took, Unlink, Temps, Shape, Stored, Became
<1>7. DoomedOnly'
  BY <1>1, <1>2, StoreFields
  DEF StoreInv, DoomedOnly, InPlace, NamedFilesExist, Shaped, Took, Unlink, Shape, Stored, Became
<1>8. InPlace'
  BY <1>1, <1>2, StoreFields
  DEF StoreInv, InPlace, DoomedOnly, NamedFilesExist, TempFits, Shaped, Took, Unlink, Temps, Shape,
      Stored, Became
<1>9. NamedFilesExist'
  BY <1>1, <1>2, StoreFields
  DEF StoreInv, NamedFilesExist, InPlace, DoomedOnly, TempFits, Shaped, Took, Unlink, Temps, Shape,
      Stored, Became
<1>10. Owned'
  BY <1>1, <1>2, StoreFields DEF StoreInv, Owned, Shaped, Took, Unlink, Shape, Stored, Became
<1>11. ReaderSees'
  BY <1>1, <1>2, StoreFields
  DEF StoreInv, ReaderSees, Shaped, TempFits, Took, Unlink, Shape, Temps, Stored, Became
<1>12. RowsFit'
  BY <1>1 DEF StoreInv, RowsFit, Stored
<1> QED
  BY <1>4, <1>5, <1>6, <1>7, <1>8, <1>9, <1>10, <1>11, <1>12 DEF StoreInv

----------------------------------------------------------------------------
(* The commands, retention, the reader and a restart. *)

\* A copy begins.
LEMMA CopyStep ==
    ASSUME StoreInv, NEW i \in Hashes, Copy(i)
    PROVE  StoreInv'
<1>1. /\ capture = Idle /\ capture' # Idle /\ capture' \in CaptureType /\ capture'.pc = "lookup"
      /\ capture'.clip = None /\ capture'.new = FALSE /\ capture'.paths = {}
      /\ UNCHANGED <<clips, named, file, temp, torn, unused, command, reader, doomed, excused,
                     kept>>
      /\ lastStable' \in Hashes \cup {None}
  BY StoreFields, Pcs, NoneIdle
  DEF StoreInv, Copy, Skipped, rows, files, history, Stored, CaptureType
<1>2. count' \in CountType
  BY TypesAre, Counted DEF StoreInv, Types, Copy
<1>3. StoreTypeOK'
  BY <1>1, <1>2, TypesAre, StoreFields DEF StoreInv, Types, Became
<1>4. Shaped'
  BY <1>1, StoreFields, NoneIdle, StoreBounds DEF StoreInv, Shaped, RowsFit, Shape, Stored
<1>5. TempFits'
  BY <1>1, StoreFields DEF StoreInv, TempFits, Shaped, Temps, Shape, Stored
<1>6. InPlace'
  BY <1>1, StoreFields
  DEF StoreInv, InPlace, DoomedOnly, NamedFilesExist, TempFits, Shaped, Temps, Shape, Stored
<1>7. Owned'
  BY <1>1, StoreFields DEF StoreInv, Owned, Shaped, Shape, Stored
<1>8. RowsFit' /\ DoomedOnly' /\ NamedFilesExist' /\ ReaderSees'
  BY <1>1 DEF StoreInv, RowsFit, DoomedOnly, NamedFilesExist, ReaderSees, Stored
<1> QED
  BY <1>3, <1>4, <1>5, <1>6, <1>7, <1>8 DEF StoreInv

\* Retention after a capture: rows go, their files are to be unlinked
\* (enforce_retention_in_pool).
LEMMA CaptureRetentionStep ==
    ASSUME StoreInv, NEW S \in SUBSET Clips, CaptureRetention(S)
    PROVE  StoreInv'
<1>1. /\ capture # Idle /\ capture.pc = "retention"
      /\ Retention(S) /\ Became("unlink", capture.clip, capture.new, Left(S))
      /\ UNCHANGED <<file, temp, torn, unused, command, doomed, excused, kept>>
      /\ lastStable' \in Hashes \cup {None}
  <2>1. capture # Idle /\ capture.pc = "retention"
    BY StoreFields DEF StoreInv, CaptureRetention, At
  <2>2. Left(S) \in SUBSET Clips
    BY StoreFields DEF StoreInv, Left
  <2>3. capture' = [capture EXCEPT !.pc = "unlink", !.paths = Left(S)]
    BY DEF CaptureRetention
  <2>4. Became("unlink", capture.clip, capture.new, Left(S))
    BY <2>1, <2>2, <2>3, Pcs, Moves DEF StoreInv
  <2> QED
    BY <2>1, <2>4, StoreFields DEF CaptureRetention, files, history, StoreInv
<1>2. capture.clip \in Clips
  BY <1>1, StoreFields, NoneIdle, StoreBounds DEF StoreInv, Shaped, Shape
<1>3. count' \in CountType
  BY TypesAre, Counted DEF StoreInv, Types, CaptureRetention
<1>4. StoreTypeOK'
  BY <1>1, <1>2, <1>3, TypesAre, StoreFields, Overtakes, Retained
  DEF StoreInv, Types, Left, Retainable, Writable, Preserved, Shown, Stored, Became
<1>5. Shaped'
  BY <1>1, <1>2, StoreFields, NoneIdle, StoreBounds
  DEF StoreInv, Shaped, RowsFit, Retention, Left, Shape, Stored, Retainable, Writable, Removed,
      Preserved, Shown, Became
<1>6. RowsFit'
  BY <1>1, <1>2, StoreFields, NoneIdle, StoreBounds
  DEF StoreInv, RowsFit, Shaped, Retention, Left, Stored, Shape, Retainable, Writable, Removed,
      Preserved, Shown, Became
<1>7. TempFits'
  BY <1>1, <1>2, StoreFields
  DEF StoreInv, TempFits, Shaped, Retention, Left, Temps, Shape, Retainable, Writable, Removed,
      Preserved, Stored, Shown, Became
<1>8. DoomedOnly'
  BY <1>1, <1>2, StoreFields
  DEF StoreInv, DoomedOnly, InPlace, NamedFilesExist, Shaped, Retention, Left, Shape,
      Retainable, Writable, Removed, Preserved, Stored, Shown, Became
<1>9. InPlace'
  BY <1>1, <1>2, StoreFields
  DEF StoreInv, InPlace, DoomedOnly, NamedFilesExist, TempFits, Shaped, Retention, Left, Temps,
      Shape, Retainable, Writable, Removed, Preserved, Stored, Shown, Became
<1>10. NamedFilesExist'
  BY <1>1, <1>2, StoreFields
  DEF StoreInv, NamedFilesExist, InPlace, DoomedOnly, TempFits, Shaped, Retention, Left, Temps,
      Shape, Retainable, Writable, Removed, Preserved, Stored, Shown, Became
<1>11. Owned'
  BY <1>1, <1>2, StoreFields
  DEF StoreInv, Owned, Shaped, Retention, Left, Shape, Retainable, Writable, Removed, Preserved,
      Stored, Shown, Became
<1>12. ReaderSees'
  BY <1>1, <1>2, StoreFields, Overtakes
  DEF StoreInv, ReaderSees, Shaped, TempFits, Retention, Left, Shape, Temps, Retainable,
      Writable, Removed, Preserved, Stored, Shown, Became
<1> QED
  BY <1>4, <1>5, <1>6, <1>7, <1>8, <1>9, <1>10, <1>11, <1>12 DEF StoreInv

\* Retention fails, and the capture ends.
LEMMA RetentionFailsStep ==
    ASSUME StoreInv, RetentionFails
    PROVE  StoreInv'
<1>1. /\ capture # Idle /\ capture.pc = "retention" /\ capture' = Idle
      /\ UNCHANGED <<clips, named, file, temp, torn, unused, command, reader, doomed, excused,
                     kept>>
      /\ lastStable' \in Hashes \cup {None}
  BY StoreFields DEF StoreInv, RetentionFails, At, End, rows, files, history
<1>2. count' \in CountType
  BY TypesAre, Counted DEF StoreInv, Types, RetentionFails
<1>3. StoreTypeOK'
  BY <1>1, <1>2, TypesAre, StoreFields DEF StoreInv, Types
<1>4. Owned'
  BY <1>1, StoreFields DEF StoreInv, Owned, Shaped, Shape
<1>5. Shaped' /\ TempFits' /\ InPlace'
  BY <1>1, NoneIdle DEF StoreInv, Shaped, TempFits, InPlace, Temps
<1>6. RowsFit' /\ DoomedOnly' /\ NamedFilesExist' /\ ReaderSees'
  BY <1>1 DEF StoreInv, RowsFit, DoomedOnly, NamedFilesExist, ReaderSees, Stored
<1> QED
  BY <1>3, <1>4, <1>5, <1>6 DEF StoreInv

\* Retention as a command.
LEMMA ApplyRetentionStep ==
    ASSUME StoreInv, NEW S \in SUBSET Clips, ApplyRetention(S)
    PROVE  StoreInv'
<1>1. /\ command = Idle /\ command' # Idle /\ command' \in CommandType /\ command'.paths = Left(S)
      /\ Retention(S) /\ Writable
      /\ UNCHANGED <<file, temp, torn, unused, capture, doomed, excused, kept>>
      /\ lastStable' \in Hashes \cup {None}
  <2>1. Left(S) \in SUBSET Clips
    BY StoreFields DEF StoreInv, Left
  <2>2. /\ command = Idle /\ Writable
        /\ command' = [pc |-> "unlink", paths |-> Left(S), dedup |-> FALSE]
    BY DEF ApplyRetention, Begin
  <2>3. command' # Idle /\ command' \in CommandType /\ command'.paths = Left(S)
    BY <2>1, <2>2, NoneIdle DEF CommandType
  <2> QED
    BY <2>2, <2>3, StoreFields DEF ApplyRetention, files, history, StoreInv
<1>2. count' \in CountType
  BY TypesAre, Counted DEF StoreInv, Types, ApplyRetention, Begin
<1>3. StoreTypeOK'
  BY <1>1, <1>2, TypesAre, StoreFields, Overtakes, Retained
  DEF StoreInv, Types, Left, Writable, Retainable, Preserved, Shown, Stored, Became
<1>4. Shaped'
  BY <1>1, StoreFields, NoneIdle, StoreBounds
  DEF StoreInv, Shaped, RowsFit, Left, Retention, Writable, Shape, Stored, Removed, Retainable,
      Preserved, Shown
<1>5. RowsFit'
  BY <1>1, StoreFields, NoneIdle, StoreBounds
  DEF StoreInv, RowsFit, Shaped, Left, Retention, Writable, Stored, Shape, Removed, Retainable,
      Preserved, Shown
<1>6. DoomedOnly'
  BY <1>1, StoreFields
  DEF StoreInv, DoomedOnly, InPlace, NamedFilesExist, Shaped, Left, Retention, Writable, Shape,
      Removed, Retainable, Preserved, Stored, Shown
<1>7. InPlace'
  BY <1>1, StoreFields
  DEF StoreInv, InPlace, DoomedOnly, NamedFilesExist, TempFits, Shaped, Left, Retention,
      Writable, Temps, Shape, Removed, Retainable, Preserved, Stored, Shown
<1>8. NamedFilesExist'
  BY <1>1, StoreFields
  DEF StoreInv, NamedFilesExist, InPlace, DoomedOnly, TempFits, Shaped, Left, Retention,
      Writable, Temps, Shape, Removed, Retainable, Preserved, Stored, Shown
<1>9. Owned'
  BY <1>1, StoreFields
  DEF StoreInv, Owned, Shaped, Left, Retention, Writable, Shape, Removed, Retainable, Preserved,
      Stored, Shown
<1>10. ReaderSees'
  BY <1>1, StoreFields, Overtakes
  DEF StoreInv, ReaderSees, Shaped, TempFits, Left, Retention, Writable, Shape, Temps, Removed,
      Retainable, Preserved, Stored, Shown
<1>11. TempFits'
  BY <1>1 DEF StoreInv, TempFits, Temps
<1> QED
  BY <1>3, <1>4, <1>5, <1>6, <1>7, <1>8, <1>9, <1>10, <1>11 DEF StoreInv

\* A command deletes rows; their files are to be unlinked.
LEMMA HardStep ==
    ASSUME StoreInv, NEW D \in SUBSET Clips, \A d \in D : Stored(d), Hard(D)
    PROVE  StoreInv'
<1>1. /\ command = Idle /\ command' # Idle /\ command' \in CommandType
      /\ command'.paths = D \cap named
      /\ DeleteRows(D) /\ Overtake(D) /\ Writable
      /\ UNCHANGED <<file, temp, torn, unused, capture, doomed, excused, kept>>
      /\ lastStable' \in Hashes \cup {None}
  BY StoreFields, Pcs, NoneIdle DEF StoreInv, Hard, Begin, files, history, CommandType
<1>2. count' \in CountType
  BY TypesAre, Counted DEF StoreInv, Types, Hard, Begin
<1>3. StoreTypeOK'
  BY <1>1, <1>2, TypesAre, StoreFields, Overtakes
  DEF StoreInv, Types, DeleteRows, Writable, Became
<1>4. Shaped'
  BY <1>1, StoreFields, NoneIdle, StoreBounds
  DEF StoreInv, Shaped, RowsFit, DeleteRows, Writable, Shape, Stored
<1>5. RowsFit'
  BY <1>1, StoreFields, NoneIdle, StoreBounds
  DEF StoreInv, RowsFit, Shaped, DeleteRows, Writable, Stored, Shape
<1>6. DoomedOnly'
  BY <1>1, StoreFields
  DEF StoreInv, DoomedOnly, InPlace, NamedFilesExist, Shaped, DeleteRows, Writable, Shape,
      Stored
<1>7. InPlace'
  BY <1>1, StoreFields
  DEF StoreInv, InPlace, DoomedOnly, NamedFilesExist, TempFits, Shaped, DeleteRows, Writable,
      Temps, Shape, Stored
<1>8. NamedFilesExist'
  BY <1>1, StoreFields
  DEF StoreInv, NamedFilesExist, InPlace, DoomedOnly, TempFits, Shaped, DeleteRows, Writable,
      Temps, Shape, Stored
<1>9. Owned'
  BY <1>1, StoreFields DEF StoreInv, Owned, Shaped, DeleteRows, Writable, Shape, Stored
<1>10. ReaderSees'
  BY <1>1, StoreFields, Overtakes
  DEF StoreInv, ReaderSees, Shaped, TempFits, DeleteRows, Writable, Shape, Temps, Stored
<1>11. TempFits'
  BY <1>1 DEF StoreInv, TempFits, Temps
<1> QED
  BY <1>3, <1>4, <1>5, <1>6, <1>7, <1>8, <1>9, <1>10, <1>11 DEF StoreInv

\* A clip is hidden.
LEMMA SoftDeleteStep ==
    ASSUME StoreInv, NEW u \in Clips, SoftDelete(u)
    PROVE  StoreInv'
<1>1. /\ command = Idle /\ command' # Idle /\ command' \in CommandType /\ command'.paths = {}
      /\ Stored(u) /\ \E r \in Row : clips' = [clips EXCEPT ![u] = r]
      /\ UNCHANGED <<named, file, temp, torn, unused, capture, reader, doomed, excused,
                     kept>>
      /\ lastStable' \in Hashes \cup {None}
  <2>1. Stored(u) /\ clips[u] \in Row
    BY StoreFields DEF StoreInv, SoftDelete, Shown
  <2>2. [clips[u] EXCEPT !.deleted = TRUE] \in Row
    BY <2>1 DEF Row
  <2>3. clips' = [clips EXCEPT ![u] = [clips[u] EXCEPT !.deleted = TRUE]]
    BY DEF SoftDelete
  <2>4. command = Idle /\ command' = [pc |-> "unlink", paths |-> {}, dedup |-> TRUE]
    BY DEF SoftDelete, Begin
  <2>5. command' # Idle /\ command' \in CommandType /\ command'.paths = {}
    BY <2>4, NoneIdle DEF CommandType
  <2> QED
    BY <2>1, <2>2, <2>3, <2>4, <2>5, StoreFields DEF SoftDelete, files, history, StoreInv
<1>2. count' \in CountType
  BY TypesAre, Counted DEF StoreInv, Types, SoftDelete, Begin
<1>3. StoreTypeOK'
  BY <1>1, <1>2, TypesAre, StoreFields DEF StoreInv, Types, Stored, Became
<1>4. Shaped'
  BY <1>1, StoreFields, NoneIdle, StoreBounds DEF StoreInv, Shaped, RowsFit, Stored, Shape
<1>5. RowsFit'
  BY <1>1, StoreFields, NoneIdle, StoreBounds DEF StoreInv, RowsFit, Shaped, Stored, Shape
<1>6. DoomedOnly'
  BY <1>1, StoreFields DEF StoreInv, DoomedOnly, InPlace, NamedFilesExist, Shaped, Stored, Shape
<1>7. InPlace'
  BY <1>1, StoreFields
  DEF StoreInv, InPlace, DoomedOnly, NamedFilesExist, TempFits, Shaped, Stored, Temps, Shape
<1>8. Owned'
  BY <1>1, StoreFields DEF StoreInv, Owned, Shaped, Stored, Shape
<1>9. ReaderSees'
  BY <1>1, StoreFields DEF StoreInv, ReaderSees, Shaped, TempFits, Stored, Shape, Temps
<1>10. TempFits' /\ NamedFilesExist'
  BY <1>1 DEF StoreInv, TempFits, NamedFilesExist, Temps
<1> QED
  BY <1>3, <1>4, <1>5, <1>6, <1>7, <1>8, <1>9, <1>10 DEF StoreInv

\* A clip is pinned or not.
LEMMA TogglePinStep ==
    ASSUME StoreInv, NEW u \in Clips, TogglePin(u)
    PROVE  StoreInv'
<1>1. /\ Stored(u) /\ \E r \in Row : clips' = [clips EXCEPT ![u] = r]
      /\ UNCHANGED <<named, file, temp, torn, unused, capture, command, reader, doomed, excused,
                     kept>>
      /\ lastStable' \in Hashes \cup {None}
  BY StoreFields, Pcs, NoneIdle DEF StoreInv, TogglePin, Shown, Writable, files, history, Row
<1>2. count' \in CountType
  BY TypesAre, Counted DEF StoreInv, Types, TogglePin
<1>3. StoreTypeOK'
  BY <1>1, <1>2, TypesAre, StoreFields DEF StoreInv, Types, Stored, Became
<1>4. Shaped'
  BY <1>1, StoreFields, NoneIdle, StoreBounds DEF StoreInv, Shaped, RowsFit, Stored, Shape
<1>5. RowsFit'
  BY <1>1, StoreFields, NoneIdle, StoreBounds DEF StoreInv, RowsFit, Shaped, Stored, Shape
<1>6. TempFits' /\ DoomedOnly' /\ InPlace' /\ NamedFilesExist' /\ Owned' /\ ReaderSees'
  BY <1>1 DEF StoreInv, TempFits, DoomedOnly, InPlace, NamedFilesExist, Owned, ReaderSees, Temps
<1> QED
  BY <1>3, <1>4, <1>5, <1>6 DEF StoreInv

\* An image has its text.
LEMMA TextRecognizedStep ==
    ASSUME StoreInv, NEW u \in Clips, TextRecognized(u)
    PROVE  StoreInv'
<1>1. /\ Stored(u) /\ \E r \in Row : clips' = [clips EXCEPT ![u] = r]
      /\ UNCHANGED <<named, file, temp, torn, unused, capture, command, reader, doomed, excused,
                     kept>>
      /\ lastStable' \in Hashes \cup {None}
  BY StoreFields, Pcs, NoneIdle
  DEF StoreInv, TextRecognized, Shown, Writable, files, history, Row
<1>2. count' \in CountType
  BY TypesAre, Counted DEF StoreInv, Types, TextRecognized
<1>3. StoreTypeOK'
  BY <1>1, <1>2, TypesAre, StoreFields DEF StoreInv, Types, Stored, Became
<1>4. Shaped'
  BY <1>1, StoreFields, NoneIdle, StoreBounds DEF StoreInv, Shaped, RowsFit, Stored, Shape
<1>5. RowsFit'
  BY <1>1, StoreFields, NoneIdle, StoreBounds DEF StoreInv, RowsFit, Shaped, Stored, Shape
<1>6. TempFits' /\ DoomedOnly' /\ InPlace' /\ NamedFilesExist' /\ Owned' /\ ReaderSees'
  BY <1>1 DEF StoreInv, TempFits, DoomedOnly, InPlace, NamedFilesExist, Owned, ReaderSees, Temps
<1> QED
  BY <1>3, <1>4, <1>5, <1>6 DEF StoreInv

\* A reader finds a clip (load_full_image_content).
LEMMA ReadRowStep ==
    ASSUME StoreInv, NEW u \in Clips, ReadRow(u)
    PROVE  StoreInv'
<1>1. /\ reader' # Idle /\ reader' \in ReaderType /\ reader'.clip = u
      /\ reader'.pc = IF clips[u].expired THEN "done" ELSE "path"
      /\ reader'.whole = (u \in (named \cap file) \ torn)
      /\ reader'.overtaken =
            ((capture # Idle /\ capture.clip = u) \/ (command # Idle /\ u \in command.paths))
      /\ reader'.result = IF clips[u].expired THEN "refused" ELSE "none"
      /\ UNCHANGED <<clips, named, file, temp, torn, unused, capture, command, doomed, excused,
                     kept>>
      /\ lastStable' \in Hashes \cup {None}
  <2> DEFINE over == \/ capture # Idle /\ capture.clip = u
                     \/ command # Idle /\ u \in command.paths
             whole == u \in (named \cap file) \ torn
             pc == IF clips[u].expired THEN "done" ELSE "path"
             result == IF clips[u].expired THEN "refused" ELSE "none"
  <2>1. reader' = [pc |-> pc, clip |-> u, whole |-> whole, overtaken |-> over, result |-> result]
    BY Zenon DEF ReadRow
  <2>2. over \in BOOLEAN /\ whole \in BOOLEAN /\ pc \in {"path", "read", "done"}
        /\ result \in {"none", "original", "thumbnail", "refused"}
    OBVIOUS
  <2>3. UNCHANGED <<clips, named, file, temp, torn, unused, capture, command, doomed, excused,
                    kept>>
        /\ lastStable' \in Hashes \cup {None}
    BY StoreFields DEF ReadRow, rows, files, history, StoreInv
  <2> HIDE DEF over, whole, pc, result
  <2>4. reader' \in ReaderType /\ reader'.pc = pc /\ reader'.clip = u /\ reader'.whole = whole
        /\ reader'.overtaken = over /\ reader'.result = result
    BY <2>1, <2>2 DEF ReaderType
  <2>5. reader' # Idle
    BY <2>4, NoneIdle
  <2> QED
    BY <2>3, <2>4, <2>5 DEF over, whole, pc, result
<1>2. count' \in CountType
  BY TypesAre, Counted DEF StoreInv, Types, ReadRow
<1>3. StoreTypeOK'
  BY <1>1, <1>2, TypesAre, StoreFields DEF StoreInv, Types, Became
<1>4. ReaderSees'
  BY <1>1, StoreFields DEF StoreInv, ReaderSees, Shaped, TempFits, Shape, Temps, Stored
<1>5. Shaped' /\ RowsFit' /\ TempFits' /\ DoomedOnly' /\ InPlace' /\ NamedFilesExist' /\ Owned'
  BY <1>1
  DEF StoreInv, Shaped, RowsFit, TempFits, DoomedOnly, InPlace, NamedFilesExist, Owned, Shape,
      Stored, Temps
<1> QED
  BY <1>3, <1>4, <1>5 DEF StoreInv

\* The files of the rows a command has deleted go one by one; a row that names one of
\* them again is doomed (remove_clip_image_files).
LEMMA CommandUnlinkStep ==
    ASSUME StoreInv, CommandUnlink
    PROVE  StoreInv'
<1>1. /\ command # Idle
      /\ \/ \E u \in command.paths :
               /\ Took(u) /\ command' # Idle /\ command' \in CommandType
               /\ command'.paths = command.paths \ {u}
         \/ command.paths = {} /\ command' = Idle /\ UNCHANGED <<file, torn, excused>>
      /\ UNCHANGED <<clips, named, temp, unused, capture, reader, doomed, kept>>
      /\ lastStable' \in Hashes \cup {None}
  BY StoreFields, NoneIdle, DroppedAndTook DEF StoreInv, CommandUnlink, rows, CommandType
<1>2. count' \in CountType
  <2>1. command.paths \subseteq Clips
    BY <1>1, StoreFields DEF StoreInv
  <2>2. (\E u \in command.paths : Remove(u)) \/ Works
    BY DEF CommandUnlink
  <2> QED
    BY <2>1, <2>2, TypesAre, Counted, DroppedAndTook DEF StoreInv, Types
<1>3. StoreTypeOK'
  BY <1>1, <1>2, TypesAre, StoreFields DEF StoreInv, Types, Took, Unlink, Became
<1>4. TempFits'
  BY <1>1, StoreFields DEF StoreInv, TempFits, Shaped, Took, Unlink, Temps, Shape, Stored
<1>5. DoomedOnly'
  BY <1>1, StoreFields
  DEF StoreInv, DoomedOnly, InPlace, NamedFilesExist, Shaped, Took, Unlink, Shape, Stored
<1>6. InPlace'
  BY <1>1, StoreFields
  DEF StoreInv, InPlace, DoomedOnly, NamedFilesExist, TempFits, Shaped, Took, Unlink, Temps, Shape,
      Stored
<1>7. NamedFilesExist'
  BY <1>1, StoreFields
  DEF StoreInv, NamedFilesExist, InPlace, DoomedOnly, TempFits, Shaped, Took, Unlink, Temps, Shape,
      Stored
<1>8. Owned'
  BY <1>1, StoreFields DEF StoreInv, Owned, Shaped, Took, Unlink, Shape, Stored
<1>9. ReaderSees'
  BY <1>1, StoreFields
  DEF StoreInv, ReaderSees, Shaped, TempFits, Took, Unlink, Shape, Temps, Stored
<1>10. Shaped' /\ RowsFit'
  BY <1>1 DEF StoreInv, Shaped, RowsFit, Shape, Stored
<1> QED
  BY <1>3, <1>4, <1>5, <1>6, <1>7, <1>8, <1>9, <1>10 DEF StoreInv

\* It looks the path up.
LEMMA ReadPathStep ==
    ASSUME StoreInv, ReadPath
    PROVE  StoreInv'
<1>1. /\ reader # Idle /\ reader.pc = "path" /\ reader' # Idle /\ reader' \in ReaderType
      /\ reader'.clip = reader.clip /\ reader'.whole = reader.whole
      /\ reader'.overtaken = reader.overtaken
      /\ IF reader.clip \in named THEN reader'.pc = "read" /\ reader'.result = reader.result
         ELSE reader'.pc = "done" /\ reader'.result = "thumbnail"
      /\ UNCHANGED <<clips, named, file, temp, torn, unused, capture, command, doomed, excused,
                     kept>>
      /\ lastStable' \in Hashes \cup {None}
  BY StoreFields, Pcs, NoneIdle DEF StoreInv, ReadPath, rows, files, history, ReaderType
<1>2. count' \in CountType
  BY TypesAre, Counted DEF StoreInv, Types, ReadPath
<1>3. StoreTypeOK'
  BY <1>1, <1>2, TypesAre, StoreFields DEF StoreInv, Types, Became
<1>4. ReaderSees'
  BY <1>1, StoreFields DEF StoreInv, ReaderSees, Shaped, TempFits, Shape, Temps, Stored
<1>5. Shaped' /\ RowsFit' /\ TempFits' /\ DoomedOnly' /\ InPlace' /\ NamedFilesExist' /\ Owned'
  BY <1>1
  DEF StoreInv, Shaped, RowsFit, TempFits, DoomedOnly, InPlace, NamedFilesExist, Owned, Shape,
      Stored, Temps
<1> QED
  BY <1>3, <1>4, <1>5 DEF StoreInv

\* It opens the file.
LEMMA ReadFileStep ==
    ASSUME StoreInv, ReadFile
    PROVE  StoreInv'
<1>1. /\ reader # Idle /\ reader.pc = "read" /\ reader' # Idle /\ reader' \in ReaderType
      /\ reader'.clip = reader.clip /\ reader'.whole = reader.whole
      /\ reader'.overtaken = reader.overtaken /\ reader'.pc = "done"
      /\ reader'.result = IF reader.clip \in file \ torn THEN "original" ELSE "thumbnail"
      /\ UNCHANGED <<clips, named, file, temp, torn, unused, capture, command, doomed, excused,
                     kept>>
      /\ lastStable' \in Hashes \cup {None}
  BY StoreFields, Pcs, NoneIdle DEF StoreInv, ReadFile, rows, files, history, ReaderType
<1>2. count' \in CountType
  BY TypesAre, Counted DEF StoreInv, Types, ReadFile
<1>3. StoreTypeOK'
  BY <1>1, <1>2, TypesAre, StoreFields DEF StoreInv, Types, Became
<1>4. ReaderSees'
  BY <1>1, StoreFields DEF StoreInv, ReaderSees, Shaped, TempFits, Shape, Temps, Stored
<1>5. Shaped' /\ RowsFit' /\ TempFits' /\ DoomedOnly' /\ InPlace' /\ NamedFilesExist' /\ Owned'
  BY <1>1
  DEF StoreInv, Shaped, RowsFit, TempFits, DoomedOnly, InPlace, NamedFilesExist, Owned, Shape,
      Stored, Temps
<1> QED
  BY <1>3, <1>4, <1>5 DEF StoreInv

\* The application ends; the sweep of the next start makes a file of a temp that is the
\* last copy (sweep_stale_image_temps).
LEMMA RestartStep ==
    ASSUME StoreInv, NEW stuck \in SUBSET Temps, Restart(stuck)
    PROVE  StoreInv'
<1>1. /\ Sweep(stuck)
      /\ excused' = excused \cup (Promoted(stuck) \ named)
            \cup (IF command = Idle THEN {} ELSE command.paths)
            \cup (IF capture = Idle THEN {}
                  ELSE capture.paths \cup ({capture.clip} \cap (Clips \ named)))
      /\ capture' = Idle /\ command' = Idle /\ reader' = Idle
      /\ UNCHANGED <<clips, named, unused, doomed>>
      /\ lastStable' \in Hashes \cup {None}
  BY Pcs, NoneIdle DEF StoreInv, Restart, rows
<1>2. count' \in CountType
  <2> DEFINE f == IF stuck = {} THEN count.failures ELSE count.failures + 1
  <2>1. /\ count' = [count EXCEPT !.restarts = count.restarts + 1, !.failures = f]
        /\ count.restarts < MaxRestarts /\ count'.failures <= MaxFailures
    BY DEF Restart
  <2>2. count \in CountType /\ f \in Nat
    BY TypesAre DEF StoreInv, Types, CountType
  <2> HIDE DEF f
  <2>3. count'.failures = f
    BY <2>1, <2>2 DEF CountType
  <2>4. /\ count'.captures = count.captures /\ count'.commands = count.commands
        /\ count'.restarts = count.restarts + 1
        /\ count' = [captures |-> count'.captures, commands |-> count'.commands,
                     failures |-> count'.failures, restarts |-> count'.restarts]
    BY <2>1, <2>2 DEF CountType
  <2>5. /\ count.captures \in 0 .. MaxCaptures /\ count.commands \in 0 .. MaxCommands
        /\ count.restarts + 1 \in 0 .. MaxRestarts /\ f \in 0 .. MaxFailures
    BY <2>1, <2>2, <2>3, StoreBounds DEF CountType
  <2> QED
    BY <2>3, <2>4, <2>5 DEF CountType
<1>3. StoreTypeOK'
  BY <1>1, <1>2, TypesAre, StoreFields DEF StoreInv, Types, Sweep, Promoted, Temps, Became
<1>4. Shaped'
  BY <1>1, StoreFields, NoneIdle, StoreBounds
  DEF StoreInv, Shaped, RowsFit, Sweep, Promoted, Shape, Stored, Temps
<1>5. TempFits'
  BY <1>1, StoreFields DEF StoreInv, TempFits, Shaped, Sweep, Promoted, Temps, Shape, Stored
<1>6. DoomedOnly'
  BY <1>1, StoreFields
  DEF StoreInv, DoomedOnly, InPlace, NamedFilesExist, Shaped, Sweep, Promoted, Shape, Temps,
      Stored
<1>7. InPlace'
  BY <1>1, StoreFields
  DEF StoreInv, InPlace, DoomedOnly, NamedFilesExist, TempFits, Shaped, Sweep, Promoted, Temps,
      Shape, Stored
<1>8. NamedFilesExist'
  BY <1>1, StoreFields
  DEF StoreInv, NamedFilesExist, InPlace, DoomedOnly, TempFits, Shaped, Sweep, Promoted, Temps,
      Shape, Stored
<1>9. Owned'
  BY <1>1, StoreFields DEF StoreInv, Owned, Shaped, Sweep, Promoted, Shape, Temps, Stored
<1>10. ReaderSees'
  BY <1>1, StoreFields
  DEF StoreInv, ReaderSees, Shaped, TempFits, Sweep, Promoted, Shape, Temps, Stored
<1>11. RowsFit'
  BY <1>1 DEF StoreInv, RowsFit, Stored
<1> QED
  BY <1>3, <1>4, <1>5, <1>6, <1>7, <1>8, <1>9, <1>10, <1>11 DEF StoreInv

----------------------------------------------------------------------------

\* A store to begin with.
LEMMA StoreInitInv == StoreInit => StoreInv
<1> SUFFICES ASSUME StoreInit PROVE StoreInv
  OBVIOUS
<1>1. count \in CountType
  BY StoreBounds DEF StoreInit, CountType
<1>2. StoreTypeOK
  BY <1>1, TypesAre DEF StoreInit, Types
<1> QED
  BY <1>2, NoneIdle
  DEF StoreInit, StoreInv, Shaped, RowsFit, TempFits, DoomedOnly, InPlace, NamedFilesExist,
      Owned, ReaderSees, Stored, Temps

\* A step that changes nothing.
LEMMA StoreStutter == ASSUME StoreInv, UNCHANGED storeVars PROVE StoreInv'
BY DEF StoreInv, storeVars, StoreTypeOK, Shaped, Shape, RowsFit, TempFits, DoomedOnly, InPlace,
       NamedFilesExist, Owned, ReaderSees, Stored, Temps

\* Every step keeps the invariant.
LEMMA StoreNextInv == ASSUME StoreInv, [StoreNext]_storeVars PROVE StoreInv'
<1>1. CASE CaptureStep
  BY <1>1, LookupStep, InsertStep, StageStep, WriteStep, UpdateStep, ReplaceStep,
     RecoverDestGoneStep, CommitStep, IndexStep, UndoStep, FormatsStep, RollBackPathStep,
     RollBackRowStep, SetStableStep, RetentionFailsStep, CaptureUnlinkStep
  DEF CaptureStep
<1>2. CASE \E i \in Hashes : Copy(i)
  BY <1>2, CopyStep
<1>3. CASE \E S \in SUBSET Clips : CaptureRetention(S) \/ ApplyRetention(S)
  BY <1>3, CaptureRetentionStep, ApplyRetentionStep
<1>4. CASE \E u \in Clips : DeleteClip(u)
  <2>1. PICK u \in Clips : Stored(u) /\ Hard({u})
    BY <1>4 DEF DeleteClip
  <2>2. {u} \in SUBSET Clips /\ \A d \in {u} : Stored(d)
    BY <2>1
  <2> QED
    BY <2>1, <2>2, HardStep
<1>5. CASE \E u \in Clips :
              SoftDelete(u) \/ TogglePin(u) \/ TextRecognized(u) \/ ReadRow(u)
  BY <1>5, SoftDeleteStep, TogglePinStep, TextRecognizedStep, ReadRowStep
<1>6. CASE (\E preservePinned \in BOOLEAN : ClearClips(preservePinned)) \/ RemoveDuplicates
  <2>1. PICK D \in SUBSET Clips : (\A d \in D : Stored(d)) /\ Hard(D)
    BY <1>6 DEF ClearClips, RemoveDuplicates
  <2> QED
    BY <2>1, HardStep
<1>7. CASE CommandUnlink \/ ReadPath \/ ReadFile
  BY <1>7, CommandUnlinkStep, ReadPathStep, ReadFileStep
<1>8. CASE \E stuck \in SUBSET Temps : Restart(stuck)
  BY <1>8, RestartStep
<1>9. CASE UNCHANGED storeVars
  BY <1>9, StoreStutter
<1> QED
  BY <1>1, <1>2, <1>3, <1>4, <1>5, <1>6, <1>7, <1>8, <1>9 DEF StoreNext

\* The inductive invariant of the images holds throughout.
THEOREM StoreInvariance == StoreSpec => []StoreInv
BY StoreInitInv, StoreNextInv, PTL DEF StoreSpec

\* A named original is there, and the original is what is pasted (OriginalsAreKept;
\* StagedImageFile::commit, sweep_stale_image_temps, load_full_image_content).
THEOREM OriginalsKept == StoreSpec => []OriginalsAreKept
<1>1. StoreInv => OriginalsAreKept
  BY DEF StoreInv, OriginalsAreKept, ThumbnailOnlyIfOvertaken, ReaderSees
<1> QED
  BY <1>1, StoreInvariance, PTL

\* Every file has a row, an excuse or somebody to deal with it, and a temp beside a file
\* belongs to the capture at work (NothingLeftOver; remove_clip_image_files).
THEOREM NothingStays == StoreSpec => []NothingLeftOver
<1>1. StoreInv => FilesAreOwned /\ TempIsLastCopy
  BY StoreFields DEF StoreInv, FilesAreOwned, Owned, TempIsLastCopy, TempFits
<1> QED
  BY <1>1, StoreInvariance, PTL DEF NothingLeftOver
=============================================================================

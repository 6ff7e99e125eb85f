------------------------------ MODULE OcrQueue ------------------------------
(***************************************************************************)
(* Background text recognition (src-tauri/src/ocr_queue.rs): the job queue *)
(* is a few columns of the clips table, so it outlives the process.  One   *)
(* supervised worker claims the newest due image, recognizes it outside of *)
(* any transaction and writes the result by uuid.  Meanwhile captures      *)
(* queue images, the user corrects, rescans, pauses and deletes, retention *)
(* drops originals, database calls fail, and the process may end.          *)
(*                                                                         *)
(* The interface only deletes for good, so no row here is soft-deleted.    *)
(***************************************************************************)
EXTENDS Naturals, FiniteSets

CONSTANTS
    Images,         \* image contents, numbered in the order they are copied
    MaxAttempts,    \* MAX_ATTEMPTS
    MaxRequests,    \* bound on recopies and user commands
    MaxFaults       \* bound on failing database calls and restarts of the process

ASSUME OcrAssumption ==
    /\ Images \subseteq Nat /\ IsFiniteSet(Images)
    /\ MaxAttempts \in Nat \ {0}
    /\ {MaxRequests, MaxFaults} \subseteq Nat

VARIABLES
    jobs,         \* the OCR columns of the image rows there are
    saved,        \* settings: ocr_queue_paused
    flagged,      \* settings: ocr_linebreak_reprocess_v1
    paused,       \* PAUSED
    worker,       \* the worker: where it is, its job, and the pause it loaded
    capturing,    \* the image capture that is being stored, if any
    pausing,      \* set_ocr_queue_paused between its two writes
    reprocess,    \* where reprocess_existing_for_linebreaks is
    requests, faults

counters == <<requests, faults>>
vars == <<jobs, saved, flagged, paused, worker, capturing, pausing, reprocess,
          requests, faults>>

----------------------------------------------------------------------------

Statuses == {"pending", "retry", "processing", "completed", "failed", "unavailable"}

\* Each fault may cost an attempt beyond MAX_ATTEMPTS (AttemptsBounded).
Attempts == 0 .. MaxAttempts + MaxFaults

\* due: ocr_next_retry_at is absent or past.  stored: clip_images and the file.
Job == [status : Statuses, text : {"none", "recognized", "corrected"},
        attempts : Attempts,
        due : BOOLEAN, stored : BOOLEAN]

\* What recognize_png may come back with, as classify_failure sorts it.
Recognitions == {"text", "blank", "retryable", "permanent", "unavailable"}

Results == Recognitions \cup {"missing"}

Rows == DOMAIN jobs

AtMostOne(S) == \A x, y \in S : x = y

\* The worker holds a job exactly while it works on it.
WorkerTyped ==
    /\ worker \in [pc : {"load", "apply", "recover", "loop", "job", "mark", "down"},
                   image : SUBSET Images, attempts : Attempts,
                   payload : BOOLEAN, result : SUBSET Results, loaded : BOOLEAN]
    /\ AtMostOne(worker.image) /\ AtMostOne(worker.result)
    /\ worker.image # {} <=> worker.pc \in {"job", "mark"}
    /\ worker.result # {} <=> worker.pc = "mark"

JobsTyped == Rows \subseteq Images /\ jobs \in [Rows -> Job]

\* One capture at a time, and one change of the pause.
OthersTyped ==
    /\ saved \in BOOLEAN /\ flagged \in BOOLEAN /\ paused \in BOOLEAN
    /\ capturing \in SUBSET [image : Images, step : {"store", "enqueue"}]
    /\ AtMostOne(capturing)
    /\ pausing \in SUBSET BOOLEAN /\ AtMostOne(pausing)
    /\ reprocess \in {"check", "reset", "flag", "done"}
    /\ requests \in 0 .. MaxRequests
    /\ faults \in 0 .. MaxFaults

\* The type invariant.
TypeOK == JobsTyped /\ WorkerTyped /\ OthersTyped

IdleWorker == [pc |-> "load", image |-> {}, attempts |-> 0, payload |-> FALSE,
               result |-> {}, loaded |-> FALSE]

Init ==
    /\ jobs = << >>
    /\ saved = FALSE
    /\ flagged = FALSE
    /\ paused = FALSE
    /\ worker = IdleWorker
    /\ capturing = {}
    /\ pausing = {}
    /\ reprocess = "check"
    /\ requests = 0 /\ faults = 0

\* A database or file call fails, or the process ends.
Fault == faults < MaxFaults /\ faults' = faults + 1

Running == worker.pc # "down"

Request == Running /\ requests < MaxRequests /\ requests' = requests + 1

\* The columns every writer of the queue resets when it asks for a new pass.
Queued(j) == [j EXCEPT !.status = "pending", !.attempts = 0, !.due = TRUE]

Without(i) == [k \in Rows \ {i} |-> jobs[k]]

----------------------------------------------------------------------------
(* Capturing an image (clipboard.rs): the row first, then the original,    *)
(* then the queue.                                                         *)

\* A new row says 'pending' before its original is stored.
InsertImage(i) ==
    /\ Running /\ capturing = {}
    /\ i \notin Rows /\ \A k \in Rows : k < i
    /\ jobs' = [k \in Rows \cup {i} |->
                  IF k = i THEN [status |-> "pending", text |-> "none", attempts |-> 0,
                                 due |-> TRUE, stored |-> FALSE]
                  ELSE jobs[k]]
    /\ capturing' = { [image |-> i, step |-> "store"] }
    /\ UNCHANGED <<saved, flagged, paused, worker, pausing, reprocess, counters>>

\* persist_full_image_file and clip_images; a capture that cannot store its
\* original, or whose row was deleted meanwhile, takes its row back.
StoreImage ==
    \E c \in capturing :
      /\ c.step = "store"
      /\ \/ /\ c.image \in Rows
            /\ jobs' = [jobs EXCEPT ![c.image].stored = TRUE]
            /\ capturing' = { [c EXCEPT !.step = "enqueue"] }
            /\ UNCHANGED faults
         \/ /\ \/ c.image \notin Rows /\ UNCHANGED faults
               \/ Fault
            /\ jobs' = Without(c.image)
            /\ capturing' = {}
      /\ UNCHANGED <<saved, flagged, paused, worker, pausing, reprocess, requests>>

\* A recopied image: its original is written again.
Recapture(i) ==
    /\ Request /\ capturing = {}
    /\ i \in Rows
    /\ jobs' = [jobs EXCEPT ![i].stored = TRUE]
    /\ capturing' = { [image |-> i, step |-> "enqueue"] }
    /\ UNCHANGED <<saved, flagged, paused, worker, pausing, reprocess, faults>>

\* enqueue: an image that has no text yet is asked for (again).  A failure is
\* only logged.
Enqueue ==
    \E c \in capturing :
      /\ c.step = "enqueue"
      /\ \/ /\ jobs' = [k \in Rows |->
                          IF k = c.image /\ jobs[k].text = "none"
                          THEN Queued(jobs[k]) ELSE jobs[k]]
            /\ UNCHANGED faults
         \/ Fault /\ UNCHANGED jobs
      /\ capturing' = {}
      /\ UNCHANGED <<saved, flagged, paused, worker, pausing, reprocess, requests>>

----------------------------------------------------------------------------
(* The worker (run_worker, claim_next, process_job).                       *)

WorkerOnly == UNCHANGED <<saved, flagged, capturing, pausing, reprocess, requests>>

\* load_paused reads the saved pause...
LoadPaused ==
    /\ worker.pc = "load"
    /\ worker' = [worker EXCEPT !.pc = "apply", !.loaded = saved]
    /\ UNCHANGED <<jobs, paused, faults>>
    /\ WorkerOnly

\* ...and the worker makes it the pause in force.
ApplyPaused ==
    /\ worker.pc = "apply"
    /\ paused' = worker.loaded
    /\ worker' = [worker EXCEPT !.pc = "recover"]
    /\ UNCHANGED <<jobs, faults>>
    /\ WorkerOnly

\* Mutant: a restarted worker leaves the claimed job of the last one alone.
RecoverNothing ==
    /\ worker.pc = "recover"
    /\ worker' = [worker EXCEPT !.pc = "loop"]
    /\ UNCHANGED <<jobs, paused, faults>>
    /\ WorkerOnly

\* recover_processing_jobs: a job that was cut short is due again.
Recover ==
    /\ worker.pc = "recover"
    /\ jobs' = [k \in Rows |->
                  IF jobs[k].text = "none" /\ jobs[k].status = "processing"
                  THEN [jobs[k] EXCEPT !.status = "retry", !.due = TRUE]
                  ELSE jobs[k]]
    /\ worker' = [worker EXCEPT !.pc = "loop"]
    /\ UNCHANGED <<paused, faults>>
    /\ WorkerOnly

Claimable == { k \in Rows : /\ jobs[k].text = "none" /\ jobs[k].due
                            /\ jobs[k].status \in {"pending", "retry"} }

\* claim_next: the newest image that is due.
Claim ==
    \E i \in Claimable :
      /\ worker.pc = "loop" /\ ~paused
      /\ \A k \in Claimable : k <= i
      /\ jobs' = [jobs EXCEPT ![i].status = "processing", ![i].attempts = @ + 1]
      /\ worker' = [worker EXCEPT !.pc = "job", !.image = {i},
                                  !.attempts = jobs[i].attempts + 1,
                                  !.payload = jobs[i].stored]
      /\ UNCHANGED <<paused, faults>>
      /\ WorkerOnly

\* load_image and recognize_png.  The row was joined with its original when it
\* was claimed; the file may have gone since, once the row lost it.
Recognize ==
    \E i \in worker.image :
      /\ worker.pc = "job"
      /\ \E result \in Results :
           /\ result = "missing" => ~(worker.payload /\ i \in Rows /\ jobs[i].stored)
           /\ result \in Recognitions => worker.payload
           /\ worker' = [worker EXCEPT !.pc = "mark", !.result = {result}]
      /\ UNCHANGED <<jobs, paused, faults>>
      /\ WorkerOnly

BackToLoop == worker' = [IdleWorker EXCEPT !.pc = "loop", !.loaded = worker.loaded]

\* mark_completed: the text, or that there is none.
MarkCompleted ==
    \E i \in worker.image :
      /\ worker.pc = "mark" /\ worker.result \subseteq {"text", "blank"}
      /\ jobs' = [k \in Rows |->
                    IF k = i
                    THEN [jobs[k] EXCEPT !.status = "completed", !.due = TRUE,
                            !.text = IF worker.result = {"text"} THEN "recognized" ELSE "none"]
                    ELSE jobs[k]]
      /\ BackToLoop
      /\ UNCHANGED <<paused, faults>>
      /\ WorkerOnly

\* mark_failed without a recognizer: everything that waits is unavailable.
MarkUnavailable ==
    /\ worker.pc = "mark" /\ worker.result = {"unavailable"}
    /\ jobs' = [k \in Rows |->
                  IF jobs[k].text = "none" /\ jobs[k].status \in {"pending", "retry", "processing"}
                  THEN [jobs[k] EXCEPT !.status = "unavailable", !.due = TRUE]
                  ELSE jobs[k]]
    /\ BackToLoop
    /\ UNCHANGED <<paused, faults>>
    /\ WorkerOnly

\* Mutant: a transient failure is retried for ever.
RetryForever == worker.result = {"retryable"}

Retries == worker.result = {"retryable"} /\ worker.attempts < MaxAttempts

\* mark_failed: a transient failure waits for its next try while tries are left.
MarkFailed ==
    \E i \in worker.image :
      /\ worker.pc = "mark" /\ worker.result \subseteq {"retryable", "permanent", "missing"}
      /\ jobs' = [k \in Rows |->
                    IF k = i
                    THEN [jobs[k] EXCEPT !.status = IF Retries THEN "retry" ELSE "failed",
                                         !.due = ~Retries]
                    ELSE jobs[k]]
      /\ BackToLoop
      /\ UNCHANGED <<paused, faults>>
      /\ WorkerOnly

\* A database call of the worker fails: its supervisor starts it again, with
\* whatever was claimed still 'processing'.
WorkerFails ==
    /\ worker.pc \in {"load", "recover", "loop", "mark"}
    /\ Fault
    /\ worker' = IdleWorker
    /\ UNCHANGED <<jobs, paused>>
    /\ WorkerOnly

\* retry_delay_seconds pass.
RetryIsDue ==
    \E i \in Rows :
      /\ ~jobs[i].due
      /\ jobs' = [jobs EXCEPT ![i].due = TRUE]
      /\ UNCHANGED <<saved, flagged, paused, worker, capturing, pausing, reprocess, counters>>

----------------------------------------------------------------------------
(* The user and retention.                                                 *)

CommandOnly == UNCHANGED <<flagged, worker, capturing, reprocess, faults>>

\* set_clip_ocr_text: a correction, or the text taken away.
SetText(i, text) ==
    /\ Request
    /\ i \in Rows
    /\ jobs' = [jobs EXCEPT ![i].text = text, ![i].status = "completed"]
    /\ UNCHANGED <<saved, paused, pausing>>
    /\ CommandOnly

\* rescan_clip_ocr
Rescan(i) ==
    /\ Request
    /\ i \in Rows
    /\ jobs' = [jobs EXCEPT ![i] = Queued(@)]
    /\ UNCHANGED <<saved, paused, pausing>>
    /\ CommandOnly

\* retry_failed_ocr
RetryFailed ==
    /\ Request
    /\ jobs' = [k \in Rows |->
                  IF jobs[k].text = "none" /\ jobs[k].status \in {"failed", "unavailable"}
                  THEN Queued(jobs[k]) ELSE jobs[k]]
    /\ UNCHANGED <<saved, paused, pausing>>
    /\ CommandOnly

\* delete_clip, clear_clips and retention of an image without text.
Delete(i) ==
    /\ Request
    /\ i \in Rows
    /\ jobs' = Without(i)
    /\ UNCHANGED <<saved, paused, pausing>>
    /\ CommandOnly

\* enforce_retention_in_pool on a completed image with text: its original goes.
Expire(i) ==
    /\ Request
    /\ i \in Rows
    /\ jobs[i].status = "completed" /\ jobs[i].text # "none"
    /\ jobs' = [jobs EXCEPT ![i].stored = FALSE]
    /\ UNCHANGED <<saved, paused, pausing>>
    /\ CommandOnly

\* set_ocr_queue_paused saves the pause first...
SavePaused(value) ==
    /\ Request
    /\ pausing = {}
    /\ saved' = value
    /\ pausing' = {value}
    /\ UNCHANGED <<jobs, paused>>
    /\ CommandOnly

\* ...and then puts it in force.
SetPaused ==
    \E value \in pausing :
      /\ paused' = value
      /\ pausing' = {}
      /\ UNCHANGED <<jobs, saved, requests>>
      /\ CommandOnly

----------------------------------------------------------------------------
(* reprocess_existing_for_linebreaks, once per database.                   *)

CheckReprocess ==
    /\ Running
    /\ reprocess = "check"
    /\ \/ reprocess' = (IF flagged THEN "done" ELSE "reset") /\ UNCHANGED faults
       \/ Fault /\ reprocess' = "done"
    /\ UNCHANGED <<jobs, saved, flagged, paused, worker, capturing, pausing, requests>>

ResetTexts ==
    /\ Running
    /\ reprocess = "reset"
    /\ \/ /\ jobs' = [k \in Rows |->
                        IF jobs[k].text = "none" THEN jobs[k]
                        ELSE [Queued(jobs[k]) EXCEPT !.text = "none"]]
          /\ reprocess' = "flag"
          /\ UNCHANGED faults
       \/ Fault /\ reprocess' = "done" /\ UNCHANGED jobs
    /\ UNCHANGED <<saved, flagged, paused, worker, capturing, pausing, requests>>

FlagReprocessed ==
    /\ Running
    /\ reprocess = "flag"
    /\ reprocess' = "done"
    /\ \/ flagged' = TRUE /\ UNCHANGED faults
       \/ Fault /\ UNCHANGED flagged
    /\ UNCHANGED <<jobs, saved, paused, worker, capturing, pausing, requests>>

----------------------------------------------------------------------------
(* The process ends, and starts again.                                     *)

Crash ==
    /\ Running
    /\ Fault
    /\ worker' = [IdleWorker EXCEPT !.pc = "down"]
    /\ paused' = FALSE
    /\ capturing' = {} /\ pausing' = {}
    /\ reprocess' = "check"
    /\ UNCHANGED <<jobs, saved, flagged, requests>>

\* The database opens (database.rs): unfinished and unavailable jobs wait again.
Boot ==
    /\ worker.pc = "down"
    /\ worker' = IdleWorker
    /\ jobs' = [k \in Rows |->
                  IF jobs[k].status \in {"processing", "unavailable"}
                  THEN [jobs[k] EXCEPT !.due = TRUE,
                          !.status = IF jobs[k].text = "none" THEN "pending" ELSE "completed"]
                  ELSE jobs[k]]
    /\ UNCHANGED <<saved, flagged, paused, capturing, pausing, reprocess, counters>>

----------------------------------------------------------------------------

Capturing == StoreImage \/ Enqueue

Worker ==
    \/ LoadPaused \/ ApplyPaused \/ Recover \/ Claim \/ Recognize
    \/ MarkCompleted \/ MarkUnavailable \/ MarkFailed \/ WorkerFails

User ==
    \/ \E i \in Images : Rescan(i) \/ Delete(i) \/ Expire(i) \/ Recapture(i)
    \/ \E i \in Images, text \in {"none", "corrected"} : SetText(i, text)
    \/ RetryFailed
    \/ \E value \in BOOLEAN : SavePaused(value)
    \/ SetPaused

Reprocess == CheckReprocess \/ ResetTexts \/ FlagReprocessed

Next ==
    \/ \E i \in Images : InsertImage(i)
    \/ Capturing \/ Worker \/ RetryIsDue \/ User \/ Reprocess
    \/ Crash \/ Boot

\* The runtime polls the worker, which also looks every IDLE_POLL_INTERVAL, and
\* the clock reaches every retry.  The user need not come back.
Fairness ==
    /\ WF_vars(Worker)
    /\ WF_vars(RetryIsDue)
    /\ WF_vars(Capturing)
    /\ WF_vars(Boot)

Spec == Init /\ [][Next]_vars

FairSpec == Spec /\ Fairness

----------------------------------------------------------------------------
(* Properties.                                                             *)

\* No job is stranded: a row is 'processing' only while the worker has it, or
\* has yet to recover what an earlier worker left behind, and it has no text.
ProcessingIsOwned ==
    \A i \in Rows :
      jobs[i].status = "processing" =>
        /\ jobs[i].text = "none"
        /\ \/ worker.pc \in {"job", "mark"} /\ worker.image = {i}
           \/ worker.pc \in {"load", "apply", "recover", "down"}

\* An image is not recognized over and over: only an interrupted pass, by a
\* failing database or a crash, costs one more attempt than MAX_ATTEMPTS.
AttemptsBounded ==
    \A i \in Rows : jobs[i].attempts <= MaxAttempts + faults

\* Every queued image is dealt with, in spite of retries, crashes and failing
\* database calls, unless the user pauses the queue.
EveryImageSettles ==
    \A i \in Images :
      (i \in Rows /\ jobs[i].text = "none" /\ jobs[i].status \in {"pending", "retry", "processing"})
        ~> (paused \/ i \notin Rows \/ jobs[i].status \notin {"pending", "retry", "processing"})

(***************************************************************************)
(* What a comment of the code says of it and the code does not keep: TLC   *)
(* refutes it (README, "Where the code and its comments differ").          *)
(***************************************************************************)

\* "A corrected clip counts as processed: leaving it pending would let the
\* background worker overwrite the correction on its next pass"
\* (set_clip_ocr_text_in_database): the worker never replaces a correction.
CorrectionSurvives ==
    [][\A i \in Rows \cap DOMAIN jobs' :
         worker.pc = "mark" /\ worker'.pc = "loop" /\ jobs[i].text = "corrected"
           => jobs'[i].text = "corrected"]_vars
=============================================================================

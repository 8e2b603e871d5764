--------------------------- MODULE SignalSamplePool ---------------------------
(***************************************************************************)
(* aetus_signal_sample_pool.c: the statistics of the heap blocks that hold *)
(* the samples of queued signal frames.  Every operator is the body of one *)
(* critical section of the file, a function from the statistics before it *)
(* to the statistics after it; the callers' interleaving is in AetusUpload. *)
(* The uint32_t counters are taken as unbounded naturals.                  *)
(***************************************************************************)
EXTENDS Naturals

\* Every counter of aetus_signal_sample_pool_stats_t.
StatsType ==
    [allocated_blocks : Nat, peak_allocated_blocks : Nat,
     allocation_count : Nat, release_count : Nat,
     allocation_failure_count : Nat,
     queue_send_failure_release_count : Nat,
     validation_failure_release_count : Nat,
     upload_success_release_count : Nat,
     final_drop_release_count : Nat,
     allocated_bytes : Nat, peak_allocated_bytes : Nat]

\* aetus_signal_sample_pool_reset
ResetStats ==
    [allocated_blocks |-> 0, peak_allocated_blocks |-> 0,
     allocation_count |-> 0, release_count |-> 0,
     allocation_failure_count |-> 0,
     queue_send_failure_release_count |-> 0,
     validation_failure_release_count |-> 0,
     upload_success_release_count |-> 0,
     final_drop_release_count |-> 0,
     allocated_bytes |-> 0, peak_allocated_bytes |-> 0]

\* The larger of a running peak and the level that has just been reached.
PeakOf(peak, level) == IF level > peak THEN level ELSE peak

\* signal_sample_pool_note_alloc
NoteAlloc(st, size) ==
    LET blocks == st.allocated_blocks + 1
        bytes  == st.allocated_bytes + size
    IN  [st EXCEPT !.allocated_blocks = blocks,
                   !.allocation_count = @ + 1,
                   !.allocated_bytes = bytes,
                   !.peak_allocated_blocks = PeakOf(@, blocks),
                   !.peak_allocated_bytes = PeakOf(@, bytes)]

\* Mutant of NoteRelease: the last bytes are never given back.
NoteReleaseKeepsLastBytes(st, size) ==
    [st EXCEPT !.allocated_blocks = IF @ > 0 THEN @ - 1 ELSE @,
               !.allocated_bytes = IF @ > size THEN @ - size ELSE @,
               !.release_count = @ + 1]

\* signal_sample_pool_note_release: both levels saturate at zero.
NoteRelease(st, size) ==
    [st EXCEPT !.allocated_blocks = IF @ > 0 THEN @ - 1 ELSE @,
               !.allocated_bytes = IF @ >= size THEN @ - size ELSE 0,
               !.release_count = @ + 1]

\* The failure branches of aetus_signal_sample_pool_alloc.
NoteAllocFailure(st) == [st EXCEPT !.allocation_failure_count = @ + 1]

\* aetus_signal_sample_pool_note_queue_send_failure
NoteQueueSendFailure(st) == [st EXCEPT !.queue_send_failure_release_count = @ + 1]

\* aetus_signal_sample_pool_note_validation_failure
NoteValidationFailure(st) == [st EXCEPT !.validation_failure_release_count = @ + 1]

\* aetus_signal_sample_pool_note_upload_success
NoteUploadSuccess(st) == [st EXCEPT !.upload_success_release_count = @ + 1]

\* aetus_signal_sample_pool_note_final_drop
NoteFinalDrop(st) == [st EXCEPT !.final_drop_release_count = @ + 1]
===============================================================================

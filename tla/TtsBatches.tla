------------------------------ MODULE TtsBatches ------------------------------
(***************************************************************************)
(* From selected lines to stored audio: the tables directed_lines,         *)
(* generated_audio, generation_failures and tts_batches, the jobs that     *)
(* Inworld runs, and the tasks of one `generate` run: it first resumes     *)
(* the batches an earlier run left RUNNING, then gives each voice a        *)
(* provider voice, directs its lines, plans, submits and completes         *)
(* batches.  Between runs the attribution stage may withdraw lines.        *)
(*                                                                         *)
(* A line is a row identity (DirectedLineRecord.id_for): one dialogue line *)
(* as one voice says it.  Texts, languages and the encoding of audio are   *)
(* left out, and so are the concurrency limits, which only remove          *)
(* interleavings.  How a voice gets its binding is VoiceProvisioning's.    *)
(***************************************************************************)
EXTENDS FiniteSets, Integers

CONSTANTS
  Voices,       \* character voice ids
  Narrator,     \* the logical voice of narration
  Sparse,       \* the voices synthesised together, after all the others
  Lines,        \* rows of directed_lines and generated_audio
  VoiceOf,      \* the character voice each line belongs to
  ProviderIds,  \* Inworld voice ids
  Ops,          \* operation names (a bound: names nothing refers to are used again)
  BatchLimit,   \* lines a batch may hold
  DirectSize,   \* DIRECTION_WRITE_BATCH_SIZE
  FlushSize,    \* AUDIO_WRITE_BATCH_SIZE
  MaxFaults,    \* crashes and failed calls of a behaviour (a bound)
  None          \* no row

Logical == Voices \cup {Narrator}

(* A recording names its voice and its batch.  A job is what the provider  *)
(* keeps of an operation.                                                  *)
AudioRows == [label : ProviderIds, spoken : ProviderIds, op : Ops]
JobRows == [spoken : UNION {[S -> ProviderIds] : S \in SUBSET Lines},
            status : {"pending", "error", "done"}, good : SUBSET Lines]

ASSUME ConstantsAssumption ==
  /\ Narrator \notin Voices /\ Sparse \subseteq Voices
  /\ VoiceOf \in [Lines -> Voices]
  /\ BatchLimit \in Nat \ {0} /\ DirectSize \in Nat \ {0} /\ FlushSize \in Nat \ {0} /\ MaxFaults \in Nat
  /\ None \notin ProviderIds \cup AudioRows \cup JobRows

VARIABLES
  (* the generation tables                                                 *)
  bound,      \* the provider voice of each logical voice
  directed,   \* directed_lines: who speaks the line, "character" or "narrator"
  audio,      \* generated_audio: label (inworld_voice_id), op, and, as a history,
              \*   the provider voice that really spoke
  failed,     \* generation_failures of lines: <<"direction" or "audio", line>>
  batches,    \* tts_batches: the status of each operation
  (* the provider                                                          *)
  jobs,       \* per operation: who speaks each of its lines, and which of them succeeded
  (* the process: the locals of one generate run                           *)
  phase,      \* "idle", "resume" or "generate"
  selected,   \* the lines of its workloads
  inFlight,   \* running_audio_ids
  pc, ready,  \* where each process task is; the voices that got a provider voice
  tried,      \* lines this run has tried to direct
  planned,    \* items packed into batches that are not submitted yet
  label,      \* the snapshot `voices`: the provider voice of each line's speaker
  at,         \* where the task of each operation is
  left, held, \* results it has not looked at; records it has not written
  bad,        \* the operations with a failed item
  faults

rows    == <<bound, directed, audio, failed>>
tables  == <<rows, batches>>
run     == <<selected, inFlight, phase>>
voices  == <<pc, ready, tried>>
workers == <<at, left, held, bad>>
vars    == <<tables, jobs, run, voices, planned, label, workers, faults>>

-----------------------------------------------------------------------------
Fault == faults < MaxFaults /\ faults' = faults + 1

LinesOf(V)  == {l \in Lines : VoiceOf[l] \in V}
BatchOf(op) == IF jobs[op] = None THEN {} ELSE DOMAIN jobs[op].spoken
Running(op) == batches[op] = "running"
LiveLines   == UNION {BatchOf(op) : op \in {o \in Ops : at[o] # "off"}}
RunningIds  == UNION {BatchOf(op) : op \in {o \in Ops : Running(o)}}

(* The logical voice that says a directed line.                            *)
Speaker(l) == IF directed[l] = "narrator" THEN Narrator ELSE VoiceOf[l]

Failures(stage, L) == {<<stage, l>> : l \in L}

(* _record_failures and _clear_failures of a stage                         *)
RecordFailures(stage, L) == failed' = failed \cup Failures(stage, L)
ClearFailures(stage, L) == failed' = failed \ Failures(stage, L)

(* _wait_for_all: no task of an operation is left.                         *)
AllSettled == \A op \in Ops : at[op] = "off"

(* poll_operation returns when the provider says that the job is done.     *)
OperationDone(op) == jobs[op].status # "pending"

(* An operation name that no row, no live job and no task refers to; any   *)
(* of them will do, they are interchangeable.                              *)
Unused(op) == /\ ~Running(op) /\ at[op] = "off"
              /\ \A l \in Lines : audio[l] # None => audio[l].op # op

WithoutAudio(V) == [l \in Lines |-> IF VoiceOf[l] \in V THEN None ELSE audio[l]]

Idle == /\ phase' = "idle"
        /\ selected' = {} /\ inFlight' = {} /\ ready' = {} /\ tried' = {} /\ planned' = {}
        /\ bad' = {}
        /\ pc' = [v \in Voices |-> "off"]
        /\ label' = [l \in Lines |-> None]
        /\ at' = [op \in Ops |-> "off"]
        /\ left' = [op \in Ops |-> {}] /\ held' = [op \in Ops |-> {}]

Init ==
  /\ bound = [v \in Logical |-> None]
  /\ directed = [l \in Lines |-> None] /\ audio = [l \in Lines |-> None]
  /\ failed = {}
  /\ batches = [op \in Ops |-> "none"] /\ jobs = [op \in Ops |-> None]
  /\ phase = "idle"
  /\ selected = {} /\ inFlight = {} /\ ready = {} /\ tried = {} /\ planned = {} /\ bad = {}
  /\ pc = [v \in Voices |-> "off"]
  /\ label = [l \in Lines |-> None]
  /\ at = [op \in Ops |-> "off"]
  /\ left = [op \in Ops |-> {}] /\ held = [op \in Ops |-> {}]
  /\ faults = 0

-----------------------------------------------------------------------------
(* A run: resume what is RUNNING, then process the workloads               *)

ResumedUntouched ==
  {op \in Ops : Running(op) /\ \A l \in BatchOf(op) : audio[l] = None}

Resumed == {op \in Ops : Running(op)}

(* _resume_batches reads directions and voices once, before it polls.      *)
StartRun ==
  /\ phase = "idle" /\ phase' = "resume"
  /\ selected' \in (SUBSET Lines) \ {{}}
  /\ at' = [op \in Ops |-> IF op \in Resumed THEN "poll" ELSE "off"]
  /\ label' = [l \in Lines |-> IF directed[l] = None THEN None ELSE bound[Speaker(l)]]
  /\ batches' = [op \in Ops |-> IF Running(op) THEN "running" ELSE "none"]   \* see Done
  /\ UNCHANGED <<rows, jobs, inFlight, voices, planned, left, held, bad, faults>>

(* A batch whose polling failed is RUNNING still: its lines stay in flight. *)
EndResume ==
  /\ phase = "resume" /\ AllSettled
  /\ phase' = "generate"
  /\ inFlight' = RunningIds
  /\ pc' = [v \in Voices |-> IF LinesOf({v}) \cap selected = {} THEN "off" ELSE "queued"]
  /\ UNCHANGED <<tables, jobs, selected, ready, tried, planned, label, workers, faults>>

EndRun ==
  /\ phase = "generate" /\ planned = {} /\ AllSettled
  /\ \A v \in Voices : pc[v] \in {"off", "spoken"}
  /\ Idle
  /\ UNCHANGED <<tables, jobs, faults>>

(* A job whose operation was not recorded yet is never heard of again.     *)
Crash ==
  /\ phase # "idle" /\ Fault /\ Idle
  /\ jobs' = [op \in Ops |-> IF Running(op) THEN jobs[op] ELSE None]
  /\ UNCHANGED tables

-----------------------------------------------------------------------------
(* A provider voice for the workload (_ensure_character_voice in outline)  *)

KeepVoice(v) ==
  /\ pc[v] = "queued" /\ bound[v] # None
  /\ pc' = [pc EXCEPT ![v] = "direct"] /\ ready' = ready \cup {v}
  /\ UNCHANGED <<tables, jobs, run, tried, planned, label, workers, faults>>

(* assign_voice: the audio goes when the provider voice changes.           *)
RebindKeepingAudio(v) ==
  /\ pc[v] = "queued"
  /\ \E p \in ProviderIds \ {bound[v]} : bound' = [bound EXCEPT ![v] = p]
  /\ pc' = [pc EXCEPT ![v] = "direct"] /\ ready' = ready \cup {v}
  /\ UNCHANGED <<directed, audio, failed, batches, jobs, run, tried, planned, label, workers, faults>>

RebindVoice(v) ==
  /\ pc[v] = "queued"
  /\ \E p \in ProviderIds \ {bound[v]} : bound' = [bound EXCEPT ![v] = p]
  /\ audio' = IF bound[v] = None THEN audio ELSE WithoutAudio({v})
  /\ pc' = [pc EXCEPT ![v] = "direct"] /\ ready' = ready \cup {v}
  /\ UNCHANGED <<directed, failed, batches, jobs, run, tried, planned, label, workers, faults>>

(* --recreate-voices: delete_voice_generation takes the assignment, the    *)
(* audio and every failure; then a new voice comes, or its creation fails. *)
RecreateVoice(v) ==
  /\ pc[v] = "queued"
  /\ \E p \in ProviderIds \cup {None} :
       /\ bound' = [bound EXCEPT ![v] = p]
       /\ ready' = IF p = None THEN ready ELSE ready \cup {v}
  /\ audio' = WithoutAudio({v})
  /\ failed' = {f \in failed : VoiceOf[f[2]] # v}
  /\ pc' = [pc EXCEPT ![v] = "direct"]
  /\ UNCHANGED <<directed, batches, jobs, run, tried, planned, label, workers, faults>>

VoiceFails(v) ==
  /\ pc[v] = "queued"
  /\ pc' = [pc EXCEPT ![v] = "direct"]
  /\ UNCHANGED <<tables, jobs, run, ready, tried, planned, label, workers, faults>>

-----------------------------------------------------------------------------
(* _direct_workload: the missing lines, a few at a time, are directed or   *)
(* their failures kept; what was directed loses its earlier failure.       *)

Missing(v) == {l \in selected \cap LinesOf({v}) : directed[l] = None /\ l \notin tried}

WriteDirections(v) ==
  /\ pc[v] = "direct"
  /\ \E chunk \in SUBSET Missing(v) :
       /\ Cardinality(chunk) = DirectSize \/ (chunk = Missing(v) /\ Cardinality(chunk) < DirectSize)
       /\ \E kind \in [chunk -> {"character", "narrator", None}] :
            /\ directed' = [l \in Lines |-> IF l \in chunk THEN kind[l] ELSE directed[l]]
            /\ RecordFailures("direction", {l \in chunk : kind[l] = None})
       /\ tried' = tried \cup chunk
  /\ pc' = [pc EXCEPT ![v] = "clear"]
  /\ UNCHANGED <<bound, audio, batches, jobs, run, ready, planned, label, workers, faults>>

ClearDirectionFailures(v) ==
  /\ pc[v] = "clear"
  /\ ClearFailures("direction", {l \in tried \cap LinesOf({v}) : directed[l] # None})
  /\ pc' = [pc EXCEPT ![v] = IF Missing(v) # {} THEN "direct"
                             ELSE IF v \in ready THEN "speak" ELSE "spoken"]
  /\ UNCHANGED <<bound, directed, audio, batches, jobs, run, ready, tried, planned, label, workers,
                 faults>>

-----------------------------------------------------------------------------
(* _synthesize_workloads: one workload, or all the sparse ones at the end  *)

Workloads == {{v} : v \in Voices \ Sparse} \cup {Sparse \cap ready}

MyTurn(W) ==
  /\ W # {} /\ \A v \in W : pc[v] = "speak"
  /\ W \subseteq Sparse =>
       /\ planned \cup LiveLines = {}
       /\ \A v \in Voices \ W : pc[v] \in {"off", "spoken"}

(* What is directed, has no audio and is in no batch of an earlier run.    *)
PendingWithoutRunning(W) ==
  {l \in selected \cap LinesOf(W) : directed[l] # None /\ audio[l] = None}

PendingWithAudio(W) ==
  {l \in selected \cap LinesOf(W) : directed[l] # None /\ l \notin inFlight}

Pending(W) ==
  {l \in selected \cap LinesOf(W) : directed[l] # None /\ audio[l] = None /\ l \notin inFlight}

Schedule(items, narratorVoice, W) ==
  /\ planned' = planned \cup items
  /\ label' = [l \in Lines |-> IF l \notin items THEN label[l]
                               ELSE IF Speaker(l) = Narrator THEN narratorVoice
                               ELSE bound[Speaker(l)]]
  /\ pc' = [v \in Voices |-> IF v \in W THEN "spoken" ELSE pc[v]]

PlanBeforeNarrator(W) ==
  /\ MyTurn(W)
  /\ Schedule(Pending(W), bound[Narrator], W)
  /\ UNCHANGED <<rows, batches, jobs, run, ready, tried, workers, faults>>

(* The narrator's voice is there already, or is made now.                  *)
Plan(W) ==
  LET narration == {l \in Pending(W) : Speaker(l) = Narrator} IN
  /\ MyTurn(W)
  /\ \E p \in IF narration = {} \/ bound[Narrator] # None THEN {bound[Narrator]} ELSE ProviderIds :
       /\ bound' = [bound EXCEPT ![Narrator] = p]
       /\ Schedule(Pending(W), p, W)
  /\ UNCHANGED <<directed, audio, failed, batches, jobs, run, ready, tried, workers, faults>>

(* It cannot be made: its lines fail, the others go on.                    *)
PlanWithoutNarrator(W) ==
  LET narration == {l \in Pending(W) : Speaker(l) = Narrator} IN
  /\ MyTurn(W) /\ narration # {} /\ bound[Narrator] = None
  /\ RecordFailures("audio", narration)
  /\ Schedule(Pending(W) \ narration, None, W)
  /\ UNCHANGED <<bound, directed, audio, batches, jobs, run, ready, tried, workers, faults>>
-----------------------------------------------------------------------------
(* A batch is submitted, recorded, polled, saved and closed                *)

SameWorkload(S) == \E W \in Workloads : S \subseteq LinesOf(W)

Batches(L) == {S \in (SUBSET L) \ {{}} : Cardinality(S) <= BatchLimit /\ SameWorkload(S)}

Submit(op) ==
  /\ Unused(op) /\ op = CHOOSE o \in Ops : Unused(o)
  /\ \E S \in Batches(planned) :
       /\ jobs' = [jobs EXCEPT ![op] = [spoken |-> [l \in S |-> label[l]],
                                         status |-> "pending", good |-> {}]]
       /\ planned' = planned \ S
  /\ at' = [at EXCEPT ![op] = "record"]
  /\ UNCHANGED <<tables, run, voices, label, left, held, bad, faults>>

(* Whether or not the provider took the job, its operation is not known.   *)
SubmitFails ==
  /\ \E S \in Batches(planned) :
       /\ RecordFailures("audio", S)
       /\ planned' = planned \ S
  /\ Fault
  /\ UNCHANGED <<bound, directed, audio, batches, jobs, run, voices, label, workers>>

RecordBatch(op) ==
  /\ at[op] = "record"
  /\ batches' = [batches EXCEPT ![op] = "running"]
  /\ at' = [at EXCEPT ![op] = "poll"]
  /\ UNCHANGED <<rows, jobs, run, voices, planned, label, left, held, bad, faults>>

(* The provider ends a job: an error, or a manifest with one result a line. *)
JobEnds(op) ==
  /\ jobs[op] # None /\ jobs[op].status = "pending"
  /\ \/ jobs' = [jobs EXCEPT ![op].status = "error"]
     \/ \E good \in SUBSET BatchOf(op) :
          jobs' = [jobs EXCEPT ![op].status = "done", ![op].good = good]
  /\ UNCHANGED <<tables, run, voices, planned, label, workers, faults>>

(* Lines that got their audio before an interruption are not saved again.  *)
Poll(op) ==
  /\ at[op] = "poll" /\ OperationDone(op)
  /\ IF jobs[op].status = "error"
     THEN /\ RecordFailures("audio", BatchOf(op))
          /\ at' = [at EXCEPT ![op] = "fail"]
          /\ UNCHANGED left
     ELSE /\ left' = [left EXCEPT ![op] = {l \in BatchOf(op) : audio[l] = None}]
          /\ at' = [at EXCEPT ![op] = "save"]
          /\ UNCHANGED failed
  /\ UNCHANGED <<bound, directed, audio, batches, jobs, run, voices, planned, label, held, bad, faults>>

(* Polling or the download of the manifest fails: the batch stays RUNNING. *)
PollFails(op) ==
  /\ at[op] = "poll" /\ Fault
  /\ RecordFailures("audio", BatchOf(op))
  /\ at' = [at EXCEPT ![op] = "off"]
  /\ UNCHANGED <<bound, directed, audio, batches, jobs, run, voices, planned, label, left, held, bad>>

(* Nothing reads a closed batch or its job again: the name may be used for *)
(* another, and the model forgets the row when the next run starts.        *)
Done(op) == /\ at' = [at EXCEPT ![op] = "off"]
            /\ jobs' = [jobs EXCEPT ![op] = None]
            /\ bad' = bad \ {op}

CloseFailed(op) ==
  /\ at[op] = "fail"
  /\ batches' = [batches EXCEPT ![op] = "failed"]
  /\ Done(op)
  /\ UNCHANGED <<rows, run, voices, planned, label, left, held, faults>>

ItemFails(op, l) ==
  \/ (l \notin jobs[op].good \/ label[l] = None) /\ UNCHANGED faults
  \/ Fault                                  \* the audio cannot be downloaded or encoded

(* One result: audio, unless the item failed or its voice is unknown.      *)
SaveResult(op) ==
  /\ at[op] = "save" /\ Cardinality(held[op]) < FlushSize
  /\ \E l \in left[op] :
       /\ l \in jobs[op].good /\ label[l] # None
       /\ held' = [held EXCEPT ![op] = @ \cup {l}]
       /\ left' = [left EXCEPT ![op] = @ \ {l}]
  /\ UNCHANGED <<tables, jobs, run, voices, planned, label, at, bad, faults>>

DropResult(op) ==
  /\ at[op] = "save" /\ Cardinality(held[op]) < FlushSize
  /\ \E l \in left[op] :
       /\ ItemFails(op, l)
       /\ left' = [left EXCEPT ![op] = @ \ {l}]
  /\ UNCHANGED <<tables, jobs, run, voices, planned, label, at, held, bad>>

FailResult(op) ==
  /\ at[op] = "save" /\ Cardinality(held[op]) < FlushSize
  /\ \E l \in left[op] :
       /\ ItemFails(op, l)
       /\ RecordFailures("audio", {l})
       /\ left' = [left EXCEPT ![op] = @ \ {l}]
  /\ bad' = bad \cup {op}
  /\ UNCHANGED <<bound, directed, audio, batches, jobs, run, voices, planned, label, at, held>>

(* upsert_generated_audio, when enough records are held and at the end.    *)
Flush(op) ==
  /\ at[op] = "save" /\ (Cardinality(held[op]) = FlushSize \/ left[op] = {})
  /\ audio' = [l \in Lines |->
                 IF l \in held[op]
                 THEN [label |-> label[l], spoken |-> jobs[op].spoken[l], op |-> op]
                 ELSE audio[l]]
  /\ at' = [at EXCEPT ![op] = "clear"]
  /\ UNCHANGED <<bound, directed, failed, batches, jobs, run, voices, planned, label, left, held, bad,
                 faults>>

ClearAudioFailures(op) ==
  /\ at[op] = "clear"
  /\ ClearFailures("audio", held[op])
  /\ held' = [held EXCEPT ![op] = {}]
  /\ at' = [at EXCEPT ![op] = IF left[op] = {} THEN "close" ELSE "save"]
  /\ UNCHANGED <<bound, directed, audio, batches, jobs, run, voices, planned, label, left, bad, faults>>

Close(op) ==
  /\ at[op] = "close"
  /\ batches' = [batches EXCEPT ![op] = IF op \in bad THEN "partial" ELSE "complete"]
  /\ Done(op)
  /\ UNCHANGED <<rows, run, voices, planned, label, left, held, faults>>

-----------------------------------------------------------------------------
(* _reconcile_generation as these tables see it: some voices, and some     *)
(* lines, are published no more; it refuses while a RUNNING batch holds a  *)
(* line that would go.                                                     *)
Withdraw(V, L) ==
  /\ bound' = [v \in Logical |-> IF v \in V THEN None ELSE bound[v]]
  /\ directed' = [l \in Lines |-> IF l \in L THEN None ELSE directed[l]]
  /\ audio' = [l \in Lines |-> IF l \in L THEN None ELSE audio[l]]
  /\ failed' = {f \in failed : f[2] \notin L}
  /\ UNCHANGED <<batches, jobs, run, voices, planned, label, workers, faults>>

ReconcileUnguarded ==
  /\ phase = "idle"
  /\ \E V \in SUBSET Voices, more \in SUBSET Lines : Withdraw(V, LinesOf(V) \cup more)

Reconcile ==
  /\ phase = "idle"
  /\ \E V \in SUBSET Voices, more \in SUBSET Lines :
       LET L == LinesOf(V) \cup more IN
       /\ RunningIds \cap {l \in L : directed[l] # None \/ audio[l] # None} = {}
       /\ Withdraw(V, L)

-----------------------------------------------------------------------------
VoiceStep(v) == \/ KeepVoice(v) \/ RebindVoice(v) \/ RecreateVoice(v) \/ VoiceFails(v)
                \/ WriteDirections(v) \/ ClearDirectionFailures(v)

PlanStep(W) == Plan(W) \/ PlanWithoutNarrator(W)

BatchStep(op) ==
  \/ Submit(op) \/ RecordBatch(op) \/ Poll(op) \/ PollFails(op) \/ CloseFailed(op)
  \/ SaveResult(op) \/ FailResult(op) \/ Flush(op) \/ ClearAudioFailures(op) \/ Close(op)

Next ==
  \/ StartRun \/ EndResume \/ EndRun \/ Crash \/ SubmitFails \/ Reconcile
  \/ \E v \in Voices : VoiceStep(v)
  \/ \E W \in Workloads : PlanStep(W)
  \/ \E op \in Ops : BatchStep(op) \/ JobEnds(op)

Spec == Init /\ [][Next]_vars

(* The tasks of a run that wait for nothing go on, and Inworld ends every  *)
(* job it took; WF of StartRun says that the user runs `generate` again.   *)
FairSpec ==
  /\ Spec
  /\ WF_vars(StartRun) /\ WF_vars(EndResume) /\ WF_vars(EndRun)
  /\ \A v \in Voices : WF_vars(VoiceStep(v))
  /\ WF_vars(\E W \in Workloads : PlanStep(W))
  /\ \A op \in Ops : WF_vars(BatchStep(op)) /\ WF_vars(JobEnds(op))

-----------------------------------------------------------------------------
(* Properties                                                              *)

(* Rows: a direction is of the character or of the narrator; a line has a  *)
(* failure for each stage.                                                 *)
DirectedRows == {"character", "narrator"}
FailureRows == {"direction", "audio"} \X Lines
BatchRows == {"running", "complete", "partial", "failed"}

TypeOK ==
  /\ bound \in [Logical -> ProviderIds \cup {None}]
  /\ directed \in [Lines -> DirectedRows \cup {None}]
  /\ audio \in [Lines -> AudioRows \cup {None}]
  /\ failed \subseteq FailureRows
  /\ batches \in [Ops -> BatchRows \cup {"none"}]
  /\ jobs \in [Ops -> JobRows \cup {None}]
  /\ \A op \in Ops : Running(op) \/ at[op] # "off" => jobs[op] # None
  /\ phase \in {"idle", "resume", "generate"}
  /\ selected \in SUBSET Lines /\ inFlight \in SUBSET Lines
  /\ tried \in SUBSET Lines /\ planned \in SUBSET Lines /\ ready \in SUBSET Voices
  /\ pc \in [Voices -> {"off", "queued", "direct", "clear", "speak", "spoken"}]
  /\ label \in [Lines -> ProviderIds \cup {None}]
  /\ at \in [Ops -> {"off", "record", "poll", "save", "clear", "fail", "close"}]
  /\ left \in [Ops -> SUBSET Lines] /\ held \in [Ops -> SUBSET Lines] /\ bad \in SUBSET Ops
  /\ faults \in 0..MaxFaults

(* No line is in two batches that are RUNNING or about to be recorded: it  *)
(* is not synthesised, and paid for, again while an earlier job may still  *)
(* deliver it (running_audio_ids).                                         *)
NoLineTwiceInFlight ==
  \A o, p \in Ops : o # p /\ (Running(o) \/ at[o] # "off") /\ (Running(p) \/ at[p] # "off")
                     => BatchOf(o) \cap BatchOf(p) = {}

(* What _complete_batch indexes without a check: every line of a RUNNING   *)
(* batch still has its direction (the guard of _reconcile_generation).     *)
RunningBatchDirected == \A l \in RunningIds : directed[l] # None

(* Audio of a line of a RUNNING batch was written by that very batch, so   *)
(* skipping it when the batch is resumed loses nothing.                    *)
RunningBatchOwnsAudio ==
  \A op \in Ops : Running(op) =>
    \A l \in BatchOf(op) : audio[l] # None => audio[l].op = op

(* When a batch is closed, every line of it has its audio or a failure     *)
(* that says why not, and a batch that is COMPLETE has no such line.       *)
ClosedBatchAccounted ==
  [][\A op \in Ops : Running(op) /\ ~Running(op)' =>
       \A l \in BatchOf(op) :
         audio'[l] # None \/ (batches'[op] # "complete" /\ <<"audio", l>> \in failed')]_vars

(* Every RUNNING batch is closed, if `generate` is run again and again.    *)
EveryBatchCloses == \A op \in Ops : Running(op) ~> ~Running(op)

(* Recordings are labelled with the present binding, as the store says.    *)
Ledger == INSTANCE VoiceLedger WITH
  recorded <- [v \in Logical |-> {audio[l].label : l \in
                 {k \in Lines : audio[k] # None /\ Speaker(k) = v}}]

LedgerSpec == Ledger!Spec

(* "Assign a profile and invalidate audio when the provider voice changes" *)
(* (assign_voice): what a character is heard with is what was really       *)
(* spoken by the provider voice it is bound to.                            *)
SpokenByBound ==
  \A l \in Lines : audio[l] # None => audio[l].spoken = bound[Speaker(l)]
=============================================================================

--------------------------- MODULE TtsBatchesProofs ---------------------------
(***************************************************************************)
(* What holds of batches, recordings and failures in every interleaving of *)
(* the tasks of a run, for any number of voices, lines and operations, any *)
(* sizes of batches and writes, and crashes and failed calls anywhere:     *)
(* types; no line in two batches in flight; the lines of a RUNNING batch   *)
(* stay directed and their audio is the batch's own; a closed batch is     *)
(* accounted for; recordings are labelled with the present binding.        *)
(*                                                                         *)
(* The invariant says besides whose a line is.  A run hands each voice's   *)
(* lines out once: what is planned, or in a batch this run submitted, is   *)
(* of a voice it is done with (Handed), hence of none whose binding, audio *)
(* or failures a task may still take away; what is in a batch of an        *)
(* earlier run is in running_audio_ids, hence never planned.               *)
(***************************************************************************)
EXTENDS TtsBatches, TLAPS

InFlight(op) == Running(op) \/ at[op] # "off"

(* A run's locals exist only while it runs.                                *)
Phased ==
  /\ phase # "generate" => planned = {} /\ ready = {} /\ \A v \in Voices : pc[v] = "off"
  /\ phase = "idle" => \A op \in Ops : at[op] = "off"

(* A voice that is ready has a provider voice; it got it when it left the  *)
(* queue.                                                                  *)
Voiced ==
  /\ \A v \in ready : bound[v] # None
  /\ \A v \in Voices : (pc[v] = "queued" => v \notin ready) /\ (pc[v] = "speak" => v \in ready)

(* What a task has yet to look at, and the records it holds, are of its    *)
(* batch; records have a label and are stored before failures are cleared. *)
Held ==
  \A op \in Ops :
    /\ held[op] \subseteq BatchOf(op)
    /\ IF at[op] \in {"save", "clear"} THEN left[op] \subseteq BatchOf(op) ELSE held[op] = {}
    /\ \A l \in held[op] : label[l] # None
    /\ at[op] = "clear" => \A l \in held[op] : audio[l] # None

(* Lines are in one place only.                                            *)
Disjoint ==
  /\ NoLineTwiceInFlight
  /\ \A op \in Ops : InFlight(op) => BatchOf(op) \cap planned = {}

(* What a run has planned or submitted is of voices it is done with; what  *)
(* else is in flight it knows.                                             *)
Handed ==
  phase = "generate" =>
    /\ \A l \in planned : pc[VoiceOf[l]] = "spoken"
    /\ \A op \in Ops : at[op] # "off" => \A l \in BatchOf(op) : pc[VoiceOf[l]] = "spoken"
    /\ \A op \in Ops : Running(op) =>
         \A l \in BatchOf(op) : l \in inFlight \/ pc[VoiceOf[l]] = "spoken"

(* Lines in a batch are directed and have no audio but the batch's.        *)
Owned ==
  /\ \A l \in planned : directed[l] # None /\ audio[l] = None
  /\ \A op \in Ops : InFlight(op) =>
       \A l \in BatchOf(op) : directed[l] # None /\ (audio[l] # None => audio[l].op = op)

(* The snapshot of provider voices a task works with is the present one.   *)
Snapshot ==
  /\ \A l \in planned : label[l] # None /\ label[l] = bound[Speaker(l)]
  /\ \A op \in Ops : at[op] # "off" =>
       \A l \in BatchOf(op) : /\ label[l] = bound[Speaker(l)]
                              /\ phase = "generate" => label[l] # None

(* Recordings are of directed lines and labelled with the present binding. *)
Labelled ==
  \A l \in Lines : audio[l] # None => directed[l] # None /\ audio[l].label = bound[Speaker(l)]

(* Where each line of a batch is while its results are saved.              *)
AccountedFor(op, l) ==
  /\ at[op] = "fail" => <<"audio", l>> \in failed
  /\ at[op] \in {"save", "clear", "close"} =>
       \/ audio[l] # None
       \/ at[op] # "close" /\ l \in left[op] \cup held[op]
       \/ op \in bad /\ <<"audio", l>> \in failed

Accounted == \A op \in Ops : \A l \in BatchOf(op) : AccountedFor(op, l)

IInv ==
  /\ TypeOK /\ Phased /\ Voiced /\ Held /\ Disjoint /\ Handed /\ Owned /\ Snapshot /\ Labelled
  /\ Accounted

-----------------------------------------------------------------------------
(* Batches                                                                 *)

(* A batch holds lines, each spoken by a provider voice.                   *)
LEMMA BatchTyped ==
  ASSUME TypeOK, NEW op \in Ops
  PROVE  /\ BatchOf(op) \subseteq Lines
         /\ \A l \in BatchOf(op) : jobs[op].spoken[l] \in ProviderIds
  BY DEF TypeOK, BatchOf, JobRows

(* The provider's answer does not change what was asked of it.             *)
LEMMA JobEnded ==
  ASSUME TypeOK, NEW op \in Ops, JobEnds(op)
  PROVE  /\ jobs' \in [Ops -> JobRows \cup {None}]
         /\ \A o \in Ops : BatchOf(o)' = BatchOf(o) /\ (jobs'[o] = None <=> jobs[o] = None)
         /\ UNCHANGED <<bound, directed, audio, failed, batches, selected, inFlight, phase, pc,
                         ready, tried, planned, label, at, left, held, bad, faults>>
<1>1. jobs \in [Ops -> JobRows \cup {None}] /\ jobs[op] \in JobRows
  BY DEF TypeOK, JobEnds
<1>2. PICK new : /\ jobs' = [jobs EXCEPT ![op] = new]
                 /\ new \in JobRows /\ new.spoken = jobs[op].spoken
  <2>1. CASE jobs' = [jobs EXCEPT ![op].status = "error"]
    <3>1. jobs' = [jobs EXCEPT ![op] = [jobs[op] EXCEPT !.status = "error"]]
      BY <2>1
    <3>2. /\ [jobs[op] EXCEPT !.status = "error"] \in JobRows
          /\ [jobs[op] EXCEPT !.status = "error"].spoken = jobs[op].spoken
      BY <1>1 DEF JobRows
    <3> QED
      BY <3>1, <3>2
  <2>2. ASSUME NEW good \in SUBSET BatchOf(op),
               jobs' = [jobs EXCEPT ![op].status = "done", ![op].good = good]
        PROVE  \E new : /\ jobs' = [jobs EXCEPT ![op] = new]
                        /\ new \in JobRows /\ new.spoken = jobs[op].spoken
    <3>1. jobs' = [jobs EXCEPT ![op] = [[jobs[op] EXCEPT !.status = "done"] EXCEPT !.good = good]]
      BY <1>1, <2>2
    <3>2. good \in SUBSET Lines
      BY BatchTyped
    <3>3. /\ [[jobs[op] EXCEPT !.status = "done"] EXCEPT !.good = good] \in JobRows
          /\ [[jobs[op] EXCEPT !.status = "done"] EXCEPT !.good = good].spoken = jobs[op].spoken
      BY <1>1, <3>2 DEF JobRows
    <3> QED
      BY <3>1, <3>3
  <2> QED
    BY <2>1, <2>2 DEF JobEnds
<1>3. new # None /\ jobs[op] # None
  BY <1>1, <1>2, ConstantsAssumption
<1> QED
  BY <1>1, <1>2, <1>3 DEF BatchOf, JobEnds, tables, rows, run, voices, workers

(* A submission makes a batch of planned lines, which are planned no more, *)
(* under a name nothing runs under.                                        *)
LEMMA Submitted ==
  ASSUME TypeOK, Snapshot, NEW op \in Ops, Submit(op)
  PROVE  /\ planned # {} /\ ~Running(op) /\ at[op] = "off"
         /\ jobs' \in [Ops -> JobRows \cup {None}] /\ jobs'[op] # None
         /\ BatchOf(op)' \subseteq planned /\ planned' = planned \ BatchOf(op)'
         /\ \A o \in Ops : o # op => BatchOf(o)' = BatchOf(o) /\ jobs'[o] = jobs[o]
         /\ at' = [at EXCEPT ![op] = "record"]
         /\ UNCHANGED <<bound, directed, audio, failed, batches, selected, inFlight, phase, pc,
                         ready, tried, label, left, held, bad, faults>>
<1>1. PICK S \in Batches(planned) :
        /\ jobs' = [jobs EXCEPT ![op] = [spoken |-> [l \in S |-> label[l]],
                                         status |-> "pending", good |-> {}]]
        /\ planned' = planned \ S
  BY DEF Submit
<1> DEFINE new == [spoken |-> [l \in S |-> label[l]], status |-> "pending", good |-> {}]
<1>2. S \subseteq planned /\ S # {}
  BY DEF Batches
<1>3. S \in SUBSET Lines /\ [l \in S |-> label[l]] \in [S -> ProviderIds]
  BY <1>2 DEF Snapshot, TypeOK
<1>4. new \in JobRows /\ DOMAIN new.spoken = S
  BY <1>3 DEF JobRows
<1> HIDE DEF new
<1>5. new # None
  BY <1>4, ConstantsAssumption
<1>6. jobs' = [jobs EXCEPT ![op] = new]
  BY <1>1 DEF new
<1>7. BatchOf(op)' = S
  BY <1>4, <1>5, <1>6 DEF TypeOK, BatchOf
<1>8. ~Running(op) /\ at[op] = "off"
  BY DEF Submit, Unused
<1> QED
  BY <1>1, <1>2, <1>4, <1>5, <1>6, <1>7, <1>8 DEF Submit, TypeOK, BatchOf, tables, rows, run, voices

-----------------------------------------------------------------------------
(* What each step keeps                                                    *)

(* The locals of a run are set up and forgotten with it.                   *)
LEMMA PhasedKept ==
  ASSUME TypeOK, Phased, Snapshot, Next
  PROVE  Phased'
<1>1. CASE \/ Reconcile
           \/ \E op \in Ops : JobEnds(op) \/ SaveResult(op) \/ FailResult(op)
  BY <1>1 DEF Reconcile, JobEnds, SaveResult, FailResult, Withdraw, run, voices, workers, Phased
<1>2. CASE StartRun
  BY <1>2 DEF StartRun, voices, Phased
<1>3. CASE EndResume
  BY <1>3 DEF EndResume, Phased
<1>4. CASE EndRun
  BY <1>4 DEF EndRun, Idle, Phased
<1>5. CASE Crash
  BY <1>5 DEF Crash, Idle, Phased
<1>6. CASE SubmitFails
  BY <1>6 DEF SubmitFails, run, voices, workers, Phased
<1>7. ASSUME NEW v \in Voices, KeepVoice(v)
      PROVE  Phased'
  BY <1>7 DEF KeepVoice, run, Phased
<1>8. ASSUME NEW v \in Voices, RebindVoice(v)
      PROVE  Phased'
  BY <1>8 DEF RebindVoice, run, Phased
<1>9. ASSUME NEW v \in Voices, RecreateVoice(v)
      PROVE  Phased'
  BY <1>9 DEF RecreateVoice, run, Phased
<1>10. ASSUME NEW v \in Voices, VoiceFails(v)
      PROVE  Phased'
  BY <1>10 DEF VoiceFails, run, Phased
<1>11. ASSUME NEW v \in Voices, WriteDirections(v)
      PROVE  Phased'
  BY <1>11 DEF WriteDirections, run, Phased
<1>12. ASSUME NEW v \in Voices, ClearDirectionFailures(v)
      PROVE  Phased'
  BY <1>12 DEF ClearDirectionFailures, run, Phased
<1>13. ASSUME NEW W \in Workloads, Plan(W)
      PROVE  Phased'
  BY <1>13, ConstantsAssumption DEF Plan, Schedule, MyTurn, Pending, LinesOf, run, workers,
     Phased
<1>14. ASSUME NEW W \in Workloads, PlanWithoutNarrator(W)
      PROVE  Phased'
  BY <1>14, ConstantsAssumption DEF PlanWithoutNarrator, MyTurn, Pending, LinesOf, run, Phased
<1>15. ASSUME NEW op \in Ops, Submit(op)
      PROVE  Phased'
  BY <1>15, Submitted DEF Phased
<1>16. ASSUME NEW op \in Ops, RecordBatch(op)
      PROVE  Phased'
  BY <1>16 DEF RecordBatch, run, voices, Phased
<1>17. ASSUME NEW op \in Ops, Poll(op)
      PROVE  Phased'
  BY <1>17, BatchTyped DEF Poll, run, voices, Phased
<1>18. ASSUME NEW op \in Ops, PollFails(op)
      PROVE  Phased'
  BY <1>18 DEF PollFails, run, voices, Phased
<1>19. ASSUME NEW op \in Ops, CloseFailed(op)
      PROVE  Phased'
  BY <1>19 DEF CloseFailed, run, voices, Phased
<1>20. ASSUME NEW op \in Ops, Flush(op)
      PROVE  Phased'
  BY <1>20 DEF Flush, run, voices, Phased
<1>21. ASSUME NEW op \in Ops, ClearAudioFailures(op)
      PROVE  Phased'
  BY <1>21 DEF ClearAudioFailures, run, voices, Phased
<1>22. ASSUME NEW op \in Ops, Close(op)
      PROVE  Phased'
  BY <1>22 DEF Close, run, voices, Phased
<1> QED
  BY <1>1, <1>2, <1>3, <1>4, <1>5, <1>6, <1>7, <1>8, <1>9, <1>10, <1>11, <1>12, <1>13, <1>14,
     <1>15, <1>16, <1>17, <1>18, <1>19, <1>20, <1>21, <1>22
     DEF Next, VoiceStep, PlanStep, BatchStep

(* Only a voice that leaves the queue gets, or loses, a binding in a run.  *)
LEMMA VoicedKept ==
  ASSUME TypeOK, Phased, Voiced, Next
  PROVE  Voiced'
<1>1. CASE \/ StartRun \/ SubmitFails
           \/ \E op \in Ops : JobEnds(op) \/ Submit(op) \/ RecordBatch(op) \/ Poll(op)
                           \/ PollFails(op) \/ CloseFailed(op) \/ SaveResult(op)
                           \/ FailResult(op) \/ Flush(op) \/ ClearAudioFailures(op) \/ Close(op)
  BY <1>1 DEF StartRun, SubmitFails, JobEnds, Submit, RecordBatch, Poll, PollFails, CloseFailed,
     SaveResult, FailResult, Flush, ClearAudioFailures, Close, rows, tables, voices, Voiced
<1>2. CASE EndResume
  BY <1>2 DEF EndResume, Voiced, Phased
<1>3. CASE EndRun
  BY <1>3 DEF EndRun, Idle, Voiced
<1>4. CASE Crash
  BY <1>4 DEF Crash, Idle, Voiced
<1>5. CASE Reconcile
  BY <1>5 DEF Reconcile, Withdraw, voices, Voiced, Phased
<1>6. ASSUME NEW v \in Voices, KeepVoice(v)
      PROVE  Voiced'
  BY <1>6 DEF KeepVoice, rows, tables, Voiced, TypeOK
<1>7. ASSUME NEW v \in Voices, RebindVoice(v)
      PROVE  Voiced'
  BY <1>7, ConstantsAssumption DEF RebindVoice, Voiced, TypeOK, Logical
<1>8. ASSUME NEW v \in Voices, RecreateVoice(v)
      PROVE  Voiced'
  BY <1>8 DEF RecreateVoice, Voiced, TypeOK, Logical
<1>9. ASSUME NEW v \in Voices, VoiceFails(v)
      PROVE  Voiced'
  BY <1>9 DEF VoiceFails, rows, tables, Voiced
<1>10. ASSUME NEW v \in Voices, WriteDirections(v)
      PROVE  Voiced'
  BY <1>10 DEF WriteDirections, Voiced
<1>11. ASSUME NEW v \in Voices, ClearDirectionFailures(v)
      PROVE  Voiced'
  BY <1>11 DEF ClearDirectionFailures, Voiced
<1>12. ASSUME NEW W \in Workloads, Plan(W)
      PROVE  Voiced'
  BY <1>12 DEF Plan, Schedule, Voiced
<1>13. ASSUME NEW W \in Workloads, PlanWithoutNarrator(W)
      PROVE  Voiced'
  BY <1>13 DEF PlanWithoutNarrator, Schedule, Voiced
<1> QED
  BY <1>1, <1>2, <1>3, <1>4, <1>5, <1>6, <1>7, <1>8, <1>9, <1>10, <1>11, <1>12, <1>13
     DEF Next, VoiceStep, PlanStep, BatchStep

(* What is held is stored before its failures are cleared, with the label  *)
(* it was held with.                                                       *)
LEMMA HeldKept ==
  ASSUME TypeOK, Phased, Held, Handed, Snapshot, Next
  PROVE  Held'
<1>1. CASE \/ EndResume \/ SubmitFails
           \/ \E v \in Voices : KeepVoice(v) \/ VoiceFails(v) \/ WriteDirections(v)
                             \/ ClearDirectionFailures(v)
  BY <1>1 DEF EndResume, SubmitFails, KeepVoice, VoiceFails, WriteDirections,
     ClearDirectionFailures, rows, tables, workers, BatchOf, Held
<1>2. CASE StartRun
  BY <1>2 DEF StartRun, Held, Phased
<1>3. CASE EndRun
  BY <1>3 DEF EndRun, Idle, Held
<1>4. CASE Crash
  BY <1>4 DEF Crash, Idle, Held
<1>5. CASE Reconcile
  BY <1>5 DEF Reconcile, Withdraw, workers, Held, Phased
<1>6. ASSUME NEW v \in Voices, RebindVoice(v)
      PROVE  Held'
  BY <1>6 DEF RebindVoice, WithoutAudio, workers, Held, TypeOK, Phased, Handed, BatchOf
<1>7. ASSUME NEW v \in Voices, RecreateVoice(v)
      PROVE  Held'
  BY <1>7 DEF RecreateVoice, WithoutAudio, workers, Held, TypeOK, Phased, Handed, BatchOf
<1>8. ASSUME NEW W \in Workloads, Plan(W)
      PROVE  Held'
  BY <1>8 DEF Plan, Schedule, workers, Held, TypeOK, Snapshot, BatchOf
<1>9. ASSUME NEW W \in Workloads, PlanWithoutNarrator(W)
      PROVE  Held'
  BY <1>9 DEF PlanWithoutNarrator, Schedule, workers, Held, TypeOK, Snapshot, BatchOf
<1>10. ASSUME NEW op \in Ops, JobEnds(op)
      PROVE  Held'
  BY <1>10, JobEnded DEF Held
<1>11. ASSUME NEW op \in Ops, Submit(op)
      PROVE  Held'
  BY <1>11, Submitted DEF Held, TypeOK
<1>12. ASSUME NEW op \in Ops, RecordBatch(op)
      PROVE  Held'
  BY <1>12 DEF RecordBatch, rows, Held, BatchOf
<1>13. ASSUME NEW op \in Ops, Poll(op)
      PROVE  Held'
  BY <1>13, BatchTyped DEF Poll, Held, TypeOK, BatchOf
<1>14. ASSUME NEW op \in Ops, PollFails(op)
      PROVE  Held'
  BY <1>14 DEF PollFails, Held, BatchOf
<1>15. ASSUME NEW op \in Ops, CloseFailed(op)
      PROVE  Held'
  BY <1>15 DEF CloseFailed, Done, rows, Held, BatchOf
<1>16. ASSUME NEW op \in Ops, SaveResult(op)
      PROVE  Held'
  BY <1>16 DEF SaveResult, rows, tables, Held, BatchOf
<1>17. ASSUME NEW op \in Ops, FailResult(op)
      PROVE  Held'
  BY <1>17 DEF FailResult, Held, BatchOf
<1>18. ASSUME NEW op \in Ops, Flush(op)
      PROVE  Held'
  BY <1>18, ConstantsAssumption DEF Flush, Held, TypeOK, JobRows, AudioRows, BatchOf
<1>19. ASSUME NEW op \in Ops, ClearAudioFailures(op)
      PROVE  Held'
  BY <1>19 DEF ClearAudioFailures, Held, TypeOK, BatchOf
<1>20. ASSUME NEW op \in Ops, Close(op)
      PROVE  Held'
  BY <1>20 DEF Close, Done, rows, Held, BatchOf
<1> QED
  BY <1>1, <1>2, <1>3, <1>4, <1>5, <1>6, <1>7, <1>8, <1>9, <1>10, <1>11, <1>12, <1>13, <1>14,
     <1>15, <1>16, <1>17, <1>18, <1>19, <1>20
     DEF Next, VoiceStep, PlanStep, BatchStep

(* A line is planned once and submitted once.                              *)
LEMMA DisjointKept ==
  ASSUME TypeOK, Phased, Disjoint, Handed, Snapshot, Next
  PROVE  Disjoint'
<1>1. CASE \/ EndResume \/ Reconcile
           \/ \E v \in Voices : KeepVoice(v) \/ RebindVoice(v) \/ RecreateVoice(v)
                             \/ VoiceFails(v) \/ WriteDirections(v) \/ ClearDirectionFailures(v)
           \/ \E op \in Ops : SaveResult(op) \/ FailResult(op)
  BY <1>1 DEF EndResume, Reconcile, KeepVoice, RebindVoice, RecreateVoice, VoiceFails,
     WriteDirections, ClearDirectionFailures, SaveResult, FailResult, Withdraw, LinesOf,
     WithoutAudio, ClearFailures, tables, workers, NoLineTwiceInFlight, BatchOf, Running,
     InFlight, Disjoint
<1>2. CASE StartRun
  BY <1>2 DEF StartRun, Resumed, Running, Disjoint, NoLineTwiceInFlight, BatchOf, InFlight
<1>3. CASE EndRun
  BY <1>3 DEF EndRun, Idle, tables, Disjoint, NoLineTwiceInFlight, BatchOf, Running
<1>4. CASE Crash
  BY <1>4 DEF Crash, Idle, Disjoint, NoLineTwiceInFlight, BatchOf
<1>5. CASE SubmitFails
  BY <1>5 DEF SubmitFails, workers, Disjoint, NoLineTwiceInFlight, BatchOf, Running, InFlight
<1>6. ASSUME NEW W \in Workloads, Plan(W)
      PROVE  Disjoint'
  BY <1>6, ConstantsAssumption DEF Plan, Schedule, MyTurn, Pending, LinesOf, workers, Disjoint,
     Phased, Handed, NoLineTwiceInFlight, BatchOf, Running, InFlight
<1>7. ASSUME NEW W \in Workloads, PlanWithoutNarrator(W)
      PROVE  Disjoint'
  BY <1>7, ConstantsAssumption DEF PlanWithoutNarrator, Schedule, MyTurn, Pending, LinesOf,
     workers, Disjoint, Phased, Handed, NoLineTwiceInFlight, BatchOf, Running, InFlight
<1>8. ASSUME NEW op \in Ops, JobEnds(op)
      PROVE  Disjoint'
  BY <1>8, JobEnded DEF Disjoint, NoLineTwiceInFlight, Running, InFlight
<1>9. ASSUME NEW op \in Ops, Submit(op)
      PROVE  Disjoint'
  BY <1>9, Submitted DEF Disjoint, TypeOK, NoLineTwiceInFlight, Running, InFlight
<1>10. ASSUME NEW op \in Ops, RecordBatch(op)
      PROVE  Disjoint'
  BY <1>10 DEF RecordBatch, Disjoint, NoLineTwiceInFlight, BatchOf, Running, InFlight
<1>11. ASSUME NEW op \in Ops, Poll(op)
      PROVE  Disjoint'
  BY <1>11, BatchTyped DEF Poll, Disjoint, TypeOK, NoLineTwiceInFlight, BatchOf, Running,
     InFlight
<1>12. ASSUME NEW op \in Ops, PollFails(op)
      PROVE  Disjoint'
  BY <1>12 DEF PollFails, Disjoint, NoLineTwiceInFlight, BatchOf, Running, InFlight
<1>13. ASSUME NEW op \in Ops, CloseFailed(op)
      PROVE  Disjoint'
  BY <1>13 DEF CloseFailed, Done, Disjoint, NoLineTwiceInFlight, BatchOf, Running, InFlight
<1>14. ASSUME NEW op \in Ops, Flush(op)
      PROVE  Disjoint'
  BY <1>14 DEF Flush, Disjoint, NoLineTwiceInFlight, BatchOf, Running, InFlight
<1>15. ASSUME NEW op \in Ops, ClearAudioFailures(op)
      PROVE  Disjoint'
  BY <1>15 DEF ClearAudioFailures, Disjoint, NoLineTwiceInFlight, BatchOf, Running, InFlight
<1>16. ASSUME NEW op \in Ops, Close(op)
      PROVE  Disjoint'
  BY <1>16 DEF Close, Done, Disjoint, NoLineTwiceInFlight, BatchOf, Running, InFlight
<1> QED
  BY <1>1, <1>2, <1>3, <1>4, <1>5, <1>6, <1>7, <1>8, <1>9, <1>10, <1>11, <1>12, <1>13, <1>14,
     <1>15, <1>16
     DEF Next, VoiceStep, PlanStep, BatchStep

(* A voice is done with when its lines are planned.                        *)
LEMMA HandedKept ==
  ASSUME TypeOK, Phased, Handed, Snapshot, Next
  PROVE  Handed'
<1>1. CASE \/ Reconcile
           \/ \E op \in Ops : SaveResult(op) \/ FailResult(op)
  BY <1>1 DEF Reconcile, SaveResult, FailResult, Withdraw, tables, run, voices, BatchOf,
     Running, Handed
<1>2. CASE StartRun
  BY <1>2 DEF StartRun, Handed
<1>3. CASE EndResume
  BY <1>3 DEF EndResume, AllSettled, RunningIds, tables, workers, Handed, Phased, BatchOf,
     Running
<1>4. CASE EndRun
  BY <1>4 DEF EndRun, Idle, Handed
<1>5. CASE Crash
  BY <1>5 DEF Crash, Idle, Handed
<1>6. CASE SubmitFails
  BY <1>6 DEF SubmitFails, run, voices, workers, Handed, BatchOf, Running
<1>7. ASSUME NEW v \in Voices, KeepVoice(v)
      PROVE  Handed'
  BY <1>7 DEF KeepVoice, tables, run, workers, Handed, BatchOf, Running
<1>8. ASSUME NEW v \in Voices, RebindVoice(v)
      PROVE  Handed'
  BY <1>8 DEF RebindVoice, run, workers, Handed, BatchOf, Running
<1>9. ASSUME NEW v \in Voices, RecreateVoice(v)
      PROVE  Handed'
  BY <1>9 DEF RecreateVoice, run, workers, Handed, BatchOf, Running
<1>10. ASSUME NEW v \in Voices, VoiceFails(v)
      PROVE  Handed'
  BY <1>10 DEF VoiceFails, tables, run, workers, Handed, BatchOf, Running
<1>11. ASSUME NEW v \in Voices, WriteDirections(v)
      PROVE  Handed'
  BY <1>11 DEF WriteDirections, run, workers, Handed, BatchOf, Running
<1>12. ASSUME NEW v \in Voices, ClearDirectionFailures(v)
      PROVE  Handed'
  BY <1>12 DEF ClearDirectionFailures, run, workers, Handed, BatchOf, Running
<1>13. ASSUME NEW W \in Workloads, Plan(W)
      PROVE  Handed'
  BY <1>13, ConstantsAssumption DEF Plan, Schedule, Pending, LinesOf, run, workers, Handed,
     TypeOK, JobRows, BatchOf, Running
<1>14. ASSUME NEW W \in Workloads, PlanWithoutNarrator(W)
      PROVE  Handed'
  BY <1>14, ConstantsAssumption DEF PlanWithoutNarrator, Schedule, Pending, LinesOf, run,
     workers, Handed, TypeOK, JobRows, BatchOf, Running
<1>15. ASSUME NEW op \in Ops, JobEnds(op)
      PROVE  Handed'
  BY <1>15, JobEnded DEF Handed, Running
<1>16. ASSUME NEW op \in Ops, Submit(op)
      PROVE  Handed'
  BY <1>16, Submitted DEF Handed, TypeOK, Running
<1>17. ASSUME NEW op \in Ops, RecordBatch(op)
      PROVE  Handed'
  BY <1>17 DEF RecordBatch, run, voices, Handed, BatchOf, Running
<1>18. ASSUME NEW op \in Ops, Poll(op)
      PROVE  Handed'
  BY <1>18, BatchTyped DEF Poll, run, voices, Handed, TypeOK, BatchOf, Running
<1>19. ASSUME NEW op \in Ops, PollFails(op)
      PROVE  Handed'
  BY <1>19 DEF PollFails, run, voices, Handed, BatchOf, Running
<1>20. ASSUME NEW op \in Ops, CloseFailed(op)
      PROVE  Handed'
  BY <1>20 DEF CloseFailed, Done, run, voices, Handed, BatchOf, Running
<1>21. ASSUME NEW op \in Ops, Flush(op)
      PROVE  Handed'
  BY <1>21 DEF Flush, run, voices, Handed, BatchOf, Running
<1>22. ASSUME NEW op \in Ops, ClearAudioFailures(op)
      PROVE  Handed'
  BY <1>22 DEF ClearAudioFailures, run, voices, Handed, BatchOf, Running
<1>23. ASSUME NEW op \in Ops, Close(op)
      PROVE  Handed'
  BY <1>23 DEF Close, Done, run, voices, Handed, BatchOf, Running
<1> QED
  BY <1>1, <1>2, <1>3, <1>4, <1>5, <1>6, <1>7, <1>8, <1>9, <1>10, <1>11, <1>12, <1>13, <1>14,
     <1>15, <1>16, <1>17, <1>18, <1>19, <1>20, <1>21, <1>22, <1>23
     DEF Next, VoiceStep, PlanStep, BatchStep

(* Audio of a line comes from the batch it is in.                          *)
LEMMA OwnedKept ==
  ASSUME TypeOK, Phased, Held, Disjoint, Owned, Snapshot, Next
  PROVE  Owned'
<1>1. CASE \/ EndResume
           \/ \E v \in Voices : KeepVoice(v) \/ VoiceFails(v) \/ ClearDirectionFailures(v)
           \/ \E op \in Ops : SaveResult(op) \/ FailResult(op)
  BY <1>1, ConstantsAssumption DEF EndResume, KeepVoice, VoiceFails, ClearDirectionFailures,
     SaveResult, FailResult, rows, tables, workers, BatchOf, Running, InFlight, Owned
<1>2. CASE StartRun
  BY <1>2 DEF StartRun, Resumed, Running, rows, Owned, BatchOf, InFlight
<1>3. CASE EndRun
  BY <1>3 DEF EndRun, Idle, rows, tables, Owned, BatchOf, Running, InFlight
<1>4. CASE Crash
  BY <1>4 DEF Crash, Idle, rows, tables, Owned, BatchOf, InFlight
<1>5. CASE SubmitFails
  BY <1>5 DEF SubmitFails, workers, Owned, BatchOf, Running, InFlight
<1>6. CASE Reconcile
  BY <1>6 DEF Reconcile, Withdraw, RunningIds, workers, Owned, TypeOK, Phased, JobRows, BatchOf,
     Running, InFlight
<1>7. ASSUME NEW v \in Voices, RebindVoice(v)
      PROVE  Owned'
  BY <1>7 DEF RebindVoice, WithoutAudio, workers, Owned, TypeOK, JobRows, BatchOf, Running,
     InFlight
<1>8. ASSUME NEW v \in Voices, RecreateVoice(v)
      PROVE  Owned'
  BY <1>8 DEF RecreateVoice, WithoutAudio, workers, Owned, TypeOK, JobRows, BatchOf, Running,
     InFlight
<1>9. ASSUME NEW v \in Voices, WriteDirections(v)
      PROVE  Owned'
  BY <1>9 DEF WriteDirections, Missing, workers, Owned, TypeOK, JobRows, BatchOf, Running,
     InFlight
<1>10. ASSUME NEW W \in Workloads, Plan(W)
      PROVE  Owned'
  BY <1>10 DEF Plan, Schedule, Pending, workers, Owned, BatchOf, Running, InFlight
<1>11. ASSUME NEW W \in Workloads, PlanWithoutNarrator(W)
      PROVE  Owned'
  BY <1>11 DEF PlanWithoutNarrator, Schedule, Pending, workers, Owned, BatchOf, Running,
     InFlight
<1>12. ASSUME NEW op \in Ops, JobEnds(op)
      PROVE  Owned'
  BY <1>12, JobEnded DEF Owned, Running, InFlight
<1>13. ASSUME NEW op \in Ops, Submit(op)
      PROVE  Owned'
  BY <1>13, Submitted DEF Owned, TypeOK, Running, InFlight
<1>14. ASSUME NEW op \in Ops, RecordBatch(op)
      PROVE  Owned'
  BY <1>14 DEF RecordBatch, rows, Owned, BatchOf, Running, InFlight
<1>15. ASSUME NEW op \in Ops, Poll(op)
      PROVE  Owned'
  BY <1>15, BatchTyped DEF Poll, Owned, TypeOK, BatchOf, Running, InFlight
<1>16. ASSUME NEW op \in Ops, PollFails(op)
      PROVE  Owned'
  BY <1>16 DEF PollFails, Owned, BatchOf, Running, InFlight
<1>17. ASSUME NEW op \in Ops, CloseFailed(op)
      PROVE  Owned'
  BY <1>17 DEF CloseFailed, Done, rows, Owned, BatchOf, Running, InFlight
<1>18. ASSUME NEW op \in Ops, Flush(op)
      PROVE  Owned'
  BY <1>18 DEF Flush, Owned, TypeOK, Held, Disjoint, NoLineTwiceInFlight, JobRows, BatchOf,
     Running, InFlight
<1>19. ASSUME NEW op \in Ops, ClearAudioFailures(op)
      PROVE  Owned'
  BY <1>19 DEF ClearAudioFailures, Owned, BatchOf, Running, InFlight
<1>20. ASSUME NEW op \in Ops, Close(op)
      PROVE  Owned'
  BY <1>20 DEF Close, Done, rows, Owned, BatchOf, Running, InFlight
<1> QED
  BY <1>1, <1>2, <1>3, <1>4, <1>5, <1>6, <1>7, <1>8, <1>9, <1>10, <1>11, <1>12, <1>13, <1>14,
     <1>15, <1>16, <1>17, <1>18, <1>19, <1>20
     DEF Next, VoiceStep, PlanStep, BatchStep

(* A binding does not change while a line that needs it is on its way.     *)
LEMMA SnapshotKept ==
  ASSUME TypeOK, Phased, Voiced, Handed, Owned, Snapshot, Next
  PROVE  Snapshot'
<1>1. CASE \/ \E v \in Voices : KeepVoice(v) \/ VoiceFails(v) \/ ClearDirectionFailures(v)
           \/ \E op \in Ops : SaveResult(op) \/ FailResult(op)
  BY <1>1, ConstantsAssumption DEF KeepVoice, VoiceFails, ClearDirectionFailures, SaveResult,
     FailResult, rows, tables, run, workers, Speaker, BatchOf, Snapshot
<1>2. CASE StartRun
  BY <1>2 DEF StartRun, Resumed, rows, Snapshot, TypeOK, Owned, Speaker, JobRows, BatchOf,
     InFlight
<1>3. CASE EndResume
  BY <1>3 DEF EndResume, AllSettled, rows, tables, workers, Snapshot, Speaker
<1>4. CASE EndRun
  BY <1>4 DEF EndRun, Idle, Snapshot
<1>5. CASE Crash
  BY <1>5 DEF Crash, Idle, Snapshot
<1>6. CASE SubmitFails
  BY <1>6 DEF SubmitFails, run, workers, Snapshot, Speaker, BatchOf
<1>7. CASE Reconcile
  BY <1>7 DEF Reconcile, Withdraw, workers, Snapshot, Phased
<1>8. ASSUME NEW v \in Voices, RebindVoice(v)
      PROVE  Snapshot'
  BY <1>8, ConstantsAssumption DEF RebindVoice, workers, Snapshot, Phased, Handed, Speaker,
     BatchOf
<1>9. ASSUME NEW v \in Voices, RecreateVoice(v)
      PROVE  Snapshot'
  BY <1>9, ConstantsAssumption DEF RecreateVoice, workers, Snapshot, Phased, Handed, Speaker,
     BatchOf
<1>10. ASSUME NEW v \in Voices, WriteDirections(v)
      PROVE  Snapshot'
  BY <1>10 DEF WriteDirections, Missing, run, workers, Snapshot, TypeOK, Owned, Speaker,
     JobRows, BatchOf, InFlight
<1>11. ASSUME NEW W \in Workloads, Plan(W)
      PROVE  Snapshot'
  BY <1>11, ConstantsAssumption DEF Plan, Schedule, MyTurn, Pending, LinesOf, run, workers,
     Snapshot, TypeOK, Phased, Voiced, Speaker, Logical, JobRows, BatchOf
<1>12. ASSUME NEW W \in Workloads, PlanWithoutNarrator(W)
      PROVE  Snapshot'
  BY <1>12, ConstantsAssumption DEF PlanWithoutNarrator, Schedule, MyTurn, Pending, LinesOf,
     run, workers, Snapshot, TypeOK, Voiced, Speaker, JobRows, BatchOf
<1>13. ASSUME NEW op \in Ops, JobEnds(op)
      PROVE  Snapshot'
  BY <1>13, JobEnded DEF Snapshot, Speaker
<1>14. ASSUME NEW op \in Ops, Submit(op)
      PROVE  Snapshot'
  BY <1>14, Submitted DEF Snapshot, TypeOK, Speaker
<1>15. ASSUME NEW op \in Ops, RecordBatch(op)
      PROVE  Snapshot'
  BY <1>15 DEF RecordBatch, rows, run, Snapshot, Speaker, BatchOf
<1>16. ASSUME NEW op \in Ops, Poll(op)
      PROVE  Snapshot'
  BY <1>16, BatchTyped DEF Poll, run, Snapshot, TypeOK, Speaker, BatchOf
<1>17. ASSUME NEW op \in Ops, PollFails(op)
      PROVE  Snapshot'
  BY <1>17 DEF PollFails, run, Snapshot, Speaker, BatchOf
<1>18. ASSUME NEW op \in Ops, CloseFailed(op)
      PROVE  Snapshot'
  BY <1>18 DEF CloseFailed, Done, rows, run, Snapshot, Speaker, BatchOf
<1>19. ASSUME NEW op \in Ops, Flush(op)
      PROVE  Snapshot'
  BY <1>19 DEF Flush, run, Snapshot, Speaker, BatchOf
<1>20. ASSUME NEW op \in Ops, ClearAudioFailures(op)
      PROVE  Snapshot'
  BY <1>20 DEF ClearAudioFailures, run, Snapshot, Speaker, BatchOf
<1>21. ASSUME NEW op \in Ops, Close(op)
      PROVE  Snapshot'
  BY <1>21 DEF Close, Done, rows, run, Snapshot, Speaker, BatchOf
<1> QED
  BY <1>1, <1>2, <1>3, <1>4, <1>5, <1>6, <1>7, <1>8, <1>9, <1>10, <1>11, <1>12, <1>13, <1>14,
     <1>15, <1>16, <1>17, <1>18, <1>19, <1>20, <1>21
     DEF Next, VoiceStep, PlanStep, BatchStep

(* A recording is stored with the present binding and goes with it.        *)
LEMMA LabelledKept ==
  ASSUME TypeOK, Held, Owned, Snapshot, Labelled, Next
  PROVE  Labelled'
<1>1. CASE \/ StartRun \/ EndResume \/ EndRun \/ Crash \/ SubmitFails
           \/ \E v \in Voices : KeepVoice(v) \/ VoiceFails(v) \/ ClearDirectionFailures(v)
           \/ \E W \in Workloads : PlanWithoutNarrator(W)
           \/ \E op \in Ops : JobEnds(op) \/ Submit(op) \/ RecordBatch(op) \/ Poll(op)
                           \/ PollFails(op) \/ CloseFailed(op) \/ SaveResult(op)
                           \/ FailResult(op) \/ ClearAudioFailures(op) \/ Close(op)
  BY <1>1, ConstantsAssumption DEF StartRun, EndResume, EndRun, Crash, SubmitFails, KeepVoice,
     VoiceFails, ClearDirectionFailures, PlanWithoutNarrator, JobEnds, Submit, RecordBatch,
     Poll, PollFails, CloseFailed, SaveResult, FailResult, ClearAudioFailures, Close, Running,
     AllSettled, Batches, ClearFailures, rows, tables, Speaker, BatchOf, Labelled
<1>2. CASE Reconcile
  BY <1>2, ConstantsAssumption DEF Reconcile, Withdraw, LinesOf, Labelled, Speaker, Logical
<1>3. ASSUME NEW v \in Voices, RebindVoice(v)
      PROVE  Labelled'
  BY <1>3, ConstantsAssumption DEF RebindVoice, WithoutAudio, Labelled, TypeOK, Speaker,
     AudioRows
<1>4. ASSUME NEW v \in Voices, RecreateVoice(v)
      PROVE  Labelled'
  BY <1>4, ConstantsAssumption DEF RecreateVoice, WithoutAudio, Labelled, Speaker
<1>5. ASSUME NEW v \in Voices, WriteDirections(v)
      PROVE  Labelled'
  BY <1>5 DEF WriteDirections, Missing, Labelled, Speaker
<1>6. ASSUME NEW W \in Workloads, Plan(W)
      PROVE  Labelled'
  BY <1>6, ConstantsAssumption DEF Plan, Labelled, TypeOK, Speaker, AudioRows
<1>7. ASSUME NEW op \in Ops, Flush(op)
      PROVE  Labelled'
  BY <1>7 DEF Flush, Labelled, Held, Owned, Snapshot, Speaker, InFlight
<1> QED
  BY <1>1, <1>2, <1>3, <1>4, <1>5, <1>6, <1>7
     DEF Next, VoiceStep, PlanStep, BatchStep

(* Rows are well formed: what is stored or submitted has a provider voice. *)
LEMMA TypeKept ==
  ASSUME TypeOK, Held, Snapshot, Next
  PROVE  TypeOK'
<1>1. CASE StartRun
  BY <1>1, ConstantsAssumption DEF StartRun, Resumed, Running, rows, voices, TypeOK, Speaker,
     Logical
<1>2. CASE EndResume
  BY <1>2 DEF EndResume, RunningIds, rows, tables, workers, TypeOK, JobRows, BatchOf, Running
<1>3. CASE EndRun
  BY <1>3 DEF EndRun, Idle, rows, tables, TypeOK, Running
<1>4. CASE Crash
  BY <1>4, ConstantsAssumption DEF Crash, Fault, Idle, rows, tables, TypeOK, Running
<1>5. CASE SubmitFails
  BY <1>5, ConstantsAssumption DEF SubmitFails, Fault, RecordFailures, Failures, Batches, run,
     voices, workers, TypeOK, FailureRows, Running
<1>6. CASE Reconcile
  BY <1>6 DEF Reconcile, Withdraw, run, voices, workers, TypeOK, Running
<1>7. ASSUME NEW v \in Voices, KeepVoice(v)
      PROVE  TypeOK'
  BY <1>7 DEF KeepVoice, rows, tables, run, workers, TypeOK, Running
<1>8. ASSUME NEW v \in Voices, RebindVoice(v)
      PROVE  TypeOK'
  BY <1>8 DEF RebindVoice, WithoutAudio, run, workers, TypeOK, Logical, Running
<1>9. ASSUME NEW v \in Voices, RecreateVoice(v)
      PROVE  TypeOK'
  BY <1>9 DEF RecreateVoice, WithoutAudio, run, workers, TypeOK, Logical, Running
<1>10. ASSUME NEW v \in Voices, VoiceFails(v)
      PROVE  TypeOK'
  BY <1>10 DEF VoiceFails, rows, tables, run, workers, TypeOK, Running
<1>11. ASSUME NEW v \in Voices, WriteDirections(v)
      PROVE  TypeOK'
  BY <1>11 DEF WriteDirections, RecordFailures, Failures, Missing, run, workers, TypeOK,
     DirectedRows, FailureRows, Running
<1>12. ASSUME NEW v \in Voices, ClearDirectionFailures(v)
      PROVE  TypeOK'
  BY <1>12 DEF ClearDirectionFailures, ClearFailures, run, workers, TypeOK, Running
<1>13. ASSUME NEW W \in Workloads, Plan(W)
      PROVE  TypeOK'
  BY <1>13, ConstantsAssumption DEF Plan, Schedule, Pending, run, workers, TypeOK, Speaker,
     Logical, Running
<1>14. ASSUME NEW W \in Workloads, PlanWithoutNarrator(W)
      PROVE  TypeOK'
  BY <1>14, ConstantsAssumption DEF PlanWithoutNarrator, Schedule, Pending, RecordFailures,
     Failures, run, workers, TypeOK, Speaker, Logical, FailureRows, Running
<1>15. ASSUME NEW op \in Ops, JobEnds(op)
      PROVE  TypeOK'
  BY <1>15, JobEnded DEF TypeOK, Running
<1>16. ASSUME NEW op \in Ops, Submit(op)
      PROVE  TypeOK'
  BY <1>16, Submitted DEF TypeOK, Running
<1>17. ASSUME NEW op \in Ops, RecordBatch(op)
      PROVE  TypeOK'
  BY <1>17 DEF RecordBatch, rows, run, voices, TypeOK, BatchRows, Running
<1>18. ASSUME NEW op \in Ops, Poll(op)
      PROVE  TypeOK'
  BY <1>18, BatchTyped DEF Poll, RecordFailures, Failures, run, voices, TypeOK, FailureRows,
     Running
<1>19. ASSUME NEW op \in Ops, PollFails(op)
      PROVE  TypeOK'
  BY <1>19, ConstantsAssumption DEF PollFails, Fault, RecordFailures, Failures, run, voices,
     TypeOK, JobRows, FailureRows, BatchOf, Running
<1>20. ASSUME NEW op \in Ops, CloseFailed(op)
      PROVE  TypeOK'
  BY <1>20 DEF CloseFailed, Done, rows, run, voices, TypeOK, BatchRows, Running
<1>21. ASSUME NEW op \in Ops, SaveResult(op)
      PROVE  TypeOK'
  BY <1>21 DEF SaveResult, rows, tables, run, voices, TypeOK, Running
<1>22. ASSUME NEW op \in Ops, FailResult(op)
      PROVE  TypeOK'
  BY <1>22, ConstantsAssumption DEF FailResult, ItemFails, RecordFailures, Failures, Fault, run,
     voices, TypeOK, FailureRows, Running
<1>23. ASSUME NEW op \in Ops, Flush(op)
      PROVE  TypeOK'
  BY <1>23 DEF Flush, run, voices, TypeOK, Held, AudioRows, JobRows, BatchOf, Running
<1>24. ASSUME NEW op \in Ops, ClearAudioFailures(op)
      PROVE  TypeOK'
  BY <1>24 DEF ClearAudioFailures, ClearFailures, run, voices, TypeOK, Running
<1>25. ASSUME NEW op \in Ops, Close(op)
      PROVE  TypeOK'
  BY <1>25 DEF Close, Done, rows, run, voices, TypeOK, BatchRows, Running
<1> QED
  BY <1>1, <1>2, <1>3, <1>4, <1>5, <1>6, <1>7, <1>8, <1>9, <1>10, <1>11, <1>12, <1>13, <1>14,
     <1>15, <1>16, <1>17, <1>18, <1>19, <1>20, <1>21, <1>22, <1>23, <1>24, <1>25
     DEF Next, VoiceStep, PlanStep, BatchStep

(* Until a batch is closed, each of its lines is saved, being saved, or    *)
(* has its failure.                                                        *)
LEMMA AccountedKept ==
  ASSUME TypeOK, Phased, Held, Disjoint, Handed, Snapshot, Accounted, Next
  PROVE  Accounted'
<1> SUFFICES ASSUME NEW o \in Ops, NEW l \in BatchOf(o)'
             PROVE  AccountedFor(o, l)'
  BY DEF Accounted
<1>1. ASSUME l \in BatchOf(o), at'[o] = at[o],
             at[o] # "off" /\ audio[l] # None => audio'[l] # None,
             at[o] # "off" /\ <<"audio", l>> \in failed => <<"audio", l>> \in failed',
             o \in bad => o \in bad' \/ at'[o] = "off",
             left[o] \cup held[o] \subseteq left'[o] \cup held'[o] \/ at'[o] = "off"
      PROVE  AccountedFor(o, l)'
  BY <1>1 DEF Accounted, AccountedFor
<1>2. at'[o] = "off" => AccountedFor(o, l)'
  BY DEF AccountedFor
<1>3. CASE StartRun \/ EndRun \/ Crash
  <2>1. at'[o] \in {"off", "poll"}
    BY <1>3 DEF StartRun, EndRun, Crash, Idle
  <2> QED
    BY <2>1 DEF AccountedFor
<1>4. CASE EndResume \/ SubmitFails
  BY <1>1, <1>4 DEF EndResume, SubmitFails, RecordFailures, Fault, BatchOf, rows, tables, run,
     voices, workers
<1>5. CASE Reconcile
  BY <1>2, <1>5 DEF Reconcile, Withdraw, Phased, workers
<1>6. ASSUME NEW v \in Voices, VoiceStep(v)
      PROVE  AccountedFor(o, l)'
  <2>1. UNCHANGED <<jobs, at, left, held, bad>>
    BY <1>6 DEF VoiceStep, KeepVoice, RebindVoice, RecreateVoice, VoiceFails, WriteDirections,
         ClearDirectionFailures, workers
  <2>2. CASE RebindVoice(v) \/ RecreateVoice(v)
    <3>1. at[o] # "off" => VoiceOf[l] # v
      BY <2>1, <2>2 DEF RebindVoice, RecreateVoice, Phased, Handed, BatchOf
    <3>2. l \in Lines
      BY <2>1, BatchTyped DEF BatchOf
    <3> QED
      BY <1>1, <2>1, <2>2, <3>1, <3>2 DEF RebindVoice, RecreateVoice, WithoutAudio, BatchOf
  <2>3. CASE KeepVoice(v) \/ VoiceFails(v) \/ WriteDirections(v) \/ ClearDirectionFailures(v)
    BY <1>1, <2>1, <2>3 DEF KeepVoice, VoiceFails, WriteDirections, ClearDirectionFailures, BatchOf,
         RecordFailures, ClearFailures, Failures, rows, tables
  <2> QED
    BY <1>6, <2>2, <2>3 DEF VoiceStep
<1>7. ASSUME NEW W \in Workloads, PlanStep(W)
      PROVE  AccountedFor(o, l)'
  BY <1>1, <1>7 DEF PlanStep, Plan, PlanWithoutNarrator, RecordFailures, BatchOf, workers
<1>8. ASSUME NEW op \in Ops, JobEnds(op)
      PROVE  AccountedFor(o, l)'
  BY <1>1, <1>8, JobEnded
<1>9. ASSUME NEW op \in Ops, Submit(op)
      PROVE  AccountedFor(o, l)'
  <2>1. CASE o = op
    BY <1>9, <2>1, Submitted DEF AccountedFor, TypeOK
  <2>2. CASE o # op
    BY <1>1, <1>9, <2>2, Submitted DEF TypeOK
  <2> QED
    BY <2>1, <2>2
<1>10. ASSUME NEW op \in Ops,
              \/ RecordBatch(op) \/ Poll(op) \/ PollFails(op) \/ CloseFailed(op) \/ SaveResult(op)
              \/ FailResult(op) \/ Flush(op) \/ ClearAudioFailures(op) \/ Close(op),
              o # op
       PROVE  AccountedFor(o, l)'
  <2>1. l \in BatchOf(o) /\ at'[o] = at[o] /\ left'[o] = left[o] /\ held'[o] = held[o]
    BY <1>10 DEF RecordBatch, Poll, PollFails, CloseFailed, SaveResult, FailResult, Flush,
         ClearAudioFailures, Close, Done, BatchOf, TypeOK, workers
  <2>2. o \in bad => o \in bad'
    BY <1>10 DEF RecordBatch, Poll, PollFails, CloseFailed, SaveResult, FailResult, Flush,
         ClearAudioFailures, Close, Done
  <2>3. audio[l] # None => audio'[l] # None
    <3>1. CASE Flush(op)
      <4>1. \/ [label |-> label[l], spoken |-> jobs[op].spoken[l], op |-> op] \in AudioRows
            \/ l \notin held[op]
        BY <3>1, BatchTyped DEF Held, TypeOK, AudioRows
      <4>2. l \in Lines
        BY <2>1, BatchTyped
      <4> QED
        BY <3>1, <4>1, <4>2, ConstantsAssumption DEF Flush
    <3> QED
      BY <1>10, <3>1 DEF RecordBatch, Poll, PollFails, CloseFailed, SaveResult, FailResult,
           ClearAudioFailures, Close, rows, tables
  <2>4. at[o] # "off" /\ <<"audio", l>> \in failed => <<"audio", l>> \in failed'
    <3>1. CASE ClearAudioFailures(op)
      <4>1. at[o] # "off" => l \notin held[op]
        BY <1>10, <2>1, <3>1 DEF ClearAudioFailures, Held, Disjoint, NoLineTwiceInFlight
      <4> QED
        BY <3>1, <4>1 DEF ClearAudioFailures, ClearFailures, Failures
    <3> QED
      BY <1>10, <3>1 DEF RecordBatch, Poll, PollFails, CloseFailed, SaveResult, FailResult, Flush,
           Close, RecordFailures, rows, tables
  <2> QED
    BY <1>1, <2>1, <2>2, <2>3, <2>4
<1>11. ASSUME RecordBatch(o) \/ PollFails(o) \/ CloseFailed(o) \/ Close(o)
       PROVE  AccountedFor(o, l)'
  <2>1. at'[o] \in {"poll", "off"}
    BY <1>11 DEF RecordBatch, PollFails, CloseFailed, Close, Done, TypeOK
  <2> QED
    BY <2>1 DEF AccountedFor
<1>12. CASE Poll(o)
  <2>1. UNCHANGED <<jobs, audio, bad>> /\ l \in BatchOf(o)
    BY <1>12 DEF Poll, BatchOf
  <2>2. CASE jobs[o].status = "error"
    BY <1>12, <2>1, <2>2 DEF Poll, RecordFailures, Failures, AccountedFor, TypeOK
  <2>3. CASE jobs[o].status # "error"
    BY <1>12, <2>1, <2>3 DEF Poll, AccountedFor, TypeOK
  <2> QED
    BY <2>2, <2>3
<1>13. CASE SaveResult(o)
  <2>1. /\ at[o] = "save" /\ UNCHANGED <<jobs, at, audio, failed, bad>> /\ l \in BatchOf(o)
        /\ left[o] \cup held[o] \subseteq left'[o] \cup held'[o]
    BY <1>13 DEF SaveResult, BatchOf, TypeOK, tables, rows
  <2> QED
    BY <1>1, <2>1
<1>14. CASE FailResult(o)
  <2>1. PICK k \in left[o] : /\ failed' = failed \cup {<<"audio", k>>}
                             /\ left' = [left EXCEPT ![o] = @ \ {k}]
    BY <1>14 DEF FailResult, RecordFailures, Failures
  <2>2. /\ at[o] = "save" /\ UNCHANGED <<jobs, at, audio, held>>
        /\ bad' = bad \cup {o} /\ l \in BatchOf(o)
    BY <1>14 DEF FailResult, BatchOf
  <2>3. CASE l = k
    BY <2>1, <2>2, <2>3 DEF AccountedFor
  <2>4. CASE l # k
    BY <2>1, <2>2, <2>4 DEF Accounted, AccountedFor, TypeOK
  <2> QED
    BY <2>3, <2>4
<1>15. CASE Flush(o)
  <2>1. /\ at[o] = "save" /\ at'[o] = "clear" /\ UNCHANGED <<jobs, failed, left, held, bad>>
        /\ l \in BatchOf(o)
    BY <1>15 DEF Flush, BatchOf, TypeOK
  <2>2. l \in Lines
    BY <2>1, BatchTyped
  <2>3. CASE l \in held[o]
    <3>1. [label |-> label[l], spoken |-> jobs[o].spoken[l], op |-> o] \in AudioRows
      BY <2>3, BatchTyped DEF Held, TypeOK, AudioRows
    <3>2. audio'[l] # None
      BY <1>15, <2>2, <2>3, <3>1, ConstantsAssumption DEF Flush
    <3> QED
      BY <2>1, <3>2 DEF AccountedFor
  <2>4. CASE l \notin held[o]
    <3>1. audio'[l] = audio[l]
      BY <1>15, <2>2, <2>4 DEF Flush
    <3> QED
      BY <2>1, <3>1 DEF Accounted, AccountedFor
  <2> QED
    BY <2>3, <2>4
<1>16. CASE ClearAudioFailures(o)
  <2>1. /\ at[o] = "clear" /\ UNCHANGED <<jobs, audio, left, bad>> /\ l \in BatchOf(o)
        /\ at'[o] = IF left[o] = {} THEN "close" ELSE "save"
        /\ failed' = failed \ Failures("audio", held[o])
    BY <1>16 DEF ClearAudioFailures, ClearFailures, BatchOf, TypeOK
  <2>2. CASE l \in held[o]
    BY <2>1, <2>2 DEF Held, AccountedFor
  <2>3. CASE l \notin held[o]
    BY <2>1, <2>3 DEF Failures, Accounted, AccountedFor
  <2> QED
    BY <2>2, <2>3
<1>17. ASSUME NEW op \in Ops, BatchStep(op)
       PROVE  AccountedFor(o, l)'
  BY <1>9, <1>10, <1>11, <1>12, <1>13, <1>14, <1>15, <1>16, <1>17 DEF BatchStep
<1> QED
  BY <1>3, <1>4, <1>5, <1>6, <1>7, <1>8, <1>17 DEF Next

-----------------------------------------------------------------------------
(* The inductive invariant                                                 *)

(* No run, no batch and no recording.                                      *)
LEMMA InvariantInitially == Init => IInv
<1> SUFFICES ASSUME Init PROVE IInv
  OBVIOUS
<1>1. TypeOK
  BY ConstantsAssumption DEF Init, TypeOK, Running, BatchRows
<1>2. \A op \in Ops : BatchOf(op) = {} /\ ~Running(op) /\ at[op] = "off"
  BY DEF Init, BatchOf, Running
<1>3. Phased /\ Voiced /\ Handed /\ Labelled
  BY DEF Init, Phased, Voiced, Handed, Labelled
<1>4. Held /\ Disjoint /\ Owned /\ Snapshot /\ Accounted
  BY <1>2 DEF Init, Held, Disjoint, NoLineTwiceInFlight, InFlight, Owned, Snapshot, Accounted
<1> QED
  BY <1>1, <1>3, <1>4 DEF IInv

(* Every step of a run, of the provider and of the attribution stage keeps *)
(* it.                                                                     *)
LEMMA InvariantKept == ASSUME IInv, Next PROVE IInv'
<1>1. TypeOK' /\ Phased' /\ Voiced'
  BY TypeKept, PhasedKept, VoicedKept DEF IInv
<1>2. Held' /\ Disjoint' /\ Handed'
  BY HeldKept, DisjointKept, HandedKept DEF IInv
<1>3. Owned' /\ Snapshot' /\ Labelled' /\ Accounted'
  BY OwnedKept, SnapshotKept, LabelledKept, AccountedKept DEF IInv
<1> QED
  BY <1>1, <1>2, <1>3 DEF IInv

(* It says nothing of variables other than these.                          *)
LEMMA InvariantStutters == ASSUME IInv, UNCHANGED vars PROVE IInv'
<1> USE DEF vars, rows, tables, run, voices, workers
<1>1. TypeOK' /\ Phased' /\ Voiced'
  BY DEF IInv, TypeOK, Phased, Voiced, Running
<1>2. Held' /\ Disjoint' /\ Handed'
  BY DEF IInv, Held, Disjoint, NoLineTwiceInFlight, Handed, InFlight, Running, BatchOf
<1>3. Owned' /\ Snapshot' /\ Labelled' /\ Accounted'
  BY DEF IInv, Owned, Snapshot, Labelled, Accounted, AccountedFor, InFlight, Running, Speaker, BatchOf
<1> QED
  BY <1>1, <1>2, <1>3 DEF IInv

(* IInv holds in every state of every behaviour.                           *)
THEOREM Invariance == Spec => []IInv
<1>1. IInv /\ [Next]_vars => IInv'
  BY InvariantKept, InvariantStutters
<1> QED
  BY <1>1, InvariantInitially, PTL DEF Spec

-----------------------------------------------------------------------------
(* What follows from it                                                    *)

(* Rows are well formed: in particular no batch is submitted and no        *)
(* recording stored without a provider voice.                              *)
THEOREM Typing == Spec => []TypeOK
<1>1. IInv => TypeOK
  BY DEF IInv
<1> QED
  BY <1>1, Invariance, PTL

(* No line is synthesised again while an earlier job may still deliver it, *)
(* whatever crashed or failed in between.                                  *)
THEOREM NoLineTwice == Spec => []NoLineTwiceInFlight
<1>1. IInv => NoLineTwiceInFlight
  BY DEF IInv, Disjoint
<1> QED
  BY <1>1, Invariance, PTL

(* _complete_batch finds the direction of each line of a batch it resumes. *)
THEOREM RunningDirected == Spec => []RunningBatchDirected
<1>1. IInv => RunningBatchDirected
  BY DEF IInv, Owned, InFlight, RunningBatchDirected, RunningIds
<1> QED
  BY <1>1, Invariance, PTL

(* A resumed batch that skips lines with audio skips only its own.         *)
THEOREM RunningOwnsAudio == Spec => []RunningBatchOwnsAudio
<1>1. IInv => RunningBatchOwnsAudio
  BY DEF IInv, Owned, InFlight, RunningBatchOwnsAudio
<1> QED
  BY <1>1, Invariance, PTL

(* A batch is closed by the task that saved it, with every line accounted  *)
(* for.                                                                    *)
THEOREM ClosedAccounted == Spec => ClosedBatchAccounted
<1> DEFINE Closing ==
      \A op \in Ops : Running(op) /\ ~Running(op)' =>
        \A l \in BatchOf(op) :
          audio'[l] # None \/ (batches'[op] # "complete" /\ <<"audio", l>> \in failed')
<1>1. ASSUME IInv, Next PROVE Closing
  <2> SUFFICES ASSUME NEW op \in Ops, Running(op), ~Running(op)', NEW l \in BatchOf(op)
               PROVE  audio'[l] # None \/ (batches'[op] # "complete" /\ <<"audio", l>> \in failed')
    OBVIOUS
  <2>1. batches'[op] # batches[op]
    BY DEF Running
  <2>2. ~StartRun
    BY <2>1 DEF StartRun, Running
  <2>3. PICK o \in Ops : RecordBatch(o) \/ CloseFailed(o) \/ Close(o)
    BY <1>1, <2>1, <2>2 DEF Next, EndResume, EndRun, Crash, SubmitFails, Reconcile, Withdraw,
       VoiceStep, KeepVoice, RebindVoice, RecreateVoice, VoiceFails, WriteDirections,
       ClearDirectionFailures, PlanStep, Plan, PlanWithoutNarrator, BatchStep, Submit, Poll,
       PollFails, SaveResult, FailResult, Flush, ClearAudioFailures, JobEnds, tables
  <2>4. o = op /\ (CloseFailed(op) \/ Close(op))
    BY <1>1, <2>1, <2>3 DEF RecordBatch, CloseFailed, Close, Running, IInv, TypeOK
  <2>5. AccountedFor(op, l) /\ UNCHANGED <<audio, failed>>
    BY <1>1, <2>4 DEF IInv, Accounted, CloseFailed, Close, rows
  <2>6. CASE CloseFailed(op)
    BY <1>1, <2>5, <2>6 DEF CloseFailed, AccountedFor, IInv, TypeOK
  <2>7. CASE Close(op)
    BY <1>1, <2>5, <2>7 DEF Close, AccountedFor, IInv, TypeOK
  <2> QED
    BY <2>4, <2>6, <2>7
<1>2. IInv /\ [Next]_vars => [Closing]_vars
  BY <1>1
<1> QED
  BY <1>2, Invariance, PTL DEF Spec, ClosedBatchAccounted

(* Only storing a batch's results adds recordings; others go, or stay with *)
(* the direction they were made for.                                       *)
LEMMA AudioStays ==
  ASSUME IInv, Next, ~(\E op \in Ops : Flush(op)), NEW l \in Lines, audio'[l] # None
  PROVE  audio'[l] = audio[l] /\ directed'[l] = directed[l]
<1>1. CASE Reconcile
  BY <1>1 DEF Reconcile, Withdraw
<1>2. ASSUME NEW v \in Voices, VoiceStep(v)
      PROVE  audio'[l] = audio[l] /\ directed'[l] = directed[l]
  <2>1. CASE RebindVoice(v) \/ RecreateVoice(v)
    BY <2>1 DEF RebindVoice, RecreateVoice, WithoutAudio
  <2>2. CASE WriteDirections(v)
    BY <2>2 DEF WriteDirections, Missing, IInv, Labelled
  <2>3. CASE KeepVoice(v) \/ VoiceFails(v) \/ ClearDirectionFailures(v)
    BY <2>3 DEF KeepVoice, VoiceFails, ClearDirectionFailures, tables, rows
  <2> QED
    BY <1>2, <2>1, <2>2, <2>3 DEF VoiceStep
<1>3. CASE \/ StartRun \/ EndResume \/ EndRun \/ Crash \/ SubmitFails
           \/ \E W \in Workloads : PlanStep(W)
           \/ \E op \in Ops : BatchStep(op) \/ JobEnds(op)
  BY <1>3 DEF StartRun, EndResume, EndRun, Crash, SubmitFails, PlanStep, Plan, PlanWithoutNarrator,
     BatchStep, Submit, RecordBatch, Poll, PollFails, CloseFailed, SaveResult, FailResult,
     ClearAudioFailures, Close, JobEnds, tables, rows
<1> QED
  BY <1>1, <1>2, <1>3 DEF Next

(* The labels of a logical voice's recordings.                             *)
Recorded(v) == {audio[l].label : l \in {k \in Lines : audio[k] # None /\ Speaker(k) = v}}

(* The results of a batch are labelled with the present bindings of the    *)
(* voices that say its lines.                                              *)
LEMMA FlushRecords ==
  ASSUME IInv, IInv', NEW op \in Ops, Flush(op)
  PROVE  LET V == {Speaker(l) : l \in held[op]} IN
         /\ V \subseteq Logical /\ UNCHANGED bound /\ \A v \in V : bound[v] # None
         /\ \A v \in Logical : Recorded(v)' = Recorded(v) \cup IF v \in V THEN {bound[v]} ELSE {}
<1> DEFINE V == {Speaker(l) : l \in held[op]}
<1>1. held[op] \subseteq BatchOf(op) /\ held[op] \subseteq Lines /\ at[op] = "save"
  BY BatchTyped DEF IInv, Held, Flush
<1>2. UNCHANGED <<bound, directed>> /\ \A l \in Lines : Speaker(l)' = Speaker(l)
  BY DEF Flush, Speaker
<1>3. \A l \in held[op] : Speaker(l) \in Logical /\ bound[Speaker(l)] # None
  BY <1>1, ConstantsAssumption DEF IInv, Held, Snapshot, Speaker, Logical
<1>4. \A l \in held[op] : audio'[l] # None
  <2> SUFFICES ASSUME NEW l \in held[op] PROVE audio'[l] # None
    OBVIOUS
  <2>1. [label |-> label[l], spoken |-> jobs[op].spoken[l], op |-> op] \in AudioRows
    BY <1>1, BatchTyped DEF IInv, Held, TypeOK, AudioRows
  <2> QED
    BY <1>1, <2>1, ConstantsAssumption DEF Flush
<1>5. \A l \in Lines \ held[op] : audio'[l] = audio[l]
  BY DEF Flush
<1>6. /\ \A l \in Lines : audio[l] # None => audio[l].label = bound[Speaker(l)]
      /\ \A l \in Lines : audio'[l] # None => audio'[l].label = bound[Speaker(l)]
  BY <1>2 DEF IInv, Labelled
<1>7. ASSUME NEW v \in Logical
      PROVE  Recorded(v)' = Recorded(v) \cup IF v \in V THEN {bound[v]} ELSE {}
  <2>1. Recorded(v)' = {audio'[l].label : l \in {k \in Lines : audio'[k] # None /\ Speaker(k) = v}}
    BY <1>2 DEF Recorded
  <2>2. ASSUME NEW x \in Recorded(v)'
        PROVE  x \in Recorded(v) \cup IF v \in V THEN {bound[v]} ELSE {}
    <3>1. PICK l \in Lines : audio'[l] # None /\ Speaker(l) = v /\ x = audio'[l].label
      BY <2>1, <2>2
    <3>2. CASE l \in held[op]
      BY <1>6, <3>1, <3>2
    <3>3. CASE l \notin held[op]
      BY <1>5, <3>1, <3>3 DEF Recorded
    <3> QED
      BY <3>2, <3>3
  <2>3. ASSUME NEW x \in Recorded(v)
        PROVE  x \in Recorded(v)'
    <3>1. PICK l \in Lines : audio[l] # None /\ Speaker(l) = v /\ x = audio[l].label
      BY <2>3 DEF Recorded
    <3>2. audio'[l] # None /\ audio'[l].label = x
      BY <1>4, <1>5, <1>6, <3>1
    <3> QED
      BY <2>1, <3>1, <3>2
  <2>4. ASSUME v \in V PROVE bound[v] \in Recorded(v)'
    <3>1. PICK l \in held[op] : Speaker(l) = v
      BY <2>4
    <3> QED
      BY <1>1, <1>4, <1>6, <2>1, <3>1
  <2> QED
    BY <2>2, <2>3, <2>4
<1> QED
  BY <1>2, <1>3, <1>7

(* TtsBatches implements VoiceLedger: recordings of a logical voice go in  *)
(* the step that changes its binding, and come labelled with the present   *)
(* one, several voices at once if a batch has several.                     *)
THEOREM LedgerRefined == Spec => LedgerSpec
<1>1. Init => Ledger!Init
  <2> SUFFICES ASSUME Init PROVE Ledger!Init
    OBVIOUS
  <2>1. bound \in [Logical -> ProviderIds \cup {None}]
    BY DEF Init
  <2>2. \A v \in Logical : Recorded(v) = {}
    BY DEF Init, Recorded
  <2> QED
    BY <2>1, <2>2 DEF Ledger!Init, Recorded
<1>2. ASSUME IInv, IInv', Next, ~(\E op \in Ops : Flush(op))
      PROVE  Ledger!Rebind
  <2>1. bound' \in [Logical -> ProviderIds \cup {None}]
    BY <1>2 DEF IInv, TypeOK
  <2>2. \A v \in Logical : Recorded(v)' \subseteq ProviderIds
    BY <1>2 DEF IInv, TypeOK, AudioRows, Recorded
  <2>3. ASSUME NEW v \in Logical, NEW x \in Recorded(v)'
        PROVE  x \in Recorded(v) /\ bound'[v] = bound[v]
    <3>1. PICK l \in Lines : audio'[l] # None /\ Speaker(l)' = v /\ x = audio'[l].label
      BY <2>3 DEF Recorded
    <3>2. audio'[l] = audio[l] /\ Speaker(l) = v
      BY <1>2, <3>1, AudioStays DEF Speaker
    <3>3. x = bound'[v] /\ x = bound[v]
      BY <1>2, <3>1, <3>2 DEF IInv, Labelled
    <3> QED
      BY <3>1, <3>2, <3>3 DEF Recorded
  <2>4. \A v \in Logical : Recorded(v)' \subseteq IF bound'[v] = bound[v] THEN Recorded(v) ELSE {}
    BY <2>3
  <2> QED
    BY <2>1, <2>2, <2>4 DEF Ledger!Rebind, Recorded
<1>3. ASSUME IInv, IInv', NEW op \in Ops, Flush(op)
      PROVE  \E V \in SUBSET Logical : Ledger!Record(V)
  <2>1. PICK V \in SUBSET Logical :
          /\ UNCHANGED bound /\ \A v \in V : bound[v] # None
          /\ \A v \in Logical : Recorded(v)' = Recorded(v) \cup IF v \in V THEN {bound[v]} ELSE {}
    BY <1>3, FlushRecords
  <2>2. Ledger!Record(V)
    BY <2>1 DEF Ledger!Record, Recorded
  <2> QED
    BY <2>2
<1>4. UNCHANGED vars => UNCHANGED Ledger!vars
  BY DEF vars, tables, rows, Ledger!vars, Speaker
<1>5. IInv /\ IInv' /\ [Next]_vars => [Ledger!Next]_(Ledger!vars)
  BY <1>2, <1>3, <1>4 DEF Ledger!Next
<1> QED
  BY <1>1, <1>5, Invariance, PTL DEF Spec, LedgerSpec, Ledger!Spec
==============================================================================

---------------------------- MODULE DirectionAudit ----------------------------
(* The audit of stored directions (direction_audit.py): pairs of a source text  *)
(* and its direction that a cheap comparison finds suspicious are put to a      *)
(* model in batches, several at a time, and what it confirms is reported.       *)
(*                                                                              *)
(* The model's answer is open: it may name any pair, also one of another batch. *)
EXTENDS Naturals, FiniteSets

CONSTANTS
  DirectionIds,      \* ids of directed lines, in their order: 1, 2, ...
  AuditBatchSize,    \* AUDIT_BATCH_SIZE
  AuditConcurrency,  \* AUDIT_CONCURRENCY
  Unasked            \* no answer yet; no report

ASSUME AuditAssumption ==
  /\ DirectionIds \subseteq Nat /\ IsFiniteSet(DirectionIds)
  /\ AuditBatchSize \in Nat \ {0} /\ AuditConcurrency \in Nat \ {0}

VARIABLES
  directions,  \* the stored ones, as the audit reads them, by id
  auditPc,     \* of audit_directions: "idle", "ask", "reported" or "stopped"
  asking,      \* batches at the model
  answers,     \* the ids each batch's answer names
  report       \* ids in the report file

auditVars == <<directions, auditPc, asking, answers, report>>

(* How a direction compares with its source. "orphan": its line has no text in  *)
(* the catalog; "corrupted": it has a replacement character.                    *)
Comparisons == {"alike", "different", "corrupted", "orphan"}

(* suspicious_pairs, and where each one is when they are sorted by id. *)
Candidate(id) == id \in DOMAIN directions /\ directions[id] \in {"different", "corrupted"}

Pairs == {id \in DirectionIds : Candidate(id)}

Position(id) == Cardinality({other \in Pairs : other < id})

BatchCount == (Cardinality(Pairs) + AuditBatchSize - 1) \div AuditBatchSize

BatchPairs(b) == {id \in Pairs : Position(id) \div AuditBatchSize = b - 1}

AuditRest(at) ==
  /\ auditPc = at /\ asking = {} /\ report = Unasked
  /\ answers = [b \in 1..Cardinality(DirectionIds) |-> Unasked]

AuditInit ==
  /\ directions \in UNION {[D -> Comparisons] : D \in SUBSET DirectionIds}
  /\ AuditRest("idle")

StartAudit ==
  /\ auditPc = "idle"
  /\ auditPc' = IF \E id \in DOMAIN directions : directions[id] = "orphan" THEN "stopped" ELSE "ask"
  /\ UNCHANGED <<directions, asking, answers, report>>

(* classify: one of the batches gets a place of the semaphore. *)
AskModel(b) ==
  /\ auditPc = "ask"
  /\ b <= BatchCount /\ b \notin asking /\ answers[b] = Unasked
  /\ Cardinality(asking) < AuditConcurrency
  /\ asking' = asking \cup {b}
  /\ UNCHANGED <<directions, auditPc, answers, report>>

ModelAnswers(b, named) ==
  /\ auditPc = "ask" /\ b \in asking
  /\ answers' = [answers EXCEPT ![b] = named]
  /\ asking' = asking \ {b}
  /\ UNCHANGED <<directions, auditPc, report>>

(* A failed call, or an answer without a result, fails the whole audit. *)
ModelFails(b) ==
  /\ auditPc = "ask" /\ b \in asking
  /\ auditPc' = "stopped"
  /\ asking' = {}
  /\ UNCHANGED <<directions, answers, report>>

(* What an answer contributes: all it names, or what it was asked about. *)
ConfirmedUnchecked(b) == answers[b]

Confirmed(b) == answers[b] \cap BatchPairs(b)

Mismatches ==
  (UNION {Confirmed(b) : b \in 1..BatchCount})
    \cup {id \in DirectionIds : Candidate(id) /\ directions[id] = "corrupted"}

WriteReport ==
  /\ auditPc = "ask"
  /\ \A b \in 1..BatchCount : answers[b] # Unasked
  /\ report' = {id \in Mismatches : Candidate(id)}
  /\ auditPc' = "reported"
  /\ UNCHANGED <<directions, asking, answers>>

AuditNext ==
  \/ StartAudit \/ WriteReport
  \/ \E b \in DOMAIN answers :
       \/ AskModel(b) \/ ModelFails(b)
       \/ \E named \in SUBSET DirectionIds : ModelAnswers(b, named)

AuditSpec == AuditInit /\ [][AuditNext]_auditVars

----------------------------------------------------------------------------
(* In whatever order the batches are answered, the report has a suspicious pair *)
(* when it is corrupted, or when the one answer to a batch with that pair names *)
(* it, and no other: what an answer says of other batches' pairs does not count *)
(* (find_mismatches, audit_directions).                                         *)
ReportIsJudged ==
  report # Unasked =>
    \A id \in DirectionIds :
      LET asked == {b \in DOMAIN answers : answers[b] # Unasked /\ id \in BatchPairs(b)}
      IN /\ Candidate(id) => Cardinality(asked) = 1
         /\ id \in report <=>
              Candidate(id) /\ (directions[id] = "corrupted" \/ \E b \in asked : id \in answers[b])
=============================================================================

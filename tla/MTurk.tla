-------------------------------- MODULE MTurk --------------------------------
(***************************************************************************)
(* Paraphrasing batches: their HITs, the paraphrases that workers submit,  *)
(* and the validation that lets a paraphrase into the training set         *)
(* (src/src/routes/mturk.ts, developer_mturk.ts, admin_mturk.ts,           *)
(* src/src/util/mturk.ts, src/src/model/mturk.ts). One batch: batches      *)
(* share no state. Every handler is one serializable transaction.          *)
(* External: Genie makes the validation HITs out of the paraphrases that   *)
(* are not validated; here, one HIT for each paraphrasing HIT.             *)
(***************************************************************************)
EXTENDS Naturals, FiniteSets

CONSTANTS
  Workers,
  Target,         \* target_count of a paraphrase (3 in the code)
  PerHit,         \* SYNTHETIC_PER_PARAPHRASE_HIT (4 in the code)
  MaxRows,        \* bound: rows of the file that was uploaded
  MaxParaphrases  \* bound: paraphrases

Paraphrases == 1..MaxParaphrases
Hits == 0..(MaxRows \div PerHit - 1)
Statuses == {"none", "created", "paraphrasing", "validating", "complete"}

VARIABLES
  status,     \* mturk_batch.status; "none" before the batch exists
  hits,       \* hit_ids in mturk_input
  output,     \* [paraphrases -> [hit, accept, reject]]: mturk_output
  flags,      \* [paraphrases -> how many times flags says 'training']
  validation, \* [hits -> paraphrases]: the rows 'real' of mturk_validation_input
  vlog        \* {<<hit, worker>>}: mturk_validation_log

mtvars == <<status, hits, output, flags, validation, vlog>>

\* createMTurkBatch: a HIT for every PerHit rows; the rows that do not fill
\* the last HIT are dropped.
Create(n) ==
  /\ status = "none"
  /\ status' = "created"
  /\ hits' = 0..(n \div PerHit - 1)
  /\ UNCHANGED <<output, flags, validation, vlog>>

\* What is open for which kind of work, for the pages as for the forms.
OpenForParaphrases == status \in {"created", "paraphrasing"}
OpenForValidation == status = "validating"

\* insertSubmission: nothing limits how often a worker submits. A paraphrase
\* that is "no idea" is left out; one that does not parse undoes everything,
\* the status too.
InsertSubmission(h, new) ==
  output' = [p \in DOMAIN output \cup new |->
               IF p \in new THEN [hit |-> h, accept |-> 0, reject |-> 0] ELSE output[p]]
Submit(h, k) ==
  LET n == Cardinality(DOMAIN output)
      new == (n + 1)..(n + k)
  IN /\ OpenForParaphrases
     /\ n + k <= MaxParaphrases
     /\ status' = "paraphrasing"
     /\ InsertSubmission(h, new)
     /\ flags' = [p \in DOMAIN flags \cup new |-> IF p \in new THEN 0 ELSE flags[p]]
     /\ UNCHANGED <<hits, validation, vlog>>

\* streamUnvalidated
Unvalidated == {p \in DOMAIN output : /\ output[p].accept + output[p].reject < Target
                                      /\ flags[p] = 0}
StartValidation ==
  /\ status = "paraphrasing"
  /\ status' = "validating"
  /\ validation' = [h \in hits |-> {p \in Unvalidated : output[p].hit = h}]
  /\ UNCHANGED <<hits, output, flags, vlog>>

\* markSentencesGood puts 'training' in front of the flags whenever the count
\* has reached the target, also when it is there already.
MarkSentencesGood_Mut(good, f) == [p \in DOMAIN f |->
  IF p \in good /\ output[p].accept + 1 >= Target
    THEN f[p] + 1 ELSE f[p]]
MarkSentencesGood(good, f) == [p \in DOMAIN f |->
  IF p \in good /\ output[p].accept + 1 >= Target /\ output[p].reject = 0
    THEN f[p] + 1 ELSE f[p]]
\* markSentencesBad replaces ',training,' by ',': of two in a row, which share
\* a comma, the second one stays.
MarkSentencesBad(bad, f) == [p \in DOMAIN f |-> IF p \in bad THEN f[p] \div 2 ELSE f[p]]
Count(good, bad) == [p \in DOMAIN output |->
  [output[p] EXCEPT !.accept = IF p \in good THEN @ + 1 ELSE @,
                    !.reject = IF p \in bad THEN @ + 1 ELSE @]]

\* POST /mturk/validate; a second submission of the worker changes nothing,
\* and more than two mistakes about the fake paraphrases undo it.
AlreadySubmitted_Mut(h, w) == FALSE
AlreadySubmitted(h, w) == <<h, w>> \in vlog
Validate(h, w, good) ==
  /\ h \in DOMAIN validation /\ good \subseteq validation[h]
  /\ ~AlreadySubmitted(h, w)
  /\ OpenForValidation
  /\ vlog' = vlog \cup {<<h, w>>}
  /\ LET bad == validation[h] \ good
     IN /\ output' = Count(good, bad)
        /\ flags' = MarkSentencesBad(bad, MarkSentencesGood(good, flags))
  /\ UNCHANGED <<status, hits, validation>>

\* closeBatch, in any status; with autoapprove the statement that follows is
\* rejected by the database (it names a column and a table it does not have)
\* and the status is rolled back too, so nothing changes.
Close(autoApprove) ==
  /\ status # "none" /\ ~autoApprove
  /\ status' = "complete"
  /\ UNCHANGED <<hits, output, flags, validation, vlog>>

MTInit ==
  /\ status = "none" /\ hits = {}
  /\ output = [p \in {} |-> 0] /\ flags = [p \in {} |-> 0]
  /\ validation = [h \in {} |-> {}] /\ vlog = {}

MTNext ==
  \/ \E n \in 0..MaxRows : Create(n)
  \/ \E h \in hits, k \in 0..MaxParaphrases : Submit(h, k)
  \/ StartValidation
  \/ \E h \in DOMAIN validation, w \in Workers :
       \E good \in SUBSET validation[h] : Validate(h, w, good)
  \/ \E autoApprove \in BOOLEAN : Close(autoApprove)

MTSpec == MTInit /\ [][MTNext]_mtvars

-----------------------------------------------------------------------------
(* Properties.                                                             *)

\* Type correctness.
MTTypeOK ==
  /\ status \in Statuses /\ hits \subseteq Hits
  /\ DOMAIN output \subseteq Paraphrases /\ DOMAIN flags = DOMAIN output
  /\ \A p \in DOMAIN output : output[p].hit \in hits
  /\ vlog \subseteq (DOMAIN validation) \X Workers

\* A validator counts once for each paraphrase of the HIT, however often the
\* form is sent: the two counts of a paraphrase add up to the workers who
\* validated its HIT.
OneVoteEach ==
  \A h \in DOMAIN validation : \A p \in validation[h] :
    output[p].accept + output[p].reject = Cardinality({w \in Workers : <<h, w>> \in vlog})

\* A paraphrase is in the training set only when as many validators as the
\* target accepted it and none rejected it. The exception is a paraphrase that
\* was accepted beyond the target before it was rejected: its flags say
\* 'training' more than once, and a rejection does not remove them all.
TrainingValidated ==
  \A p \in DOMAIN flags : flags[p] > 0 =>
    /\ output[p].accept >= Target
    /\ output[p].reject = 0 \/ output[p].accept > Target
=============================================================================

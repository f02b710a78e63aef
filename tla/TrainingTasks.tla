---------------------------- MODULE TrainingTasks ----------------------------
(***************************************************************************)
(* What the training tasks do to the dataset: update-dataset and the       *)
(* generation of a training set (src/src/training/tasks,                   *)
(* src/src/training/lib/dataset_generator.js, run-training-task.js), while *)
(* devices are uploaded and approved and sentences are learnt. The daemon  *)
(* runs one task of each type at a time. A command is a device and the     *)
(* version it was written for: it typechecks against that version only.    *)
(* External: Genie generates one sentence for each device it is given.     *)
(***************************************************************************)
EXTENDS Naturals, FiniteSets

CONSTANTS
  Devices,
  MaxVersion \* bound: [Devices -> how often each is uploaded]

Types == {"generated", "online", "commandpedia"}
Idle == "idle"

VARIABLES
  dev, appr,   \* [Devices -> developer and approved version], 0 for none
  rows,        \* example_utterances: [type, device, version, obsolete]
  upd,         \* update-dataset: [pc, devices, seen, obsolete]
  exactFile,   \* the exact match file, as the pairs <<device, version>>
  uploaded,    \* history: devices uploaded since update-dataset began
  clean        \* history: devices whose generated rows the last complete
               \* update-dataset brought up to date

ttvars == <<dev, appr, rows, upd, exactFile, uploaded, clean>>

NoUpdate == [pc |-> Idle, devices |-> {}, seen |-> [d \in Devices |-> 0], obsolete |-> {}]

-----------------------------------------------------------------------------
(* The rest of the system.                                                 *)

UploadDevice(d) ==
  /\ dev[d] < MaxVersion[d]
  /\ dev' = [dev EXCEPT ![d] = @ + 1]
  /\ uploaded' = uploaded \cup {d} /\ clean' = clean \ {d}
  /\ UNCHANGED <<appr, rows, upd, exactFile>>
ApproveDevice(d) ==
  /\ appr[d] < dev[d]
  /\ appr' = [appr EXCEPT ![d] = dev[d]]
  /\ UNCHANGED <<dev, rows, upd, exactFile, uploaded, clean>>
Learn(d, type) ==
  LET v == IF type = "online" THEN dev[d] ELSE appr[d]
  IN /\ v > 0
     /\ rows' = rows \cup {[type |-> type, device |-> d, version |-> v, obsolete |-> FALSE]}
     /\ UNCHANGED <<dev, appr, upd, exactFile, uploaded, clean>>

-----------------------------------------------------------------------------
(* update-dataset: one transaction (read committed), then the exact match  *)
(* file. No device in the list means all.                                  *)

Selected(D) == IF D = {} THEN Devices ELSE D
UpdateBegin(D) ==
  /\ upd.pc = Idle
  /\ upd' = [upd EXCEPT !.pc = "typecheck", !.devices = D]
  /\ uploaded' = {}
  /\ UNCHANGED <<dev, appr, rows, exactFile, clean>>

\* _typecheckParaphrasesAndOnline: what does not parse becomes obsolete, a
\* commandpedia command against the approved version, the others against the
\* developer one.
Parses_Mut(r) == r.version = appr[r.device] \/ r.version = dev[r.device]
Parses(r) == r.version = IF r.type = "commandpedia" THEN appr[r.device] ELSE dev[r.device]
Typecheck ==
  /\ upd.pc = "typecheck"
  /\ upd' = [upd EXCEPT !.pc = "generate", !.seen = dev,
       !.obsolete = {r \in rows : /\ r.type # "generated" /\ ~r.obsolete
                                  /\ r.device \in Selected(upd.devices) /\ ~Parses(r)}]
  /\ UNCHANGED <<dev, appr, rows, exactFile, uploaded, clean>>

\* _clearExistingDataset, _generateNewSynthetic and the commit: a class that
\* was read for the typecheck is in the cache of the schema retriever.
ClearExistingDataset_Mut == {r \in rows : r.type = "generated" /\ r.device \in upd.devices}
ClearExistingDataset == {r \in rows : r.type = "generated" /\ r.device \in Selected(upd.devices)}
GenerateNewSynthetic(view) ==
  {[type |-> "generated", device |-> d, version |-> view[d], obsolete |-> FALSE] :
     d \in {e \in Selected(upd.devices) : view[e] > 0}}
Generate(cached) ==
  LET view == [d \in Devices |-> IF d \in cached THEN upd.seen[d] ELSE dev[d]]
  IN /\ upd.pc = "generate"
     /\ rows' = ((rows \ ClearExistingDataset) \ upd.obsolete)
                  \cup {[r EXCEPT !.obsolete = TRUE] : r \in upd.obsolete}
                  \cup GenerateNewSynthetic(view)
     /\ upd' = [upd EXCEPT !.pc = "exact"]
     /\ UNCHANGED <<dev, appr, exactFile, uploaded, clean>>

\* _updateExactMatch, from all the rows of the language: obsolete ones too.
Exact(r) == <<r.device, r.version>>
UpdateExactMatch ==
  /\ upd.pc = "exact"
  /\ exactFile' = {Exact(r) : r \in rows}
  /\ clean' = (clean \cup Selected(upd.devices)) \ uploaded
  /\ upd' = NoUpdate
  /\ UNCHANGED <<dev, appr, rows, uploaded>>

\* The process is killed. A transaction that was open is rolled back; the
\* process exits with 0, so that the task counts as done.
KillUpdate ==
  /\ upd.pc # Idle
  /\ upd' = NoUpdate
  /\ UNCHANGED <<dev, appr, rows, exactFile, uploaded, clean>>

-----------------------------------------------------------------------------
(* DatasetGenerator, for prepare-training-set and the gen-custom tasks:    *)
(* what it writes when it is asked for the devices D. It changes nothing   *)
(* and reads one snapshot (repeatable read, read only).                    *)

\* The versions that a model sees, and the devices of the pattern: when the
\* model uses approved devices and none is left, there is no pattern at all.
Visible(approved) == IF approved THEN appr ELSE dev
ForDevices(D, approved) == {d \in Selected(D) : approved => appr[d] > 0}
Pattern(D, approved) ==
  IF ForDevices(D, approved) = {} THEN Devices ELSE ForDevices(D, approved)

\* _downloadParaphrase, TypecheckStream, and the synthetic part
Downloaded(D, approved) ==
  {r \in rows : r.type # "generated" /\ ~r.obsolete /\ r.device \in Pattern(D, approved)}
TypecheckStream(R, approved) == {r \in R : r.version = Visible(approved)[r.device]}
Synthetic(D, approved) ==
  {<<d, Visible(approved)[d]>> : d \in {e \in ForDevices(D, approved) : Visible(approved)[e] > 0}}
\* The constructor chooses the pipeline by the name of the task.
Downloads(task) == task \in {"prepare-training-set", "gen-custom-augmented"}
\* The sentences that end up in the files of the task: the training set (its
\* train and eval parts together), or the one output of a custom dataset.
Dataset(D, approved, task) ==
  Synthetic(D, approved)
    \cup IF Downloads(task)
           THEN {Exact(r) : r \in TypecheckStream(Downloaded(D, approved), approved)}
           ELSE {}

TTInit ==
  /\ dev = [d \in Devices |-> 0] /\ appr = [d \in Devices |-> 0]
  /\ rows = {} /\ upd = NoUpdate /\ exactFile = {}
  /\ uploaded = {} /\ clean = {}

TTNext ==
  \/ \E d \in Devices : UploadDevice(d) \/ ApproveDevice(d)
                        \/ \E type \in {"online", "commandpedia"} : Learn(d, type)
  \/ \E D \in SUBSET Devices : UpdateBegin(D) \/ Generate(D)
  \/ Typecheck \/ UpdateExactMatch \/ KillUpdate

TTSpec == TTInit /\ [][TTNext]_ttvars

-----------------------------------------------------------------------------
(* Properties.                                                             *)

\* Type correctness.
TTTypeOK ==
  /\ \A d \in Devices : appr[d] \in 0..dev[d] /\ dev[d] \in 0..MaxVersion[d]
  /\ \A r \in rows : r.type \in Types /\ r.device \in Devices /\ r.version \in 1..dev[r.device]
  /\ upd.pc \in {Idle, "typecheck", "generate", "exact"}

\* A device that was not uploaded again since an update of the dataset that
\* ran to its end has generated sentences for its current version and for no
\* other, and its current version is in the exact match file, whatever
\* updates for other devices, sentences learnt and killed processes came in
\* between.
GeneratedCurrent ==
  \A d \in clean :
    /\ {r.version : r \in {s \in rows : s.type = "generated" /\ s.device = d}} = {dev[d]} \ {0}
    /\ dev[d] > 0 => <<d, dev[d]>> \in exactFile

\* Once an update of the dataset ran to its end for a device, the training
\* set of a developer model, whatever devices it is for, drops no sentence
\* learnt for it: all that is not marked obsolete still parses, including
\* what is learnt while the update runs.
DatasetComplete ==
  \A D \in SUBSET Devices : \A r \in rows :
    (r.type = "online" /\ ~r.obsolete /\ r.device \in clean \cap Selected(D))
      => Exact(r) \in Dataset(D, FALSE, "prepare-training-set")
=============================================================================

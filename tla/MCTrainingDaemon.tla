-------------------------- MODULE MCTrainingDaemon --------------------------
(* Instances of TrainingDaemon for TLC: one language, two devices and a     *)
(* model of all devices that are approved.                                 *)
EXTENDS TrainingDaemon, TLC

CONSTANTS d1, d2, m1, en

OneModel == 1 :> [lang |-> en, tag |-> m1, contextual |-> FALSE,
                  allDevices |-> TRUE, useApproved |-> TRUE, devices |-> {}]

Template(type, tag, all, devices) ==
    [jobType |-> type, lang |-> en, tag |-> tag, all |-> all, devices |-> devices,
     approved |-> devices]

\* A device upload updates the dataset and retrains the models of its device
\* (d2), or only retrains (d1); an admin retrains one model for all devices.
UploadOfD2 == Template("update-dataset,train", NoTag, FALSE, {d2})
TrainForD1 == Template("train", NoTag, FALSE, {d1})
TrainModel == Template("train", m1, TRUE, {})

\* An upload before the device was approved retrains no model of approved ones.
UploadOfNew == [UploadOfD2 EXCEPT !.approved = {}]

UploadsAndAdmin == {UploadOfD2, UploadOfNew, TrainForD1, TrainModel}
UploadAndAdmin == {UploadOfD2, TrainModel}
OneUpload == {UploadOfD2}

JobIds == 1..((1 + NModels) * MaxRequests)

\* Every job that was queued ends, with success or with an error, provided
\* its tasks end and the daemon is restarted after a crash: no call of
\* _startAll is lost, whatever the transactions it races with.
EveryJobEnds ==
    \A j \in JobIds : (j <= lastId) ~> (j <= lastId /\ rows[j].status \in Ended)

=============================================================================

---------------------------- MODULE MCSyncTable ----------------------------
(* Instances of SyncTable for TLC. *)
EXTENDS SyncTable, TLC

FollowOps == {"SyncAt", "HandleChanges", "InsertOne", "DeleteOne"}

KeySymmetry == Permutations(Keys)

=============================================================================

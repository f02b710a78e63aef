--------------------------- MODULE MCEngineManager ---------------------------
(* Instances of EngineManager for TLC. *)
EXTENDS EngineManager

NoUser == {}
FirstUser == {1}

AdminOps == {"killUser", "restartUserWithoutCache"}
UserOps == {"restartUser", "killUser", "deleteUser", "clearCache", "sendSocket", "killAllUsers"}
StopOps == {"restartUser", "stop"}

=============================================================================

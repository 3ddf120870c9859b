--------------------------- MODULE MCStudioWorkflows ---------------------------
(* Small instances of StudioWorkflows for TLC. *)
EXTENDS StudioWorkflows

CONSTANTS w1, w2

OneWorker == {w1}
TwoWorkers == {w1, w2}

SyncThenNotifyThenValidate == <<"sync", "notify", "validate">>
SyncOnly == <<"sync">>
================================================================================

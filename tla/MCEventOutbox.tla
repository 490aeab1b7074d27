--------------------------- MODULE MCEventOutbox ---------------------------
(* EventOutbox on one workflow instance, hence two events, and two relay   *)
(* workers; MCEventOutbox.cfg gives the bounds.                            *)
EXTENDS EventOutbox, TLC

CONSTANTS i1, w1, w2

MCInstances == {i1}
MCWorkers == {w1, w2}
MCOneWorker == {w1}
=============================================================================

-------------------------- MODULE MCSnapshotWorker --------------------------
(* Model values for SnapshotWorker.                                         *)
EXTENDS SnapshotWorker

CONSTANTS t1, t2, h1, h2, m1, m2

TwoTasks   == {t1, t2}
TwoHandles == {h1, h2}
OneMeta    == {m1}
TwoMetas   == {m1, m2}

AllConfigs     == [composing : BOOLEAN, shm : BOOLEAN]
DmabufComposed == {[composing |-> TRUE, shm |-> FALSE]}
Dmabuf         == {[composing |-> FALSE, shm |-> FALSE]}
=============================================================================

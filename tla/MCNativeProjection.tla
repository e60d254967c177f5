--------------------------- MODULE MCNativeProjection --------------------------
(***************************************************************************)
(* No cluster, or two on pages of one, others that may appear, and one     *)
(* host, of which two values are read, one or none; of a cluster two.      *)
(***************************************************************************)
EXTENDS NativeProjection

CONSTANTS c1, c2, c3

MCInventories == {<<>>, <<c1, c2>>}

MCBandOf == [v \in {1, 5} |-> IF v = 1 THEN "green" ELSE "red"]
Idle == [cpu |-> 1, memory |-> NoData]
Busy == [cpu |-> 5, memory |-> 1]
Unknown == [cpu |-> NoData, memory |-> NoData]
MCReadings == [o \in Object |-> IF o \in Cluster THEN {Busy} ELSE {Idle, Busy, Unknown}]
================================================================================

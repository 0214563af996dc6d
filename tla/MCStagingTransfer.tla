-------------------------- MODULE MCStagingTransfer --------------------------
(* The host stages an object of three chunks, the last of them padded.  The *)
(* chaotic publisher has manifests that share an id, are empty, too large   *)
(* or do not fit an MTU, and chunks of every offset and length around the   *)
(* limits.                                                                  *)
EXTENDS StagingTransfer

MCObject == [id |-> "a", size |-> 5, fnv1a64 |-> 1]

MCManifests ==
    {MCObject,
     [id |-> "a", size |-> 3, fnv1a64 |-> 1],
     [id |-> "a", size |-> 4, fnv1a64 |-> 2],
     [id |-> "b", size |-> 6, fnv1a64 |-> 1],
     [id |-> "b", size |-> 0, fnv1a64 |-> 1],
     [id |-> "a", size |-> 7, fnv1a64 |-> 1],
     [id |-> "long", size |-> 1, fnv1a64 |-> 1]}

MCChunks ==
    [id : {"a", "b"}, offset : {0, 1, 2, 4, 7}, len : {0, 1, 2, 4, 5},
     padded : BOOLEAN]

MCRxBytes == [id \in {"a", "b", "long"} |-> IF id = "long" THEN 2 ELSE 1]

=============================================================================

-------------------------- MODULE MCSnapshotBuild --------------------------
(***************************************************************************)
(* Two builds of one content, with and without compression.                *)
(***************************************************************************)
EXTENDS SnapshotBuild

CONSTANTS lz4, plain, h1

MCHashOf == [b \in {lz4, plain} |-> h1]
=============================================================================

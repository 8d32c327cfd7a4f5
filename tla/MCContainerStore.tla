-------------------------- MODULE MCContainerStore --------------------------
(***************************************************************************)
(* Instances of ContainerStore for TLC.                                    *)
(***************************************************************************)
EXTENDS ContainerStore, TLC

Interchangeable == Permutations(Threads)
=============================================================================

------------------------ MODULE MCFilesystemStorage -------------------------
(***************************************************************************)
(* FilesystemStorage for TLC: volume contexts that name no group, one that *)
(* chown sets, the largest one, which it does not, and one below and one   *)
(* above what a context may name; beside it the storage in memory.         *)
(***************************************************************************)
EXTENDS MemoryStorage, TLC

CONSTANTS WithGroup, LargestGroup, ZeroGroup, TooLarge

MCGroupIn == EmptyContext :> NoGroup @@ WithGroup :> 1 @@ LargestGroup :> MaxGroup
             @@ ZeroGroup :> 0 @@ TooLarge :> MaxGroup + 1

Symmetric == Permutations(Callers) \cup Permutations(Volumes)
=============================================================================

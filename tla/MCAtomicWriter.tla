--------------------------- MODULE MCAtomicWriter ---------------------------
(***************************************************************************)
(* AtomicWriter for TLC: payloads that keep, change, add and drop files,   *)
(* with and without a directory.                                           *)
(***************************************************************************)
EXTENDS AtomicWriter, TLC

File == <<"a">>
SubX == <<"b", "x">>
SubY == <<"b", "y">>
Sub == <<"b">>
Above == <<"..", "a">>
Hidden == <<"..hidden">>

\* From any of these to any other one, also where a file of one is a directory of
\* the other or of itself, where a path is invalid or only ".", and where two are the
\* same.
MCPayloads ==
    {Nothing,
     File :> 2 @@ <<".", "a">> :> 1,
     File :> 1 @@ SubX :> 1,
     SubX :> 2 @@ SubY :> 1,
     Sub :> 1,
     Sub :> 1 @@ SubX :> 1,
     <<".">> :> 1,
     File :> 1 @@ Above :> 1,
     Hidden :> 1}

\* A path that only begins with a reserved name when it is cleaned: for DataIsLinked,
\* which fails.
ReservedPayloads == {File :> 1 @@ <<".", "..data">> :> 1, File :> 2}

MCReserved == {"..data", "..data_tmp", "..hidden"}

MCTooLong == {<<"long">>}

\* Those that Write notices, or whose error it may drop.
AnyFailure ==
    {"readlink", "readFile", "mkdir", "write", "symlink", "rename", "remove", "removeAll",
     "crash"}
=============================================================================

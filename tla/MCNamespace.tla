---------------------------- MODULE MCNamespace ----------------------------
(***************************************************************************)
(* The console and the explorer on a small volume: two bases that   *)
(* can be typed, one extension, two directories besides the root.           *)
(***************************************************************************)
EXTENDS Explorer

Typed(base, ext, rank, upper) == [base |-> base, ext |-> ext, rank |-> rank, upper |-> upper]

a == Typed("a", NoExt, 1, FALSE)
A == Typed("a", NoExt, 1, TRUE)
a2 == Typed("a", NoExt, 2, FALSE)
at == Typed("a", "t", 1, FALSE)
b == Typed("b", NoExt, 1, FALSE)

Relative(parts) == [absolute |-> FALSE, parts |-> parts]
Absolute(parts) == [absolute |-> TRUE, parts |-> parts]

MCOperand ==
    {Relative(<<a>>), Relative(<<at>>), Relative(<<b>>), Relative(<<DotDot>>),
     Absolute(<<A>>), Absolute(<<a2>>), Absolute(<<A, b>>)}

\* a volume just formatted, and one brought from elsewhere: two files that
\* share a base, the second with bytes no one could type here
Legacy ==
    LET n(ext) == [base |-> "a", ext |-> ext]
    IN  PutPair(PutPair(Formatted, Root, 2, File(n("t"), "binary")), Root, 4, File(n(NoExt), "empty"))

MCRenameTo == {Relative(<<a>>), Relative(<<b>>), Absolute(<<A, b>>)}

MCDesktopFrom == {<<>>}

\* one with two directories in the root, as many entries as a view shows and
\* room for one file more
Filled ==
    LET d(base) == [base |-> base, ext |-> NoExt]
        one == ios_fs_file_service_create_directory(Formatted, Root, d("a")).fs
    IN  ios_fs_file_service_create_directory(one, Root, d("c")).fs

MCDisk == {Formatted, Legacy, Filled}
=============================================================================

----------------------------- MODULE MCSimpleFS -----------------------------
EXTENDS SimpleFS

a == <<"a", "">>
b == <<"b", "">>
aFile == <<"a", "d">>
bFile == <<"b", "d">>

AllNames == {a, b, aFile, bFile}
Relative(path) == [absolute |-> FALSE, path |-> path]
Absolute(path) == [absolute |-> TRUE, path |-> path]

(* A folder's name can be the beginning of a file's, "." that of "..".     *)
BeginWith ==
  [n \in AllNames \cup {Dot, DotDot} |->
     CASE n = a   -> {a, aFile}
       [] n = b   -> {b, bFile}
       [] n = Dot -> {Dot, DotDot}
       [] OTHER   -> {n}]
ShortTails == {<<>>} \cup {<<n>> : n \in AllNames \cup {Dot, DotDot}}

FileArguments == {Relative(<<n>>) : n \in AllNames}
TreeArguments ==
  {Relative(<<DotDot>>), Relative(<<a, bFile>>), Relative(<<bFile, a>>),
   Absolute(<<a, Dot>>), Absolute(<<a, DotDot>>), Absolute(<<bFile>>)}
AllArguments == FileArguments \cup TreeArguments
=============================================================================

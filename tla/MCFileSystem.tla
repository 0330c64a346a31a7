---------------------------- MODULE MCFileSystem ----------------------------
(* FileSystem for TLC: one thread builds and moves about, the other takes  *)
(* apart and builds anew.                                                  *)
EXTENDS FileSystem, TLC

CONSTANTS t1, t2, a, b

Abs(names) == [from |-> "/", names |-> names]
Rel(names) == [from |-> ".", names |-> names]

MCCalls ==
    t1 :> ({"create", "mkdir", "chdir"} \X {Abs(<<a>>), Abs(<<a, b>>)})
            \cup ({"chdir", "link"} \X {Abs(<<a>>), Rel(<<DotDot>>)})
            \cup {<<"open", Abs(<<a>>)>>, <<"mkdir", Rel(<<a>>)>>} @@
    t2 :> ({"unlink"} \X {Abs(<<a>>), Abs(<<a, a>>), Abs(<<a, b>>), Rel(<<DotDot>>)})
            \cup {<<"audit", Abs(<<a>>)>>, <<"mkdir", Abs(<<a>>)>>}
MCNewPaths == {Abs(<<a, b>>), Rel(<<a>>)}
=============================================================================

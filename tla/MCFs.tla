-------------------------------- MODULE MCFs --------------------------------
(***************************************************************************)
(* Instances of Fs: the calls the threads choose from.                     *)
(***************************************************************************)
EXTENDS Fs

Symmetry == Permutations(Threads)

Abs(el) == [abs |-> TRUE, el |-> el]
Rel(el) == [abs |-> FALSE, el |-> el]
Call(op, mode, path, to) == [op |-> op, mode |-> mode, path |-> path, to |-> to]

MCFiles == <<[name |-> "f", blocks |-> 2]>>
MCCalls ==
    {Call("open", {"create", "write", "trunc"}, Abs(<<"f">>), None),
     Call("open", {"create", "write"}, Rel(<<"g">>), None),
     Call("open", {}, Rel(<<"..", "d">>), None),
     Call("mkdir", {}, Abs(<<"d">>), None),
     Call("mkdir", {}, Rel(<<"d", "e">>), None),
     Call("mknod", {}, Rel(<<"g">>), None),
     Call("mknod", {"badmajor"}, Rel(<<"d">>), None),
     Call("unlink", {}, Abs(<<"f">>), None),
     Call("unlink", {}, Abs(<<"d">>), None),
     Call("link", {}, Abs(<<"f">>), Abs(<<"d", "g">>)),
     Call("link", {}, Abs(<<"f">>), Rel(<<"g">>)),
     Call("link", {}, Rel(<<"d">>), Abs(<<"f">>)),
     Call("chdir", {}, Abs(<<"d">>), None),
     Call("write", {}, None, None), Call("read", {}, None, None), Call("close", {}, None, None)}
=============================================================================

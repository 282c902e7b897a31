------------------------------ MODULE MCDirTree -------------------------------
(* Workloads for checking DirTree with TLC.                                  *)
EXTENDS DirTree, TLC

CONSTANTS t1, t2

P(comps) == [abs |-> TRUE, comps |-> comps]
Rel(comps) == [abs |-> FALSE, comps |-> comps]
Call(op, path) == [op |-> op, path |-> path, path2 |-> None, create |-> FALSE, excl |-> FALSE, temp |-> FALSE,
                   replace |-> TRUE, follow |-> TRUE, target |-> None]
Move(p, q) == [Call("rename", p) EXCEPT !.path2 = q]
Hard(p, q) == [Call("link", p) EXCEPT !.path2 = q]
Creat(p) == [Call("open", p) EXCEPT !.create = TRUE]
Excl(p) == [Creat(p) EXCEPT !.excl = TRUE]

Calls(A, B) == t1 :> A @@ t2 :> B
Load(A, B, n, m) == [calls |-> Calls(A, B), n |-> t1 :> n @@ t2 :> m, link |-> None,
                     removes |-> FALSE, excl |-> FALSE, getcwd |-> FALSE]

(* Files that come, go and move between two directories.                     *)
ax == P(<<"a", "x">>)
bx == P(<<"b", "x">>)
af == P(<<"a", "f">>)
bf == P(<<"b", "f">>)
Creators == [Load({Excl(ax), Call("unlink", ax), Move(ax, bx)}, {Excl(ax), Creat(bx), Hard(af, bx)}, 2, 2)
             EXCEPT !.excl = FALSE, !.removes = TRUE]
Exclusive == [Load({Excl(ax)}, {Excl(ax), Move(af, ax)}, 2, 2) EXCEPT !.excl = TRUE]
Movers == Load({Move(af, bf), Move(af, ax), Call("unlink", bf)},
               {Move(bf, af), [Move(bf, bx) EXCEPT !.replace = FALSE], Hard(af, bf), Move(af, af)}, 2, 2)

(* Directories that are made, moved and removed beside a reader.             *)
ad == P(<<"a", "d">>)
bd == P(<<"b", "d">>)
Dirs == [Load({Call("mkdir", ad), Move(ad, bd), Call("rmdir", bd), Call("rmdir", ad), Call("rmdir", P(<<"a">>))},
             {Call("chdir", ad), Call("open", Rel(<<"x">>)), Call("stat", P(<<"b", "d">>)),
              Call("open", P(<<"b", "..">>)), [Call("open", P(<<"b">>)) EXCEPT !.temp = TRUE]}, 3, 2)
         EXCEPT !.getcwd = TRUE]

(* A link from b to the directory a, to itself, or to nothing.               *)
Links(target) == [Load({Call("stat", P(<<"b", "l", "f">>)), Call("open", P(<<"b", "l">>)),
                        Creat(P(<<"b", "l", "x">>)), [Call("stat", P(<<"b", "l">>)) EXCEPT !.follow = FALSE], [Call("open", P(<<"b", "l">>)) EXCEPT !.follow = FALSE]},
                       {Call("unlink", P(<<"b", "l">>)), Move(P(<<"b", "l">>), P(<<"a", "l">>)),
                        [Call("symlink", P(<<"b", "l">>)) EXCEPT !.target = Rel(<<"l">>)]}, 2, 2)
                  EXCEPT !.link = target]

Passing == {Creators, Exclusive, Movers, Dirs,
            Links(Rel(<<"..", "a">>)), Links(P(<<"b", "l">>)), Links(P(<<"a", "y">>))}
=============================================================================

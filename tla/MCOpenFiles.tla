----------------------------- MODULE MCOpenFiles -------------------------------
(* Workloads for checking OpenFiles with TLC.                                 *)
EXTENDS OpenFiles, TLC

CONSTANTS t1, t2

C(op, fd, fd2, flag) == [op |-> op, fd |-> fd, fd2 |-> fd2, flag |-> flag, off |-> None, len |-> 0]
IO(op, fd, at, len) == [C(op, fd, fd, FALSE) EXCEPT !.off = at, !.len = len]
L(A, B, n, m) == [calls |-> t1 :> A @@ t2 :> B, n |-> t1 :> n @@ t2 :> m]

(* Descriptors come and go, with their flags, beside an exec; another thread
   uses descriptor 0.                                                         *)
Table == L({C("open", 0, 0, TRUE), C("dup", 0, 2, FALSE), C("close", 1, 2, FALSE), C("dup2", 0, 3, TRUE),
            C("exec", 0, 0, FALSE)},
           {C("open", 0, 0, FALSE), C("cloexec", 1, 3, TRUE), C("cloexec", 1, 1, FALSE), IO("read", 0, None, 1)}, 3, 2)

(* Links of /proc/self/fd while descriptors are closed and used again.        *)
Links == L({C("open", 0, 0, FALSE), C("close", 1, 1, FALSE), C("dup2", 0, 1, FALSE)},
           {C("readlink", 1, 0, FALSE), C("open", 0, 0, FALSE), C("getdents", 0, 0, FALSE)}, 3, 3)

(* One file, its offset shared by both threads, and truncation at pages.      *)
Data == L({IO("write", 0, None, 2), IO("write", 0, 1, 2), IO("truncate", 0, None, 2),
           IO("truncate", 0, None, 4), IO("truncate", 0, None, 5)},
          {IO("write", 0, None, 3), IO("read", 0, None, 2), IO("lseek", 0, None, 1), IO("lseek", 0, None, None),
           IO("truncate", 0, None, 0)}, 3, 3)

Extents == L({C("create", 0, 0, FALSE)}, {C("create", 0, 0, FALSE)}, 3, 3)

Passing == {Table, Links, Data, Extents}
=============================================================================

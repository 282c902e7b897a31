------------------------------- MODULE PageMap -------------------------------
(***************************************************************************)
(* What the memory calls promise: each process has a map from pages to     *)
(* mappings, and a call changes one range of one process's pages.          *)
(***************************************************************************)
EXTENDS Integers

CONSTANTS Maps, Pages, None, Prots

VARIABLE pages   \* [Maps -> [Pages -> a mapping [prot, type, at] or None]]

Init == pages = [m \in Maps |-> [p \in Pages |-> None]]

(* The pages of S become one mapping; of a file, consecutive parts of it.  *)
Map(new, S) ==
    \A p, q \in S :
        /\ new[p] # None /\ new[q] # None
        /\ new[p].prot = new[q].prot /\ new[p].type = new[q].type
        /\ new[p].type = "file" => new[p].at - p = new[q].at - q

Unmap(new, S) == \A p \in S : new[p] = None

(* Protection is all that changes, and unmapped pages stay unmapped.       *)
Protect(old, new, S, prot) ==
    \A p \in S : new[p] = IF old[p] = None THEN None ELSE [old[p] EXCEPT !.prot = prot]

(* One range covers every page that changes; the smallest one will do.     *)
Call(old, new) ==
    LET changed == {p \in Pages : new[p] # old[p]}
        S == {p \in Pages : (\E q \in changed : q <= p) /\ (\E q \in changed : p <= q)}
    IN  Map(new, S) \/ Unmap(new, S) \/ \E prot \in Prots : Protect(old, new, S, prot)

Next ==
    \E m \in Maps, old \in {pages}, new \in {pages'} :
        /\ \A o \in Maps \ {m} : new[o] = old[o]
        /\ Call(old[m], new[m])

Spec == Init /\ [][Next]_pages
==============================================================================

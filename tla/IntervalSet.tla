----------------------------- MODULE IntervalSet -----------------------------
(***************************************************************************)
(* ExclusiveIntervalSet (base/interval_set.h): disjoint intervals kept in  *)
(* a std::map whose key is an interval's end.  A map is a function from    *)
(* keys to items, an iterator is a key or End, and each method is an       *)
(* operator from the map before to the map after.  What an item is, and    *)
(* when two of them merge, is up to the module that instantiates this one. *)
(***************************************************************************)
EXTENDS Integers, FiniteSets, FiniteSetsExt, Functions, TLC

CONSTANTS
    TrimTail(_, _), TrimHead(_, _),  \* T::TrimTail, T::TrimHead
    Mergeable(_, _), Merged(_, _),   \* T::TryMergeRight: its test, its effect
    Check(_, _), Change(_, _),       \* what Modify is called with; arg is captured
    Modulus                          \* 2^64: addresses wrap here

End == -1
Empty == <<>>

Wrap(a) == a % Modulus
Erase(m, it) == Restrict(m, DOMAIN m \ {it})

(* std::map: insert keeps an item that is already there.                   *)
Put(m, k, item) == m @@ (k :> item)
FirstOf(S) == IF S = {} THEN End ELSE Min(S)
LastOf(S) == IF S = {} THEN End ELSE Max(S)

upper_bound(m, k) == FirstOf({e \in DOMAIN m : e > k})
next(m, it) == FirstOf({e \in DOMAIN m : e > it})
prev(m, it) == LastOf({e \in DOMAIN m : it # End => e < it})
begin(m) == FirstOf(DOMAIN m)

RECURSIVE ClearFrom(_, _, _, _)
ClearFrom(m, it, start, end) ==
    IF it = End \/ m[it].start >= end THEN m
    ELSE LET item == m[it]
             split == IF start > item.start THEN Put(m, start, TrimTail(item, start)) ELSE m
         IN  IF end >= item.end
             THEN ClearFrom(Erase(split, it), next(split, it), start, end)
             ELSE ClearFrom([split EXCEPT ![it] = TrimHead(item, end)], next(split, it), start, end)

Clear(m, start, end) == ClearFrom(m, upper_bound(m, start), start, end)

TryMergeRight(m, left, it) ==
    IF left # End /\ Mergeable(m[left], m[it])
    THEN [Erase(m, left) EXCEPT ![it] = Merged(m[left], m[it])]
    ELSE m

Insert(m, item) ==
    LET it == item.end
        put == Put(Clear(m, item.start, item.end), it, item)
        left == TryMergeRight(put, prev(put, it), it)
        right == next(left, it)
    IN  IF right = End THEN left ELSE TryMergeRight(left, it, right)

(* The interval that contains an address, or End.                          *)
Find(m, a) ==
    LET it == upper_bound(m, a) IN IF it # End /\ m[it].start <= a THEN it ELSE End

(* The loop of FindFreeRange from the highest interval downwards.  The     *)
(* difference is unsigned: an interval above prev_start ends the loop.     *)
RECURSIVE SearchDown(_, _, _, _)
SearchDown(m, it, prev_start, len) ==
    IF it = End \/ Wrap(prev_start - it) >= len THEN prev_start
    ELSE SearchDown(m, IF it = begin(m) THEN End ELSE prev(m, it), m[it].start, len)

(* The address just before `it`, tried against the end of its predecessor. *)
(* The code takes std::prev(begin) when `it` is the first interval; what   *)
(* it then reads is lower_lim or the size of the map, a small number.      *)
BeforeOptions(m, it, len, lower_lim) ==
    LET new_start == Wrap(m[it].start - len)
        prev_ends == IF it = begin(m) THEN {lower_lim, 0}
                     ELSE IF prev(m, it) = begin(m) THEN {lower_lim}
                     ELSE {prev(m, it)}
    IN  {IF new_start >= e THEN new_start ELSE End : e \in prev_ends}

(* The address just after `it`, tried against the start of its successor.  *)
AfterOption(m, it, len, upper_lim) ==
    LET next_start == IF next(m, it) = End THEN upper_lim ELSE m[next(m, it)].start
    IN  IF Wrap(it + len) <= next_start THEN it ELSE End

(* The results FindFreeRange may have; End stands for ENOMEM.              *)
FindFreeRange(m, hint, len, upper_lim, lower_lim) ==
    LET it == upper_bound(m, hint)
        down == Wrap(SearchDown(m, prev(m, End), upper_lim, len) - len)
        anywhere == IF down < lower_lim THEN End ELSE down
        after == AfterOption(m, it, len, upper_lim)
        around == {IF b # End THEN b ELSE IF after # End THEN after ELSE anywhere :
                      b \in BeforeOptions(m, it, len, lower_lim)}
    IN  IF hint = 0 THEN {anywhere}
        ELSE IF it = End \/ m[it].start >= Wrap(hint + len) THEN {hint}
        ELSE around

(* One turn of Modify per interval: left_it is the interval before it.     *)
RECURSIVE ModifyFrom(_, _, _, _, _, _)
ModifyFrom(m, left_it, it, start, end, arg) ==
    IF it = End \/ m[it].start >= end
    THEN IF it = End THEN m ELSE TryMergeRight(m, left_it, it)
    ELSE IF ~Check(m[it], arg)
    THEN LET after == TryMergeRight(m, left_it, it)
         IN  ModifyFrom(after, it, next(after, it), start, end, arg)
    ELSE LET split == IF start > m[it].start
                      THEN [Put(m, start, TrimTail(m[it], start)) EXCEPT ![it] = TrimHead(m[it], start)]
                      ELSE m
             item == split[it]
             part == Change(TrimTail(item, end), arg)
             joins == left_it # End /\ Mergeable(split[left_it], part)
             after == IF end < item.end
                   THEN [Put(IF joins THEN Erase(split, left_it) ELSE split,
                             end, IF joins THEN Merged(split[left_it], part) ELSE part)
                         EXCEPT ![it] = TrimHead(item, end)]
                   ELSE TryMergeRight([split EXCEPT ![it] = Change(item, arg)], left_it, it)
         IN  ModifyFrom(after, it, next(after, it), start, end, arg)

Modify(m, start, end, arg) ==
    LET it == upper_bound(m, start)
    IN  ModifyFrom(m, IF it = begin(m) THEN End ELSE prev(m, it), it, start, end, arg)
==============================================================================

------------------------------ MODULE MemoryMap ------------------------------
(***************************************************************************)
(* Memory maps (kernel/mm.h, kernel/mm.cc): each process has a region of   *)
(* one address space and a set of VMAs that mirrors the host kernel's page *)
(* protections; mem_areas_ records what is taken across all processes.     *)
(*                                                                         *)
(* Calls on one map exclude each other (mu_).  A call is one step, but for *)
(* mmap outside the region, which reserves from mem_areas_ before it maps, *)
(* and munmap, which gives back to mem_areas_ after it has released mu_.   *)
(* Programs name only ranges of their own region or of their own VMAs.     *)
(***************************************************************************)
EXTENDS Integers, FiniteSets, FiniteSetsExt, TLC

CONSTANTS
    Maps,
    PageSize,
    RegionLen,        \* kMemoryMappingSize
    kVirtualAreaMax,
    Modulus,          \* 2^64
    None,
    Workloads         \* what programs do, see Init

ASSUME SizesAssumption ==
    /\ PageSize \in Nat \ {0} /\ RegionLen \in Nat \ {0}
    /\ RegionLen % PageSize = 0 /\ kVirtualAreaMax % PageSize = 0
    /\ kVirtualAreaMax < Modulus

VARIABLES
    load,        \* the workload
    mm_start_,   \* start of a map's region; None if the map does not exist
    brk_addr_, vmareas_,
    tracer_,     \* None, or the pages read and written so far
    mem_areas_,
    kern,        \* the host kernel: the protection of each page, or {"free"}
    mapping,     \* an mmap that has reserved and not mapped yet, or None
    unmapping,   \* ranges that munmap has still to give back
    panic,       \* MMPanic was called
    replaced     \* history: mapped pages that an mmap without MAP_FIXED took

vars == <<load, mm_start_, brk_addr_, vmareas_, tracer_, mem_areas_, kern, mapping, unmapping, panic, replaced>>

Pages == {p \in 0..(kVirtualAreaMax - 1) : p % PageSize = 0}
PageAlign(a) == ((a + PageSize - 1) \div PageSize) * PageSize
PagesOf(start, end) == {p \in Pages : start <= p /\ p < end}
Free == {"free"}
mm_end_(m) == mm_start_[m] + RegionLen
InRegion(m, start, end) == start >= mm_start_[m] /\ end <= mm_end_(m)

VMArea(start, end, prot, type, offset) ==
    [start |-> start, end |-> end, prot |-> prot, type |-> type, traced |-> FALSE, offset |-> offset]

TrimTail(vma, new_end) == [vma EXCEPT !.end = new_end]
TrimHead(vma, new_start) ==
    [vma EXCEPT !.start = new_start,
                !.offset = IF vma.type = "file" THEN @ + (new_start - vma.start) ELSE @]

(* Mutant: the offsets of file mappings are not compared.                  *)
MergeableAnyOffset(lhs, rhs) ==
    /\ lhs.end = rhs.start /\ lhs.type = rhs.type /\ lhs.prot = rhs.prot
    /\ lhs.traced = rhs.traced

MappingsMergeable(lhs, rhs) ==
    /\ lhs.end = rhs.start /\ lhs.type = rhs.type /\ lhs.prot = rhs.prot
    /\ lhs.traced = rhs.traced
    /\ lhs.type = "file" => lhs.offset + (lhs.end - lhs.start) = rhs.offset

TryMergeRight(lhs, rhs) == [rhs EXCEPT !.start = lhs.start, !.offset = lhs.offset]

(* What Modify and EndTracing do to one VMA: prot is a protection, or      *)
(* "untrace".                                                              *)
ModifyCheck(vma, prot) == prot = {"untrace"} \/ vma.prot # prot
ModifyChange(vma, prot) ==
    IF prot = {"untrace"} THEN [vma EXCEPT !.traced = FALSE] ELSE [vma EXCEPT !.prot = prot]

VMAs == INSTANCE IntervalSet WITH
    TrimTail <- TrimTail, TrimHead <- TrimHead,
    Mergeable <- MappingsMergeable, Merged <- TryMergeRight,
    Check <- ModifyCheck, Change <- ModifyChange, Modulus <- Modulus

(* SimpleInterval: any two adjacent intervals merge.                       *)
SimpleInterval(start, end) == [start |-> start, end |-> end]
SimpleTrimTail(iv, new_end) == [iv EXCEPT !.end = new_end]
SimpleTrimHead(iv, new_start) == [iv EXCEPT !.start = new_start]
SimpleMergeable(lhs, rhs) == lhs.end = rhs.start
SimpleMerged(lhs, rhs) == [rhs EXCEPT !.start = lhs.start]
NeverModified(iv, arg) == FALSE

Areas == INSTANCE IntervalSet WITH
    TrimTail <- SimpleTrimTail, TrimHead <- SimpleTrimHead,
    Mergeable <- SimpleMergeable, Merged <- SimpleMerged,
    Check <- NeverModified, Change <- NeverModified, Modulus <- Modulus

Entries(vmas) == {vmas[e] : e \in DOMAIN vmas}
AreaPages == UNION {PagesOf(iv.start, iv.end) : iv \in Entries(mem_areas_)}
NoOverlap(S, start, end) == \A iv \in S : iv.end <= start \/ end <= iv.start
VMAPages(m) == UNION {PagesOf(v.start, v.end) : v \in Entries(vmareas_[m])}
VMAAt(m, p) == CHOOSE v \in Entries(vmareas_[m]) : v.start <= p /\ p < v.end
------------------------------------------------------------------------------
Init ==
    /\ load \in Workloads
    /\ mm_start_ = [m \in Maps |-> None]
    /\ brk_addr_ = [m \in Maps |-> 0]
    /\ vmareas_ = [m \in Maps |-> VMAs!Empty]
    /\ tracer_ = [m \in Maps |-> None]
    /\ mem_areas_ = Areas!Empty
    /\ kern = [p \in Pages |-> Free]
    /\ mapping = [m \in Maps |-> None]
    /\ unmapping = [m \in Maps |-> {}]
    /\ panic = FALSE
    /\ replaced = {}

Does(op) == ~panic /\ op \in load.ops
Alive(m) == mm_start_[m] # None

(* mu_ can be taken.  A traced map's calls hold mm_lock_ throughout.       *)
Locked(m) == Alive(m) /\ mapping[m] = None

Kernel(S, prot) == kern' = [p \in Pages |-> IF p \in S THEN prot ELSE kern[p]]
SetVMAs(m, vmas) == vmareas_' = [vmareas_ EXCEPT ![m] = vmas]

(* The host kernel finds the whole range inside the address space.         *)
Addressable(start, end) == end <= kVirtualAreaMax

(* Some range of the address space is long enough for a region.            *)
Room == \E a \in Pages : a + RegionLen <= kVirtualAreaMax /\ NoOverlap(Entries(mem_areas_), a, a + RegionLen)

Create(m) ==
    /\ Does("create") /\ ~Alive(m) /\ unmapping[m] = {}
    /\ load.hints = "any" \/ Room
    /\ \E base \in Areas!FindFreeRange(mem_areas_, 0, RegionLen, kVirtualAreaMax, 0) :
        LET S == PagesOf(base, base + RegionLen)
            fits == base # Areas!End /\ Addressable(base, base + RegionLen) /\ \A p \in S : kern[p] = Free
        IN  /\ base # Areas!End => mem_areas_' = Areas!Insert(mem_areas_, SimpleInterval(base, base + RegionLen))
            /\ base = Areas!End => UNCHANGED mem_areas_
            /\ panic' = (base # Areas!End /\ ~fits)
            /\ IF fits
               THEN /\ Kernel(S, {})
                    /\ mm_start_' = [mm_start_ EXCEPT ![m] = base]
                    /\ brk_addr_' = [brk_addr_ EXCEPT ![m] = base]
               ELSE UNCHANGED <<kern, mm_start_, brk_addr_>>
    /\ UNCHANGED <<load, vmareas_, tracer_, mapping, unmapping, replaced>>

MunmapCheck(m, areas, start, end) ==
    LET below == IF start < mm_start_[m] THEN Areas!Clear(areas, start, Min({end, mm_start_[m]})) ELSE areas
    IN  IF end > mm_end_(m) THEN Areas!Clear(below, Max({mm_end_(m), start}), end) ELSE below

(* UnmapAll and the destructor give back every VMA, one after the other.   *)
MunmapCheckAll(m, areas) ==
    FoldSet(LAMBDA v, a : MunmapCheck(m, a, v.start, v.end), areas, Entries(vmareas_[m]))

UnmapAll(m) ==
    /\ Does("unmapall") /\ Locked(m)
    /\ Kernel(VMAPages(m), Free)
    /\ mem_areas_' = MunmapCheckAll(m, mem_areas_)
    /\ SetVMAs(m, VMAs!Empty)
    /\ UNCHANGED <<load, mm_start_, brk_addr_, tracer_, mapping, unmapping, panic, replaced>>

(* ~MemoryMap, once no thread of the process is in a call.                 *)
Destroy(m) ==
    /\ Does("destroy") /\ Locked(m) /\ unmapping[m] = {}
    /\ Kernel(VMAPages(m) \cup PagesOf(mm_start_[m], mm_end_(m)), Free)
    /\ mem_areas_' = Areas!Clear(MunmapCheckAll(m, mem_areas_), mm_start_[m], mm_end_(m))
    /\ SetVMAs(m, VMAs!Empty)
    /\ mm_start_' = [mm_start_ EXCEPT ![m] = None]
    /\ brk_addr_' = [brk_addr_ EXCEPT ![m] = 0]
    /\ tracer_' = [tracer_ EXCEPT ![m] = None]
    /\ UNCHANGED <<load, mapping, unmapping, panic, replaced>>
------------------------------------------------------------------------------

(* The first VMA that ends above the break starts below the new one.       *)
BreakBlocked(m, hi) ==
    LET it == VMAs!upper_bound(vmareas_[m], brk_addr_[m])
    IN  IF it = VMAs!End THEN FALSE ELSE vmareas_[m][it].start < hi

SetBreak(m, newbrk) ==
    LET oldbrk == brk_addr_[m]
        lo == PageAlign(oldbrk)
        hi == PageAlign(newbrk)
    IN  /\ Does("brk") /\ Locked(m)
        /\ newbrk \in mm_start_[m]..(mm_end_(m) - 1)
        /\ lo = hi \/ ~BreakBlocked(m, hi)
        /\ brk_addr_' = [brk_addr_ EXCEPT ![m] = newbrk]
        /\ IF lo = hi THEN UNCHANGED <<kern, vmareas_>>
           ELSE IF lo < hi
           THEN /\ Kernel(PagesOf(lo, hi), {"R", "W"})
                /\ SetVMAs(m, VMAs!Insert(vmareas_[m], VMArea(lo, hi, {"R", "W"}, "heap", 0)))
           ELSE /\ Kernel(PagesOf(hi, lo), {})
                /\ SetVMAs(m, VMAs!Clear(vmareas_[m], hi, lo))
        /\ UNCHANGED <<load, mm_start_, tracer_, mem_areas_, mapping, unmapping, panic, replaced>>

(* The file offset, or 0 where there is no file.                           *)
Offset(type, off) == IF type = "file" THEN off ELSE 0

(* The last part of MMap: the host kernel maps, then the VMA is inserted.  *)
DoMap(m, start, len, prot, type, off) ==
    /\ Addressable(start, start + len)
    /\ Kernel(PagesOf(start, start + len), prot)
    /\ SetVMAs(m, VMAs!Insert(vmareas_[m], VMArea(start, start + len, prot, type, Offset(type, off))))

Own(m, start, end) == InRegion(m, start, end) \/ PagesOf(start, end) \subseteq VMAPages(m)

MMapFixed(m, addr, len, prot, type, off) ==
    /\ Does("mmap") /\ Locked(m) /\ load.fixed /\ Own(m, addr, addr + len)
    /\ DoMap(m, addr, len, prot, type, off)
    /\ UNCHANGED <<load, mm_start_, brk_addr_, tracer_, mem_areas_, mapping, unmapping, panic, replaced>>

Outside(m, hint, len) == hint # 0 /\ ~InRegion(m, hint, hint + len)

(* mmap without MAP_FIXED, with no hint or one inside the region.          *)
MMapInside(m, hint, len, prot, type, off) ==
    /\ Does("mmap") /\ Locked(m)
    /\ hint = 0 \/ (hint # 0 /\ load.hints # "none" /\ ~Outside(m, hint, len))
    /\ load.hints = "free" => hint = 0 \/ NoOverlap(Entries(vmareas_[m]), hint, hint + len)
    /\ \E addr \in VMAs!FindFreeRange(vmareas_[m], hint, len, mm_end_(m), brk_addr_[m]) :
        /\ addr # VMAs!End /\ DoMap(m, addr, len, prot, type, off)
        /\ replaced' = PagesOf(addr, addr + len) \cap VMAPages(m)
    /\ UNCHANGED <<load, mm_start_, brk_addr_, tracer_, mem_areas_, mapping, unmapping, panic>>

(* With a hint outside the region: first the reservation, under mm_lock_.  *)
MMapReserve(m, hint, len, prot) ==
    /\ Does("outside") /\ Locked(m) /\ Outside(m, hint, len)
    /\ load.hints = "free" =>
           hint + len <= mm_start_[m] /\ NoOverlap(Entries(mem_areas_), hint, hint + len)
    /\ \E addr \in Areas!FindFreeRange(mem_areas_, hint, len, kVirtualAreaMax, 0) :
        /\ addr # Areas!End
        /\ mem_areas_' = Areas!Insert(mem_areas_, SimpleInterval(addr, addr + len))
        /\ mapping' = [mapping EXCEPT ![m] = [addr |-> addr, len |-> len, prot |-> prot]]
    /\ UNCHANGED <<load, mm_start_, brk_addr_, vmareas_, tracer_, kern, unmapping, panic, replaced>>


(* Then the host kernel is asked not to replace anything.  A page that is  *)
(* in use is a panic; any other error gives the reservation back.          *)
MMapReserved(m) ==
    /\ ~panic /\ mapping[m] # None
    /\ LET r == mapping[m]
           end == r.addr + r.len
           busy == Addressable(r.addr, end) /\ \E p \in PagesOf(r.addr, end) : kern[p] # Free
       IN  \/ /\ Addressable(r.addr, end) /\ ~busy
              /\ DoMap(m, r.addr, r.len, r.prot, "normal", 0)
              /\ UNCHANGED <<mem_areas_, panic>>
           \/ /\ ~busy
              /\ mem_areas_' = Areas!Clear(mem_areas_, r.addr, end)
              /\ UNCHANGED <<kern, vmareas_, panic>>
           \/ busy /\ panic' = TRUE /\ UNCHANGED <<kern, vmareas_, mem_areas_>>
    /\ mapping' = [mapping EXCEPT ![m] = None]
    /\ UNCHANGED <<load, mm_start_, brk_addr_, tracer_, unmapping, replaced>>

MUnmap(m, start, end) ==
    /\ Does("munmap") /\ Locked(m) /\ Own(m, start, end)
    /\ Kernel(PagesOf(start, end), Free)
    /\ SetVMAs(m, VMAs!Clear(vmareas_[m], start, end))
    /\ unmapping' = [unmapping EXCEPT ![m] = IF InRegion(m, start, end) THEN @ ELSE @ \cup {<<start, end>>}]
    /\ UNCHANGED <<load, mm_start_, brk_addr_, tracer_, mem_areas_, mapping, panic, replaced>>

(* The tail of munmap, after mu_ is released.                              *)
MUnmapGiveBack(m) ==
    /\ ~panic
    /\ \E r \in unmapping[m] :
        /\ mem_areas_' = MunmapCheck(m, mem_areas_, r[1], r[2])
        /\ unmapping' = [unmapping EXCEPT ![m] = @ \ {r}]
    /\ UNCHANGED <<load, mm_start_, brk_addr_, vmareas_, tracer_, kern, mapping, panic, replaced>>
------------------------------------------------------------------------------
Tracing(m) == tracer_[m] # None

(* What mprotect leaves in the host kernel for one page of a traced map.   *)
TracerModifyProt(m, p, prot) ==
    LET v == VMAAt(m, p)
    IN  IF v.prot = prot THEN kern[p]
        ELSE IF ~v.traced THEN prot
        ELSE IF v.prot \subseteq prot THEN kern[p] ELSE {}

MProtect(m, start, end, prot) ==
    /\ Does("mprotect") /\ Locked(m) /\ Own(m, start, end)
    /\ PagesOf(start, end) \subseteq VMAPages(m)
    /\ SetVMAs(m, VMAs!Modify(vmareas_[m], start, end, prot))
    /\ IF Tracing(m)
       THEN kern' = [p \in Pages |->
                        IF p \in PagesOf(start, end) THEN TracerModifyProt(m, p, prot) ELSE kern[p]]
       ELSE Kernel(PagesOf(start, end), prot)
    /\ UNCHANGED <<load, mm_start_, brk_addr_, tracer_, mem_areas_, mapping, unmapping, panic, replaced>>

(* All threads are stopped, so no call is under way.                       *)
EnableTracing(m) ==
    /\ Does("trace") /\ Locked(m) /\ ~Tracing(m)
    /\ tracer_' = [tracer_ EXCEPT ![m] = [seen |-> {}, written |-> {}]]
    /\ SetVMAs(m, [e \in DOMAIN vmareas_[m] |-> [vmareas_[m][e] EXCEPT !.traced = TRUE]])
    /\ Kernel(VMAPages(m), {})
    /\ UNCHANGED <<load, mm_start_, brk_addr_, mem_areas_, mapping, unmapping, panic, replaced>>

EndTracing(m) ==
    /\ Does("trace") /\ Locked(m) /\ Tracing(m)
    /\ kern' = [p \in Pages |-> IF p \in VMAPages(m) THEN VMAAt(m, p).prot ELSE kern[p]]
    /\ SetVMAs(m, VMAs!Modify(vmareas_[m], 0, kVirtualAreaMax, {"untrace"}))
    /\ tracer_' = [tracer_ EXCEPT ![m] = None]
    /\ UNCHANGED <<load, mm_start_, brk_addr_, mem_areas_, mapping, unmapping, panic, replaced>>

(* A fault of a traced process: the access is recorded and the protection  *)
(* restored, writing only if this is a write.                              *)
HandlePageFault(m, p, required_prot) ==
    /\ Does("fault") /\ Locked(m) /\ Tracing(m)
    /\ kern[p] # Free /\ required_prot \notin kern[p]
    /\ p \in VMAPages(m) /\ required_prot \in VMAAt(m, p).prot
    /\ tracer_' = [tracer_ EXCEPT ![m].seen = @ \cup {p},
                                  ![m].written = IF required_prot = "W" THEN @ \cup {p} ELSE @]
    /\ Kernel({p}, IF required_prot = "W" THEN VMAAt(m, p).prot ELSE VMAAt(m, p).prot \ {"W"})
    /\ UNCHANGED <<load, mm_start_, brk_addr_, vmareas_, mem_areas_, mapping, unmapping, panic, replaced>>

(* Rewriting an instruction: the page is made writable and set back.       *)
HotPatchInstructions(m, p) ==
    /\ Does("patch") /\ Locked(m) /\ ~Tracing(m) /\ p \in VMAPages(m)
    /\ Kernel({p}, VMAAt(m, p).prot)
    /\ UNCHANGED <<load, mm_start_, brk_addr_, vmareas_, tracer_, mem_areas_, mapping, unmapping, panic, replaced>>

Lens == {n * PageSize : n \in 1..load.pages}

Next ==
    \E m \in load.maps :
        \/ Create(m) \/ UnmapAll(m) \/ Destroy(m)
        \/ MMapReserved(m) \/ MUnmapGiveBack(m)
        \/ EnableTracing(m) \/ EndTracing(m)
        \/ \E b \in 0..kVirtualAreaMax : SetBreak(m, b)
        \/ \E p \in Pages :
            \/ HotPatchInstructions(m, p)
            \/ \E access \in {"R", "W"} : HandlePageFault(m, p, access)
            \/ \E len \in Lens :
                \/ MUnmap(m, p, p + len)
                \/ \E prot \in load.prots :
                    \/ MProtect(m, p, p + len, prot)
                    \/ MMapReserve(m, p, len, prot)
                    \/ \E type \in load.types : \E off \in (IF type = "file" THEN {0, PageSize} ELSE {0}) :
                        \/ MMapFixed(m, p, len, prot, type, off)
                        \/ MMapInside(m, p, len, prot, type, off)

Spec == Init /\ [][Next]_vars
------------------------------------------------------------------------------
TypeOK ==
    /\ load \in Workloads
    /\ \A m \in Maps :
        /\ Alive(m) => mm_start_[m] \in Pages /\ brk_addr_[m] \in mm_start_[m]..(mm_end_(m) - 1)
        /\ ~Alive(m) => vmareas_[m] = VMAs!Empty /\ mapping[m] = None
    /\ kern \in [Pages -> {Free} \cup SUBSET {"R", "W"}]
    /\ panic \in BOOLEAN

(* The assertion MappingsValid of mm.cc, made after every change: VMAs are *)
(* keyed by their end, not empty, in order, and merged where they can be.  *)
MappingsValid ==
    \A m \in Maps : \A e \in DOMAIN vmareas_[m] :
        LET v == vmareas_[m][e]
        IN  /\ v.end = e /\ v.start < v.end
            /\ v.start % PageSize = 0 /\ v.end % PageSize = 0
            /\ \A o \in Entries(vmareas_[m]) \ {v} :
                   (o.end <= v.start \/ v.end <= o.start) /\ ~MappingsMergeable(o, v)

(* VMAs mirror the host kernel's page table (mm.cc:8): a mapped page has   *)
(* the VMA's protection, or less of it while it is traced; and a page a    *)
(* program can touch belongs to exactly one map.                           *)
MirrorsKernel ==
    /\ \A m \in Maps : \A v \in Entries(vmareas_[m]) : \A p \in PagesOf(v.start, v.end) :
           IF v.traced THEN kern[p] \subseteq v.prot ELSE kern[p] = v.prot
    /\ \A p \in Pages : kern[p] \cap {"R", "W"} # {} => Cardinality({m \in Maps : p \in VMAPages(m)}) = 1

(* mem_areas_ holds the regions, the mappings outside them and what calls  *)
(* under way have reserved or not yet given back, and nothing else: no two *)
(* processes are given the same addresses, and none are lost.              *)
PoolIsExact ==
    AreaPages = UNION {
        (IF Alive(m) THEN PagesOf(mm_start_[m], mm_end_(m)) \cup VMAPages(m) ELSE {})
        \cup (IF mapping[m] # None THEN PagesOf(mapping[m].addr, mapping[m].addr + mapping[m].len) ELSE {})
        \cup UNION {PagesOf(r[1], r[2]) : r \in unmapping[m]} : m \in Maps}

(* While a map is traced, a page it can read or write without a fault has  *)
(* been recorded as read or written (HandlePageFault, TracerModifyProt).   *)
TraceIsComplete ==
    \A m \in Maps : Tracing(m) =>
        \A p \in VMAPages(m) : VMAAt(m, p).traced =>
            /\ "R" \in kern[p] => p \in tracer_[m].seen
            /\ "W" \in kern[p] => p \in tracer_[m].written

(* The heap lies below the break, however brk and MAP_FIXED interleave     *)
(* (SetBreak).                                                             *)
HeapBelowBreak ==
    \A m \in Maps : \A v \in Entries(vmareas_[m]) :
        v.type = "heap" => mm_start_[m] <= v.start /\ v.end <= PageAlign(brk_addr_[m])

(* Reservations never meet a page in use: MMap and Create do not panic,    *)
(* although munmap gives back to mem_areas_ only after it releases mu_.    *)
NoPanic == ~panic

(* mmap without MAP_FIXED takes pages that no VMA of the process covers    *)
(* (FindFreeRange), whatever the hint.                                     *)
AnywhereIsFree == replaced = {}

PageView(m, p) ==
    LET hit == {v \in Entries(vmareas_[m]) : v.start <= p /\ p < v.end}
        v == CHOOSE v \in hit : TRUE
    IN  IF hit = {} THEN None
        ELSE [prot |-> v.prot, type |-> v.type,
              at |-> IF v.type = "file" THEN v.offset + (p - v.start) ELSE 0]

Abs == INSTANCE PageMap WITH
    Prots <- SUBSET {"R", "W"},
    pages <- [m \in Maps |-> [p \in Pages |-> PageView(m, p)]]

(* The VMAs, split and merged as calls go on, are a map from pages to      *)
(* mappings of which each call changes one range as it is asked to.        *)
ImplementsPageMap == Abs!Spec
==============================================================================

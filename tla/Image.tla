-------------------------------- MODULE Image --------------------------------
(***************************************************************************)
(* Memory images: how a snapshot writes the memory of a stopped process to *)
(* an ELF or a JIF file (snapshot_elf.cc, snapshot_jif.cc), how the file   *)
(* is loaded again (elf.cc, jif.cc), and how execve loads a program with   *)
(* its interpreter and sets up the stack (elf.cc, exec.cc).                *)
(*                                                                         *)
(* Memory is a function from addresses to cells, a page is Page cells, and *)
(* a file is a sequence of cells: <<"data", word>>, or a tagged header. A  *)
(* header, a program header, a path and an interval tree take a cell each. *)
(***************************************************************************)
EXTENDS Integers, Sequences, FiniteSetsExt, SequencesExt

CONSTANTS Page, None,
          Workloads   \* address spaces to save, or programs to load

VARIABLES load,
          pc,
          k,          \* the area or segment at hand
          kprot,      \* the host kernel's protection of the saved process's pages
          img,        \* the tables being built, or as parsed
          iov,        \* what WritevFull has still to write
          disk,       \* the file
          res         \* the memory loaded
vars == <<load, pc, k, kprot, img, iov, disk, res>>

PageAlignDown(n) == n - (n % Page)
PageAlign(n) == PageAlignDown(n + Page - 1)
Pages(start, len) == {a \div Page : a \in start..(start + len - 1)}
Update(f, S, v(_)) == [x \in DOMAIN f |-> IF x \in S THEN v(x) ELSE f[x]]

Data(w) == <<"data", w>>
Zeros(n) == [i \in 1..n |-> Data(0)]
Pad(s) == Zeros(PageAlign(Len(s)) - Len(s))
Total(v) == Len(FlattenSeq(v))
Fails(what) == what \in load.faults

-----------------------------------------------------------------------------
(* The areas to save: VMAs, and the memory of in-memory files ("fs").      *)
Length(a) == a.end - a.start

(* VMArea::DataLength: nothing past the end of a mapped file is data.      *)
DataLength(a) ==
  CASE a.kind = "fs" -> a.used
    [] a.kind = "anon" -> Length(a)
    [] OTHER -> IF a.offset > a.size THEN 0 ELSE Min({PageAlign(a.size - a.offset), Length(a)})

(* The length up to the last non-zero word; then in whole pages.           *)
GetMinSize(start, n) == Max({0} \cup {i \in 1..n : load.mem[start + i - 1] # 0})
SavedSize(a) == PageAlign(GetMinSize(a.start, DataLength(a)))
Contents(start, n) == [i \in 1..n |-> Data(load.mem[start + i - 1])]

(* An area that cannot be read is made readable for as long as its data    *)
(* goes.                                                                   *)
NeedsRead(a) == DataLength(a) > 0 /\ "r" \notin a.prot
MakeReadable(a) ==
  IF NeedsRead(a) THEN Update(kprot, Pages(a.start, DataLength(a)), LAMBDA p : a.prot \cup {"r"}) ELSE kprot

Init ==
  /\ load \in Workloads
  /\ pc = IF load.fmt = "exec" THEN "exec" ELSE "add"
  /\ k = 1
  /\ kprot = [p \in Pages(0, load.top) |->
       UNION {load.areas[i].prot : i \in {j \in DOMAIN load.areas :
                p \in Pages(load.areas[j].start, Length(load.areas[j]))}}]
  /\ img = [phdrs |-> <<>>, strings |-> <<>>, itrees |-> <<>>, iovs |-> <<>>, base |-> 0,
            file |-> <<>>, argv |-> load.argv]
  /\ iov = <<>>
  /\ disk = <<>>
  /\ res = [mem |-> [a \in 0..(load.top - 1) |-> None], prot |-> [p \in Pages(0, load.top) |-> None],
            ok |-> TRUE, at |-> <<>>]

(* The section of GetElfPHDRs and of jif_data::AddPhdr for one area. ELF   *)
(* offsets count from the file's start, which is known beforehand; JIF     *)
(* offsets count from the data's until Absolute.                           *)
ElfStart == PageAlign(1 + Len(load.areas))
ElfPhdr(a) ==
  [type |-> "load", flags |-> a.prot, offset |-> ElfStart + Total(img.iovs), vaddr |-> a.start,
   filesz |-> SavedSize(a), memsz |-> Length(a)]

Shareable(a) == a.kind = "file" /\ a.shareable
IntervalsData(a) ==
  IF SavedSize(a) > 0 THEN <<[start |-> a.start, end |-> a.start + SavedSize(a), offset |-> Total(img.iovs)]>> ELSE <<>>
Intervals(a) ==
  LET n == SavedSize(a) IN
    (IF n > 0 THEN <<[start |-> a.start, end |-> a.start + n, offset |-> Total(img.iovs)]>> ELSE <<>>)
    \o (IF Shareable(a) /\ DataLength(a) > n
        THEN <<[start |-> a.start + n, end |-> a.start + DataLength(a), offset |-> None]>> ELSE <<>>)
JifPhdr(a) ==
  [vbegin |-> a.start, vend |-> a.end, prot |-> a.prot,
   ref_offset |-> IF Shareable(a) THEN a.offset ELSE None,
   pathname |-> IF Shareable(a) THEN Len(img.strings) + 1 ELSE None,
   itree_idx |-> Len(img.itrees) + 1, itree_n_nodes |-> IF Intervals(a) # <<>> THEN 1 ELSE 0]

Added(a) ==
  [img EXCEPT
     !.phdrs = Append(@, <<"phdr", IF load.fmt = "elf" THEN ElfPhdr(a) ELSE JifPhdr(a)>>),
     !.strings = IF load.fmt = "jif" /\ Shareable(a) THEN Append(@, <<"path", a.path>>) ELSE @,
     !.itrees = IF load.fmt = "jif" /\ Intervals(a) # <<>> THEN Append(@, <<"itree", Intervals(a)>>) ELSE @,
     !.iovs = IF SavedSize(a) > 0 THEN Append(@, Contents(a.start, SavedSize(a))) ELSE @]

(* One area. Of a failed mprotect only GetElfPHDRs takes notice;           *)
(* GetJifVmaData goes on without the area.                                 *)
AddPhdr ==
  /\ pc = "add" /\ k <= Len(load.areas)
  /\ LET a == load.areas[k] IN
     \/ /\ NeedsRead(a) /\ Fails("mprotect")
        /\ IF load.fmt = "elf" THEN pc' = "failed" /\ UNCHANGED k ELSE k' = k + 1 /\ UNCHANGED pc
        /\ UNCHANGED <<kprot, img>>
     \/ /\ kprot' = MakeReadable(a)
        /\ pc' = IF \A p \in Pages(a.start, DataLength(a)) : "r" \in kprot'[p] THEN "add" ELSE "fault"
        /\ img' = Added(a)
        /\ k' = k + 1
  /\ UNCHANGED <<load, iov, disk, res>>

-----------------------------------------------------------------------------
(* The file's header, and the layout its fields give the file.             *)
Header ==
  IF load.fmt = "elf"
  THEN [type |-> "exec", phnum |-> Len(img.phdrs)]
  ELSE [type |-> "jif", phnum |-> Len(img.phdrs), strings_size |-> PageAlign(Len(img.strings)),
        itrees_size |-> PageAlign(Len(img.itrees)), ord_size |-> 0]
strings_offset(h) == PageAlign(1 + h.phnum)
itrees_offset(h) == strings_offset(h) + h.strings_size
data_offset(h) == itrees_offset(h) + h.itrees_size + h.ord_size

(* Make itree offsets absolute in the JIF file.                            *)
Absolute(itree) ==
  <<"itree", [i \in DOMAIN itree[2] |->
     [itree[2][i] EXCEPT !.offset = IF @ = None THEN @ ELSE @ + data_offset(Header)]]>>

Tables ==
  LET first == <<<<"hdr", Header>>>> \o img.phdrs
      itrees == [i \in DOMAIN img.itrees |-> Absolute(img.itrees[i])] IN
  IF load.fmt = "elf" THEN <<first, Pad(first)>> \o img.iovs
  ELSE <<first, Pad(first), img.strings, Pad(img.strings), itrees, Pad(itrees)>>

Open ==
  /\ pc = "add" /\ k > Len(load.areas)
  /\ \/ Fails("open") /\ pc' = "failed" /\ UNCHANGED iov
     \/ pc' = "write" /\ iov' = Tables
  /\ UNCHANGED <<load, k, kprot, img, disk, res>>

(* DoFull: pwritev may write any part of what it is given; PullIOV drops   *)
(* what was written from the front of the vector.                          *)
PullIOV(v, n) ==
  LET done(i) == Total(SubSeq(v, 1, i))
      whole == Max({i \in 0..Len(v) : done(i) <= n}) IN
  IF whole = Len(v) THEN <<>>
  ELSE <<SubSeq(v[whole + 1], n - done(whole) + 1, Len(v[whole + 1]))>> \o SubSeq(v, whole + 2, Len(v))

WritevFull ==
  /\ pc \in {"write", "data"}
  /\ \/ \E n \in 1..Total(iov) :
          /\ disk' = disk \o SubSeq(FlattenSeq(iov), 1, n)
          /\ iov' = PullIOV(iov, n)
          /\ UNCHANGED pc
     \/ /\ Total(iov) > 0 /\ Fails("write")
        /\ pc' = "failed" /\ UNCHANGED <<iov, disk>>
     \/ /\ Total(iov) = 0
        /\ IF load.fmt = "jif" /\ pc = "write" THEN pc' = "data" /\ iov' = img.iovs
           ELSE pc' = "protect" /\ UNCHANGED iov
        /\ UNCHANGED disk
  /\ UNCHANGED <<load, k, kprot, img, res>>

(* RestoreVMAProtections walks the VMAs and undoes MakeReadable.           *)
RestoreVMAProtections ==
  /\ pc = "protect"
  /\ kprot' = FoldLeft(LAMBDA f, a : IF a.kind # "fs" /\ NeedsRead(a)
                                     THEN Update(f, Pages(a.start, DataLength(a)), LAMBDA p : a.prot) ELSE f,
                       kprot, load.areas)
  /\ pc' = "saved"
  /\ UNCHANGED <<load, k, img, iov, disk, res>>

-----------------------------------------------------------------------------
(* Loading. A page of a file mapping past the end of the file faults.      *)
FileCell(f, i) ==
  CASE i < Len(f) -> f[i + 1] [] i < PageAlign(Len(f)) -> Data(0) [] OTHER -> <<"bus", 0>>

MMap(r, start, len, prot, cells) ==
  [r EXCEPT !.mem = Update(@, DOMAIN cells, LAMBDA a : cells[a]),
            !.prot = Update(@, Pages(start, len), LAMBDA p : prot)]
MMapFile(r, start, len, prot, f, off) ==
  MMap(r, start, len, prot, [a \in start..(start + PageAlign(len) - 1) |-> FileCell(f, off + a - start)])
MMapAnonymous(r, start, len, prot) ==
  MMap(r, start, len, prot, [a \in start..(start + PageAlign(len) - 1) |-> Data(0)])
MProtect(r, start, prot) == [r EXCEPT !.prot = Update(@, {start \div Page}, LAMBDA p : prot)]
MemSet(r, from, to) ==
  [r EXCEPT !.mem = Update(@, from..(to - 1), LAMBDA a : Data(0)),
            !.ok = @ /\ \A p \in Pages(from, to - from) : "w" \in r.prot[p]]

(* LoadOneSegment: the file's part, the rest of its last page, the rest.   *)
ZeroGapNot(r, ph, file_end) == r
ZeroGap(r, ph, file_end) ==
  LET gap_end == PageAlign(file_end)
      page == PageAlignDown(file_end) IN
  IF gap_end <= file_end THEN r
  ELSE IF "w" \in ph.flags THEN MemSet(r, file_end, gap_end)
  ELSE MProtect(MemSet(MProtect(r, page, ph.flags \cup {"w"}), file_end, gap_end), page, ph.flags)

LoadOneSegment(r, ph) ==
  LET start == PageAlignDown(ph.vaddr + img.base)
      file_end == ph.vaddr + img.base + ph.filesz
      mem_end == ph.vaddr + img.base + ph.memsz
      gap_end == PageAlign(file_end)
      r1 == IF file_end > start
            THEN MMapFile(r, start, file_end - start, ph.flags, disk, PageAlignDown(ph.offset)) ELSE r
      r2 == ZeroGap(r1, ph, file_end) IN
  IF mem_end > gap_end THEN MMapAnonymous(r2, gap_end, mem_end - gap_end, ph.flags) ELSE r2

(* LoadPhdr: the backing region, a reference file or anonymous memory, and *)
(* the intervals of the tree on top of it.                                 *)
LoadPhdr(r, ph) ==
  LET len == ph.vend - ph.vbegin
      r1 == IF ph.ref_offset # None
            THEN MMapFile(r, ph.vbegin, len, ph.prot, load.files[img.strings[ph.pathname][2]], ph.ref_offset)
            ELSE MMapAnonymous(r, ph.vbegin, len, ph.prot) IN
  IF ph.itree_n_nodes = 0 THEN r1
  ELSE FoldLeft(LAMBDA q, v : IF v.offset # None
                              THEN MMapFile(q, v.start, v.end - v.start, ph.prot, disk, v.offset)
                              ELSE MMapAnonymous(q, v.start, v.end - v.start, ph.prot),
                r1, img.itrees[ph.itree_idx][2])

(* ReadHeader, ReadPHDRs, ReadStrings, ReadITrees: every table is read at  *)
(* the place the header gives; a file that ends before it is refused.      *)
Table(from, n) == SubSeq(disk, from + 1, from + n)
ITreeValid(t, min, max) ==
  \A i \in DOMAIN t : t[i].end <= max /\ t[i].start >= (IF i = 1 THEN min ELSE t[i - 1].end)
ElfValid(ph) == ph.filesz <= ph.memsz /\ ph.vaddr % Page = ph.offset % Page
JifValid(ph) ==
  /\ ph.vbegin % Page = 0 /\ ph.vend % Page = 0 /\ ph.vbegin <= ph.vend
  /\ ph.ref_offset # None => ph.ref_offset % Page = 0 /\ ph.pathname # None

HeaderIsValid == disk # <<>> /\ disk[1][1] = "hdr"
Parsed ==
  LET h == disk[1][2]
      ph == Table(1, h.phnum) IN
  IF h.type = "jif"
  THEN [img EXCEPT !.phdrs = ph, !.strings = Table(strings_offset(h), h.strings_size),
                   !.itrees = Table(itrees_offset(h), h.itrees_size)]
  ELSE [img EXCEPT !.phdrs = ph]
Loadable(m) ==
  LET h == disk[1][2] IN
  /\ Len(m.phdrs) = h.phnum
  /\ \A i \in DOMAIN m.phdrs : IF h.type = "jif" THEN JifValid(m.phdrs[i][2]) ELSE ElfValid(m.phdrs[i][2])
  /\ h.type = "jif" =>
       /\ Len(m.strings) = h.strings_size /\ Len(m.itrees) = h.itrees_size
       /\ \A i \in DOMAIN m.phdrs : LET ph == m.phdrs[i][2] IN
            ph.itree_n_nodes > 0 => ITreeValid(m.itrees[ph.itree_idx][2], ph.vbegin, ph.vend)

(* RestoreProcessFromELF, RestoreProcessFromJIF up to the first segment.   *)
Parse ==
  /\ pc = "saved"
  /\ IF HeaderIsValid /\ Loadable(Parsed)
     THEN pc' = "map" /\ img' = [Parsed EXCEPT !.base = 0] ELSE pc' = "refused" /\ UNCHANGED img
  /\ k' = 1
  /\ UNCHANGED <<load, kprot, iov, disk, res>>

(* LoadSegments, LoadJIF: one segment; RunThreads, or the stack, is last.  *)
MapSegment ==
  /\ pc = "map"
  /\ IF k <= Len(img.phdrs)
     THEN LET ph == img.phdrs[k][2] IN
          /\ res' = CASE load.fmt = "jif" -> LoadPhdr(res, ph)
                      [] load.fmt # "jif" /\ ph.type = "load" -> LoadOneSegment(res, ph)
                      [] OTHER -> res
          /\ pc' = IF res'.ok THEN "map" ELSE "fault"
          /\ k' = k + 1
          /\ UNCHANGED disk
     ELSE /\ pc' = CASE load.fmt # "exec" -> "running" [] disk = img.file -> "stack" [] OTHER -> "program"
          /\ UNCHANGED <<k, res, disk>>
  /\ UNCHANGED <<load, kprot, img, iov>>

-----------------------------------------------------------------------------
(* execve. A script names the program to run instead, whose path goes in   *)
(* front of the arguments; kMaxInterpFollow scripts are followed.          *)
kMaxInterpFollow == 4
IsElf(f) == f # <<>> /\ f[1][1] = "hdr"
Reloc(f) == f[1][2].type = "dyn"
CheckELFLoad(f) ==
  IsElf(f) /\ f[1][2].type \in {"exec", "dyn"} /\ (f[1][2].type = "exec" => ~load.must_be_reloc)
IsScript(f) == f # <<>> /\ f[1][1] = "script"

PrependArgs(tokens) == tokens \o img.argv
ResolveElf ==
  /\ pc = "exec"
  /\ LET path == IF k = 1 THEN load.path ELSE img.argv[1]
         f == load.files[path] IN
     \/ /\ CheckELFLoad(f)
        /\ pc' = "interp" /\ img' = [img EXCEPT !.file = f] /\ UNCHANGED k
     \/ /\ ~CheckELFLoad(f) /\ k <= kMaxInterpFollow /\ IsScript(f) /\ f[1][2] \in DOMAIN load.files
        /\ img' = [img EXCEPT !.argv = PrependArgs(<<f[1][2]>>)] /\ k' = k + 1 /\ UNCHANGED pc
     \/ /\ ~CheckELFLoad(f) /\ ~(k <= kMaxInterpFollow /\ IsScript(f) /\ f[1][2] \in DOMAIN load.files)
        /\ pc' = "refused" /\ UNCHANGED <<img, k>>
  /\ UNCHANGED <<load, kprot, iov, disk, res>>

(* DoELFLoad: the interpreter, if the program names one, is loaded first,  *)
(* and must be relocatable.                                                *)
FindPHDRByType(f, t) == SelectSeq(SubSeq(f, 2, 1 + f[1][2].phnum), LAMBDA c : c[2].type = t)
LoadInterp ==
  /\ pc = "interp"
  /\ LET ph == FindPHDRByType(img.file, "interp")
         f == IF ph = <<>> THEN <<>> ELSE load.files[ph[1][2].path] IN
     IF ph = <<>> THEN pc' = "program" /\ UNCHANGED disk
     ELSE IF IsElf(f) /\ Reloc(f) THEN pc' = "base" /\ disk' = f
     ELSE pc' = "refused" /\ UNCHANGED disk
  /\ UNCHANGED <<load, k, kprot, img, iov, res>>

Program ==
  /\ pc = "program"
  /\ disk' = img.file /\ pc' = "base"
  /\ UNCHANGED <<load, k, kprot, img, iov, res>>

(* LoadSegments: room for all the segments, wherever mmap finds it.        *)
CountTotalLength(phs) ==
  Max({0} \cup {phs[i][2].vaddr + phs[i][2].memsz : i \in {j \in DOMAIN phs : phs[j][2].type = "load"}})
Free(start, len) == /\ start + PageAlign(len) <= load.top
                    /\ \A p \in Pages(start, len) : res.prot[p] = None
FreeRange(len) == {start \in {p * Page : p \in DOMAIN res.prot} : Free(start, len)}

LoadSegments ==
  /\ pc = "base"
  /\ k' = 1
  /\ IF ~Loadable(Parsed) THEN pc' = "refused" /\ UNCHANGED <<img, res>>
     ELSE LET len == CountTotalLength(Parsed.phdrs) IN
       /\ pc' = "map"
       /\ IF Reloc(disk)
          THEN \E b \in FreeRange(len) :
                 /\ img' = [Parsed EXCEPT !.base = b]
                 /\ res' = [MMapAnonymous(res, b, len, {}) EXCEPT !.at = Append(@, [f |-> disk, base |-> b])]
          ELSE /\ img' = [Parsed EXCEPT !.base = 0]
               /\ res' = [res EXCEPT !.at = Append(@, [f |-> disk, base |-> 0])]
  /\ UNCHANGED <<load, kprot, iov, disk>>

(* FinishExec: the stack, with as much again below it as a guard.          *)
FinishExec ==
  /\ pc = "stack"
  /\ \E s \in FreeRange(2 * load.stack) :
       res' = [MMapAnonymous(MMapAnonymous(res, s, 2 * load.stack, {}), s + load.stack, load.stack, {"r", "w"})
                 EXCEPT !.at = Append(@, [f |-> <<>>, base |-> s])]
  /\ pc' = "running"
  /\ UNCHANGED <<load, k, kprot, img, iov, disk>>

-----------------------------------------------------------------------------
Next ==
  \/ AddPhdr \/ Open \/ WritevFull \/ RestoreVMAProtections \/ Parse \/ MapSegment
  \/ ResolveElf \/ LoadInterp \/ Program \/ LoadSegments \/ FinishExec
Spec == Init /\ [][Next]_vars

(* A process restored from an image finds its memory as it was when it was *)
(* saved: every area at its place with its protection, and every word of   *)
(* its data, whatever was trimmed, padded, shared or written in pieces on  *)
(* the way (GetMinSize, AddPhdr, WritevFull, LoadPhdr, LoadOneSegment).    *)
RoundTrip ==
  pc = "running" /\ load.fmt # "exec" =>
    \A i \in DOMAIN load.areas :
      LET a == load.areas[i] IN
      /\ \A p \in Pages(a.start, Length(a)) : res.prot[p] = a.prot
      /\ \A x \in a.start..(a.start + DataLength(a) - 1) : res.mem[x] = Data(load.mem[x])
      /\ \A x \in (a.start + DataLength(a))..(a.end - 1) : a.kind = "fs" => res.mem[x] = Data(0)

(* A finished snapshot is one that can be loaded, and leaves the process   *)
(* running with the protections it had (GetElfPHDRs and AddPhdr make areas *)
(* readable, RestoreVMAProtections undoes it). Neither saving nor loading  *)
(* touches memory it may not.                                              *)
SavedCleanly ==
  /\ pc # "fault"
  /\ load.fmt # "exec" =>
       /\ pc # "refused"
       /\ pc \in {"saved", "map", "running"} =>
            \A i \in DOMAIN load.areas : LET a == load.areas[i] IN
              \A p \in Pages(a.start, Length(a)) : kprot[p] = a.prot

(* A program starts with each segment's bytes at its place, zeros from the *)
(* end of the file's part to the end of the segment and the segment's      *)
(* protection on all its pages, with a stack above an inaccessible guard,  *)
(* and with the scripts that led to it in its arguments (ResolveElf,       *)
(* LoadSegments, LoadOneSegment, FinishExec).                              *)
SegmentLoaded(f, b, ph) ==
  LET first == PageAlignDown(b + ph.vaddr) IN
  /\ \A x \in 0..(ph.filesz - 1) : res.mem[b + ph.vaddr + x] = f[ph.offset + x + 1]
  /\ \A x \in ph.filesz..(ph.memsz - 1) : res.mem[b + ph.vaddr + x] = Data(0)
  /\ \A p \in Pages(first, b + ph.vaddr + ph.memsz - first) : res.prot[p] = ph.flags

ProgramLoaded ==
  pc = "running" /\ load.fmt = "exec" =>
    LET n == Len(img.argv) - Len(load.argv)
        script(i) == IF i = n THEN load.path ELSE img.argv[i + 1]
        stack == Last(res.at).base IN
    /\ SubSeq(img.argv, n + 1, Len(img.argv)) = load.argv
    /\ \A i \in 1..n : load.files[script(i)][1] = <<"script", img.argv[i]>>
    /\ \A p \in Pages(stack, load.stack) : res.prot[p] = {} /\ res.prot[p + load.stack \div Page] = {"r", "w"}
    /\ \A i \in 1..(Len(res.at) - 1) : LET f == res.at[i].f IN
         \A j \in 1..f[1][2].phnum : f[j + 1][2].type = "load" => SegmentLoaded(f, res.at[i].base, f[j + 1][2])
    /\ res.at[Len(res.at) - 1].f = load.files[script(0)]
==============================================================================

------------------------------ MODULE MCMemory ------------------------------
(* Memory for TLC: the maps of processes, what is saved of them and loaded, *)
(* and the control plane that asks for it.  A behaviour is one of the three *)
(* at work; the others stay as they start.                                  *)
EXTENDS MemoryMap

CONSTANTS m1, m2, Workers

VARIABLES
    which,
    iload, pc, k, kprot, img, iov, disk, res,
    cload, st, traced, app, chan, ctx, cimg, wk, status

ivars == <<iload, pc, k, kprot, img, iov, disk, res>>
cvars == <<cload, st, traced, app, chan, ctx, cimg, wk, status>>
allvars == <<which, vars, ivars, cvars>>

(* What the maps are put through.                                          *)
TwoMaps == {m1, m2}
RW == {"R", "W"}

(* One process that lays out its region in every way.                      *)
Layout == [maps |-> {m1},
           ops |-> {"create", "brk", "mmap", "munmap", "mprotect", "unmapall", "patch"},
           fixed |-> TRUE, hints |-> "none", pages |-> 2, prots |-> {{"R"}, RW}, types |-> {"file"}]

(* Two processes come and go and map outside their regions.                *)
Pool == [maps |-> {m1, m2},
         ops |-> {"create", "destroy", "outside", "munmap", "unmapall"},
         fixed |-> FALSE, hints |-> "free", pages |-> 2, prots |-> {RW}, types |-> {"normal"}]

(* Page accesses of a process are traced while it changes protections, and *)
(* while it unmaps single pages.                                           *)
Trace == [maps |-> {m1}, ops |-> {"create", "mmap", "mprotect", "trace", "fault"},
          fixed |-> FALSE, hints |-> "none", pages |-> 2, prots |-> {{"R"}, RW}, types |-> {"normal"}]
TraceUnmap == [Trace EXCEPT !.ops = @ \cup {"munmap"}, !.pages = 1]

Passing == {Layout, Pool, Trace, TraceUnmap}

Spaces == INSTANCE MCImage WITH Workloads <- {}, Page <- PageSize, load <- iload
Img == INSTANCE Image WITH Workloads <- Spaces!Images, Page <- PageSize, load <- iload
Scripts == INSTANCE MCControl WITH Workloads <- {}, load <- cload, img <- cimg
Ctl == INSTANCE Control WITH Workloads <- Scripts!Passing, load <- cload, img <- cimg

MCInit ==
    /\ which \in {"maps", "image", "control"}
    /\ Init /\ (which # "maps" => load = Layout)
    /\ Img!Init /\ (which # "image" => iload = Spaces!Loading("static", FALSE))
    /\ Ctl!Init /\ (which # "control" => cload = Scripts!Warm)

OfMaps(A) == which = "maps" /\ A /\ UNCHANGED <<which, ivars, cvars>>
OfImage(A) == which = "image" /\ A /\ UNCHANGED <<which, vars, cvars>>
OfControl(A) == which = "control" /\ A /\ UNCHANGED <<which, vars, ivars>>

MCNext == OfMaps(Next) \/ OfImage(Img!Next) \/ OfControl(Ctl!Next)

(* Control's fairness.                                                      *)
MCSpec ==
    /\ MCInit /\ [][MCNext]_allvars
    /\ \A w \in Workers : WF_allvars(OfControl(Ctl!Up(Ctl!Serve(w))))
    /\ WF_allvars(OfControl(Ctl!Up(Ctl!RunApp)))
    /\ \A p \in Ctl!Pids : WF_allvars(OfControl(Ctl!Up(Ctl!FullStop(p))))

-----------------------------------------------------------------------------

(* A process is saved cleanly, and restored as it was (see Image).          *)
RoundTrip == Img!SavedCleanly /\ Img!RoundTrip

(* A program starts with its segments, stack and arguments (see Image).     *)
ProgramLoaded == Img!ProgramLoaded


(* A control request, an invocation and a driver's snapshot all end, with   *)
(* an answer or with the connection or the runtime gone.                    *)
CallsEnd == <>[]Ctl!AllEnded
=============================================================================

-------------------------------- MODULE MCImage --------------------------------
(* Address spaces and programs for checking Image with TLC.                   *)
EXTENDS Image

Words(s) == [i \in DOMAIN s |-> Data(s[i])]

(* Three areas of two pages each: anonymous memory, a mapping of a file of  *)
(* three words, and the memory of an in-memory file. What the mappings hold *)
(* need not be what the file holds.                                         *)
Anon(p) == [kind |-> "anon", start |-> 0, end |-> 4, prot |-> p]
Mapped(p, off, sh) == [kind |-> "file", start |-> 4, end |-> 8, prot |-> p, offset |-> off, size |-> 3,
                       shareable |-> sh, path |-> "f"]
Memory(n) == [kind |-> "fs", start |-> 10, end |-> 14, prot |-> {"r", "w"}, used |-> n]
Fill == {<<0, 0, 0, 0>>, <<1, 0, 0, 0>>, <<0, 1, 1, 0>>, <<0, 0, 0, 1>>}
Space(f, flt, as, x, y, z) ==
  [fmt |-> f, faults |-> flt, areas |-> as, top |-> 14,
   mem |-> [a \in 0..13 |-> CASE a < 4 -> x[a + 1] [] a \in 4..7 -> y[a - 3] [] a < 10 -> 0 [] OTHER -> z[a - 9]],
   files |-> [f |-> Words(<<2, 2, 2>>)], path |-> "f", argv |-> <<>>, must_be_reloc |-> FALSE, stack |-> 2]
Spaces ==
  {Space(f, IF f = "elf" THEN {"mprotect", "write", "open"} ELSE {"write", "open"},
         <<Anon({"x"}), Mapped(p, off, sh), Memory(n)>>, x, y, <<1, 0, 0, 0>>) :
     f \in {"elf", "jif"}, p \in {{"r"}, {}}, off \in {0, 2, 4}, sh \in BOOLEAN, n \in {0, 3},
     x \in {<<0, 0, 0, 0>>, <<0, 1, 1, 0>>}, y \in Fill}

Hdr(t, n) == <<"hdr", [type |-> t, phnum |-> n]>>
Seg(fl, off, va, fs, ms) ==
  <<"phdr", [type |-> "load", flags |-> fl, offset |-> off, vaddr |-> va, filesz |-> fs, memsz |-> ms]>>
Names(p) == <<"phdr", [type |-> "interp", path |-> p, filesz |-> 0, memsz |-> 0, vaddr |-> 0, offset |-> 0]>>
(* A text segment that includes the headers, and data with zeros after it. *)
Dyn == <<Hdr("dyn", 3), Names("ld"), Seg({"r", "x"}, 0, 0, 5, 5), Seg({"r", "w"}, 5, 7, 2, 5)>> \o Words(<<3, 4, 5, 6>>)
Static == <<Hdr("exec", 2), Seg({"r"}, 3, 5, 2, 2), Seg({"r"}, 4, 8, 1, 3)>> \o Words(<<3, 4, 5>>)
Ld == <<Hdr("dyn", 1), Seg({"r", "x"}, 0, 0, 3, 4)>> \o Words(<<7, 8>>)
Bad == <<Hdr("exec", 1), Seg({"r"}, 3, 4, 2, 2)>> \o Words(<<1, 2>>)
Script(p) == <<<<"script", p>>>>
Loading(p, must) ==
  [fmt |-> "exec", faults |-> {}, areas |-> <<>>, top |-> 24, mem |-> <<>>, path |-> p, argv |-> <<"a0">>,
   files |-> [ld |-> Ld, dyn |-> Dyn, static |-> Static, bad |-> Bad, text |-> Words(<<1>>), noent |-> Script("gone"),
              s1 |-> Script("static"), s2 |-> Script("s1"), s3 |-> Script("s2"), s4 |-> Script("s3"), s5 |-> Script("s4")],
   must_be_reloc |-> must, stack |-> 2]
Programs == {Loading(p, FALSE) : p \in {"dyn", "static", "bad", "text", "noent", "s1", "s4", "s5"}}
            \cup {Loading(p, TRUE) : p \in {"dyn", "static", "s2"}}
            \cup {[Loading("dyn", FALSE) EXCEPT !.files.ld = Static]}

Images == Spaces \cup Programs
================================================================================

----------------------------- MODULE MCElfLoad ------------------------------
(***************************************************************************)
(* Small images for ElfLoad: pages of three bytes, nine of them in the     *)
(* address space, three behind each table.                                 *)
(***************************************************************************)
EXTENDS ElfLoad

Seg(va_, filesz, memsz, off) ==
  [load |-> TRUE, va |-> va_, filesz |-> filesz, memsz |-> memsz, off |-> off]
Skipped == [load |-> FALSE, va |-> 1, filesz |-> 2, memsz |-> 2, off |-> 0]

\* A first segment of every shape ...
Firsts == {Seg(a, f, g, 1) : a \in 0 .. 5, f \in 0 .. 7, g \in 0 .. 8}
\* ... alone or with a second one: empty as in init/code_a.c, on the next page,
\* far away, sharing the first page.
Seconds == {Seg(18, 0, 0, 40), Seg(15, 4, 7, 40), Seg(16, 3, 3, 40), Seg(2, 1, 1, 40)}

Elf(segs) == [elf |-> "ELF", seg |-> segs]
MCPrograms ==
  {Elf(<<s>>) : s \in {s \in Firsts : s.filesz <= s.memsz}}
  \cup {Elf(<<Skipped, s, t>>) : s \in {s \in Firsts : s.filesz <= s.memsz /\ s.filesz \in {0, 2, 4}},
                                 t \in Seconds}
  \cup {[elf |-> "0123", seg |-> << >>]}

\* A segment with its bss in its first page.
MCBss   == {Elf(<<Seg(1, 1, 2, 1)>>)}
MCPlain == {Elf(<<Seg(3, 4, 4, 1)>>)}
=============================================================================

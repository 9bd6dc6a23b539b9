------------------------------ MODULE MCMemory ------------------------------
(* A small instance of Memory for TLC. *)
EXTENDS Memory

\* The first word of the program region, of the 4 - 8 MB region, of the stack.
Prog == PROG_PD * PTES * PAGE_SIZE
Low  == PTES * PAGE_SIZE
Top  == (STACK_PD + 1) * PTES * PAGE_SIZE

\* As user.ld lays it out: text, and data whose .bss reaches into another page.
Hello == << [vaddr |-> Prog, data |-> <<1, 2>>, memsz |-> 2],
            [vaddr |-> Prog + 2, data |-> <<3>>, memsz |-> 3] >>

\* Linked between 4 and 8 MB, below what user.ld asks for.
LowLinked == << [vaddr |-> Low, data |-> <<4>>, memsz |-> 1] >>

\* p_memsz < p_filesz.
Wraps == << [vaddr |-> Prog, data |-> <<1>>, memsz |-> 0] >>

Files == {Hello, LowLinked, Wraps}
OneTouched == {Prog + 2}
OneWord == {7}
AllMachines == [nic : BOOLEAN, vbe : BOOLEAN]

\* A switch while a program runs or loads; fork and the frame stack keep to themselves.
OutsideRaces == {"user", "seg_copy", "exec_stack", "wait_dir"}
Everywhere == OutsideRaces \cup {"pfa_read", "pfa_store"}
=============================================================================

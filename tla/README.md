# SRos in TLA+

SRos is a small 32-bit x86 kernel: preemptive tasks with fork, exit and wait, semaphores and
message queues, paging and an ELF loader, a file system on an ATA disk, a kernel heap, keyboard and mouse
drivers, a window manager on a linear framebuffer and a shell. This directory holds TLA+ models of the parts that keep state, the
TLC runs that check them, and TLAPS proofs of what holds for every size of their tables.

All paths below are relative to the repository root.

## 1. The system

| Part | Source | State | Operations | Interacts with |
|---|---|---|---|---|
| Scheduler | `kernel/scheduler.c` | `task_table`, ready list (`ready_head`, `ready_tail`, `next`), `current_task`, `task_count`, `next_pid` | `scheduler_tick`, `task_fork`, `task_exit`, `task_wait` | timer interrupt; IPC shares `next` and the ready list |
| IPC | `kernel/ipc.c` | semaphore and queue tables, wait lists, message rings | create, wait, post, destroy; create, send, receive, destroy | blocks and wakes tasks of the scheduler |
| Interrupt entry | `boot/idt_asm.s`, `boot/syscall_asm.s`, `kernel/idt.c`, `kernel/irq.c` | saved frames | IRQs through interrupt gates, system calls through a trap gate | decides where ticks can arrive |
| System calls | `kernel/syscall.c` | none | one case per call | enters every other part |
| File system | `fs/sfs.c`, `fs/ramdisk.c` | superblock, bitmaps, inode table, data blocks, `file_table` | format, mount, create, open, read, write, close | disk; `kernel.c` mounts or formats at boot |
| Heap | `kernel/kmalloc.c` | tagged blocks | `kmalloc`, `kfree` | tasks, and the window manager inside the timer interrupt |
| Keyboard, mouse | `drivers/keyboard.c`, `drivers/mouse.c` | modifiers, two rings, a packet under construction | IRQ1 handler, polling by the timer, reads by system calls | PS/2 controller with one output byte; `wm_update` drains the mouse ring |
| Windows, cursor | `drivers/window.c`, `drivers/cursor.c` | window list, focus, cursor position, saved background, `fb.addr` | create, focus, close, composite, move the cursor | mouse ring; runs inside the timer interrupt |
| Paging, page frames | `kernel/paging.c` | stack of free frames, page directories and tables | `pfa_alloc`, `pfa_free`, map a page, clone a directory | fork, wait and exec; drivers map their buffers at boot |
| ELF loader | `kernel/elf_loader.c` | none of its own | load segments page by page, clear `.bss`, make a stack | paging, file system |
| Network card | `drivers/rtl8139.c`, `drivers/pci.c` | two buffers mapped at boot, receive ring | interrupt handler | paging; PCI |
| Shell, programs | `user/` | line buffer, cursor, draft, history; the test commands | one key at a time; system calls | runs as task 0 in ring 0, on the boot stack |
| Consoles, sound, tables, strings, boot | `drivers/`, `kernel/gdt.c`, `kernel/string.c`, `boot/boot.s` | device registers | port I/O | - |

What is hard about it. There are no locks: exclusion is `cli`/`sti`, and only parts of `ipc.c` use it. System
calls enter through a trap gate (`kernel/idt.c`), so a tick can arrive between any two instructions of fork,
exit, wait, `kmalloc` or the file system. The Makefile compiles without optimisation, so each `x++` is a load
and a store. One intrusive `next` pointer serves the ready list and all wait lists. The disk survives crashes
that memory does not. Two devices share one byte of the PS/2 controller and only one of them interrupts. Page tables
are shared or copied by the User bit that the first page mapped through them happened to have. The shell keeps strings
in buffers full of left-over bytes.
`PROJECT.json` lists the places where each of these bites, with the properties that watch them.

What correct means for each part: a task is on exactly the list its state says, no wakeup is lost, wait collects each
exited child once; semaphores conserve units and queues are FIFO; disk structures stay valid at every
crash point and files keep their content; heap blocks tile the heap and callers never share bytes; keys arrive
in order with the meaning they had when pressed; what is on the screen is what a click reaches; a page frame has one
holder, a program's memory is its own and holds its image when it starts; a command gets the words that were typed.

## 2. Modules

| Module | Models | MC module, configurations |
|---|---|---|
| `Scheduler` | process table, ready list, tick, fork, exit, wait | `MCScheduler`: `SchedulerAnywhere`, `Scheduler` |
| `Ipc` (extends `Scheduler`) | semaphores, message queues, composed with the scheduler | `MCIpc`: `Ipc`, `IpcMsgAnywhere` |
| `Programs` (extends `Ipc`) | the shell's test commands, and whose frames are in the boot stack | `MCPrograms`: `ForkSharesStack` |
| `MsgFifo` | what message queues promise: bounded FIFO sequences | instance in `Ipc` |
| `Sfs` | file system and disk, with crashes | `MCSfs`: `Sfs` |
| `Kmalloc` | heap, word by word | `MCKmalloc`: `Kmalloc` |
| `Input` | PS/2 controller, handlers, rings, reading system calls | `MCInput`: `Input` |
| `Windows` | window manager and cursor, pixel by pixel | `MCWindows`: `Windows`, `LastWindowClosed` |
| `Memory` | frame stack, page tables, boot mappings, fork, exec, exit and wait as far as they handle memory | `MCMemory`: `Memory` |
| `AddressSpaces` | what fork and exec promise a program: a memory of its own | instance in `Memory` |
| `Shell` | the prompt: line buffer, history, `argv` | `MCShell`: `Shell` |
| `LineEditor` | what the prompt promises its user: a text, a cursor, past commands | instance in `Shell` |
| `SchedulerProofs`, `IpcProofs`, `SfsProofs`, `KmallocProofs`, `InputProofs`, `WindowsProofs`, `ShellProofs`, `MemoryProofs` | theorems about the module named | - |

`PROJECT.json` maps each definition to its lines. Operators named "Mutation of X" are faulty
variants of X; putting one in X's place must break the property it is listed with.

### Scheduler and Ipc

A task is its slot; a `task_t` pointer is a slot or `NULL`. The PCB fields are variables indexed by slot; a saved
register frame is `pc` (the place in the kernel, or `"user"`) with the locals `arg` and `val`. Each
action is a stretch of a system call between two accesses to shared state:

* `enqueue_ready` is two steps, link and tail store (`LinkReady`, `TailReady`), because the tail store is the window a
  tick can use; in the timer handler and between `cli` and `sti` it is one step.
* `next_pid++` and `task_count++`, `--` are a `Load` and a store.
* The scan loops of wait and of the table searches are one step each, and so is the filling of the PCB in fork: inside them
  no other task's step can change the outcome in a way not already produced by a tick before or after.
* A voluntary switch (`sti; int $32`) is one step: `sti` takes effect after the following instruction.
* `scheduler_tick` runs with interrupts off and is one step, including its fallbacks when nothing is READY: a current task
  that is not ZOMBIE continues, even a BLOCKED one; otherwise the CPU halts (`cpu`).

Saved frames are taken as intact; `Programs` shows where they are not. `task_create` and `task_yield` have no callers. The clone of
the page directory in fork is a choice between success and failure: the code has a branch for the failure, which
`pfa_alloc` never lets it reach because it panics first. Frames themselves are in `Memory`. Programs are `Calls`: each task makes any of
its calls in any order.

`PreemptAt` is the set of places where a tick may arrive. `Everywhere` is the machine. The code is not correct there, so
most properties are checked with `OutsideRaces`, which leaves out twelve places:
`fork_clone`, `fork_pid`, `fork_fill`, `fork_tail`, `fork_store`, `exit_wake`, `exit_link`, `exit_tail`,
`wait_free`, `wait_store`, `wait_alive`, `wait_block`. None is left out for convenience: opening any one of them again
makes some property of run `scheduler` fail. What some of them show:

* `exit_wake` - a tick after `state = ZOMBIE` and before the wakeup: the parent sleeps for good (`AndExitWake`, `NoLostWakeup`);
  the comment after that store, "if a parent is waiting, wake it" (`scheduler.c:318`), is then not kept;
* `wait_alive` - a child exits between the two loops: wait returns -1 with a child to collect (`AndWaitAlive`, `NoFalseMinusOne`);
* `wait_block` - a child exits after `has_alive` was computed: the parent blocks after the wakeup (`AndWaitBlock`, `NoLostWakeup`);
* `fork_tail` - a tick between the stores of `enqueue_ready`: a task drops out of the list (`AndForkTail`, `ReadyQueueExact`);
* `fork_clone`, `fork_pid` - two forks take one slot or one pid; `fork_store`, `wait_store` - `task_count` loses an update
  (`TableExact`).

In `Ipc` the create calls have windows of the same kind (`CreateRaces`): the search for a free slot, the load of the counter
and the publication of the id come before the rest of the slot is filled. Also in `Ipc`: a child's exit wakes a parent that
sleeps on a semaphore as if it were in wait, so its `sem_wait` returns without a unit, and a task that continues because nothing else
is READY is still on a wait list, from which a later wakeup can enqueue it after it exited. Run `ipc` therefore
keeps one task (init) out of IPC and lets no task exit. Its tasks work either with a semaphore or with a queue, chosen at
the start by the kind whose ids are not yet spent (`InitSpent`). `IpcMsgAnywhere` allows everything and checks what holds regardless.

`credit`, `got` and `buf` record units granted, messages delivered and the message being sent. Ring entries are
model values with a length; `Clamp` is the cut to `MSG_MAX_DATA`. `RefinesFifo` maps a ring to the
sequence of its `count` messages from `head` on and checks that every step is a step of `MsgFifo` or none.

### Programs

`fork_test`, `sem_test` and `msg_test` are lists of calls for the shell and for the child it forks, run by the actions of `Ipc`.
`kernel_after_paging` calls `shell_main` itself (`kernel/kernel.c:216`), so the shell is task 0 in ring 0 and its
frames are in the boot stack, which all directories share. The child gets the parent's registers, `ebp` among them: `iret` within ring 0 does
not load `esp`, and `sys_fork` ends with `leave`. From its first call on the child works in the boot stack as well.
`onBoot` is the set of tasks with frames there, `spoiled` those whose frames another task has overwritten. `exec` at the prompt
does not fork: `hello` replaces the shell, and its exit makes task 0 a zombie.

### Memory

Memory is scaled: the unit is a word, a page has `PAGE_SIZE` words and a table `PTES` entries; `dir`, `table` and `mem` are three
readings of a frame. The table of the identity map is not kept: a physical page is reachable through it exactly if it
is RAM. In the code that is the first 4 MB, though comments speak of 8 MB; the pool is 4 frames before `paging_init` and
256 after it, all below 4 MB. The self-map is only a way to reach tables and is left out. Boot is modelled
step by step on four machines, with and without network card and framebuffer.

`pfa_alloc` and `pfa_free` are a change of the count and an access to the stack, in separate steps. `calls` bounds
the forks and execs. `PreemptAt` leaves a tick to programs, to loading and to the middle of wait; the windows inside the frame
stack are closed, since there two tasks get the same frame, and fork is not interrupted, since two forks then share a slot, which
`Scheduler` has. Segments are page aligned, as `user.ld` makes them. What is mapped stays as it is if a read
fails (`exec_fail`).

`wait` gives back the kernel stack and the directory; tables and pages are never freed, a simplification the code documents. Memory
therefore runs out after enough forks and the kernel panics; `Wraps`, a file with `p_memsz < p_filesz`, gets there at once. `FramesHeldOnce`
counts frames with two holders, not leaked ones.

The network buffers (`0xF0040000`, `0xF0050000`) are inside the pages of the framebuffer, which is mapped later and
replaces them, although `framebuffer.c:188` says that nobody else uses the address. What decides about fork is
which came first: the card's pages make the directory entry a kernel entry, which fork shares; without a card (as
`run.bat` starts the machine) the framebuffer makes it a User entry, fork wants to copy it, reads at physical addresses outside RAM and
faults. `run.sh` has a card, so it works there. `FaultsOnlyOnFrameBuffer` says that this is the only such case.

`RefinesSpaces` maps every live task to the memory it sees through its directory, and checks that fork copies it, that exec ends with
the complete image, zeroes and stack included, and that no step of one task changes the memory of another.

### Shell

A buffer is all its bytes; a string ends at the first NUL and what is behind it stays. One action per key. Every behaviour of the
code is kept: characters overwrite, Enter takes only the text left of the cursor, a line set aside with the Up key comes back
only up to where the cursor was, and `parse_command` puts NULs into the line it has remembered before. The line buffer is not initialised; the
model assumes one NUL in it, without which the first Up key runs `strcpy` past its end. The echo is not modelled (Down echoes the
left-over tail too, and clearing the line leaves what is right of the cursor). `RefinesEditor` maps buffers to a text, a
cursor, a sequence of past commands and a draft.

### Sfs

`magic`, `ibm`, `bbm`, `inodes` and `data` are the disk. Each `block_write` is one step; `Crash` may come between any two and
keeps only the disk; `Boot` then mounts or formats. A unit is one directory entry, or one piece of file data. The name copy is
modelled by what it does: it writes no terminator, so the tail of a longer old name stays (`Copied`).
Only files in the root directory exist, because `SYS_FS_CREATE` makes nothing else; hence directories
below it and `sfs_free_block` are absent. Calls do not overlap. Sector-level tearing inside one block, disk errors (ignored by
the code), names beyond 27 characters and opening `"."` for writing are left out.

### Kmalloc

`mem` gives each 4-byte word its value, owned payload included (`Store`), with addresses relative to `HEAP_START` and arithmetic modulo
`U32`. A search looks at one block per step. `kfree` gets only pointers that `kmalloc` returned: the code trusts
its callers. `kmalloc.h:8` promises 8-byte aligned addresses while blocks, not payloads, are aligned: pointers are 4 modulo 8.

### Input

`obf` is the controller's output buffer. A keyboard byte latches IRQ1; a mouse byte waits for
`timer_handler`, which takes one per tick, or for an IRQ1 latched earlier. Keys are classes of scan
codes: letter, digit, arrow, a key without a character, the modifiers. `owed` is what the user meant, computed from the
keys held at the moment of pressing; the handler's `mods` follow later. In `SYS_READ` and
`SYS_GETCHAR` the test, the load of the character and the store of the tail are separate steps. The user holds one
shift key at a time: with two held, releasing one clears `shift_pressed`. `wm_update` empties the ring in the tick that
filled it, so a program that calls `SYS_MOUSE_READ` sees an event only if one was completed by IRQ1 since the last tick.
A mouse byte carries the packet it belongs to and the two bits the handler tests: bit 3, set in every first byte and by chance in
others, and the overflow bits. `Aligned` says that the handler's position in the packet is the mouse's; it may start out of step, since
the flushes at the end of `mouse_init` can cut a packet in two.

### Windows

A pixel is what was last drawn there: a part of a window, desktop, text or cursor. Colours, glyphs and the text inside
window buffers are left out. `base` counts by how many screens `fb.addr` was moved on: the inline assembly in
`wm_composite` (`window.c:385`) names `fb.addr` as an in/out operand. `visible` and `dirty` are never
cleared, and `wm_move_window`, `cursor_show`, `cursor_hide`, `cursor_redraw` and `cursor_poll_mouse` have no callers. Nothing
repaints the desktop behind a closed window while others are open, so `SeenIsClicked` speaks of open windows only.
The z_order counter is bounded by `MaxZ`; the wrap of a u32 after 2^32 focus changes is out of scope.

## 3. Runs

| Run | Question | Bounds | Size |
|---|---|---|---|
| `scheduler_anywhere` | What holds wherever ticks arrive: types, one RUNNING task | 3 slots, pids below 4 | 1.3 million states |
| `scheduler` | Outside the race windows: lists, counters, pids, wait/exit, no starvation, wait returns | 3 slots, pids below 5, fair | 49 thousand |
| `ipc` | units conserved, wait lists exact, nobody sleeps while he could go on, a message is taken while tasks receive | 3 users of 1 semaphore (value up to 2, initially -1 or 1, destroy included) or of a ring of 2, fair | 44 thousand |
| `ipc_msg_anywhere` | rings in order and FIFO, ticks, exits, waits and destroys anywhere | 2 tasks, ring of 2, 2 ids, lengths 1 and 3 (cut to 2) | 301 thousand |
| `memory` | one holder per frame, devices mapped for everyone, where fork can fault, programs see their own memory | 3 tasks, 24 frames of 2 words, tables of 3 entries, 3 programs, 3 forks and execs, 4 machines | 316 thousand |
| `shell` | strings end in their buffers; the prompt is a line editor with history | lines of 3 characters, 2 past commands, 1 argument, 12 keys | 610 thousand |
| `sfs` | structure, content, names, leaks, crash at any block write after format | 5 inodes, 4 data blocks of 2 units, 2 direct blocks, 3 paths, 1 crash | 897 thousand |
| `kmalloc` | tiling, ownership, coalescing, complete search | heap of 64 bytes, blocks of 16, 24, 40 | 595 thousand |
| `input` | order and meaning of keys, packets whole, a key ends the wait | rings of 2 keys and 1 event, one packet in flight, fair | 570 thousand |
| `windows` | list, focus, pixels, cursor, debounce | 5x4 screen, 3 overlapping windows, 2x2 cursor, 2 events per update, z_order up to 9 | 58 thousand |
| `fork_shares_stack` | violation: the shell finds its frames overwritten by the child of a test command | shell and one child | |
| `last_window_closed` | violation: the cursor is gone after the last close | as `windows` | |

Why the bounds are enough. Three slots give a parent, a child that exits and one that runs, so lists of length 0, 1 and 2
and every pair of concurrent calls; pids go round the table at least once. A ring of two is empty, partly full, full and
wraps. Three semaphore users allow a poster and two waiters. Four data blocks run out with two files that grow; a directory of two units
per block grows with the first created file (after `.` and `..`) and is full with the third. 64 bytes hold four minimal blocks, so a free can merge with either side, both or none, and exact fits, splits and
refused splits occur. The 5x4 screen has points under zero, one, two and three windows and the cursor reaches every edge. A
key ring of two fills while a byte waits in the controller and one in the keyboard. Three forks and execs give a fork of a loaded program, a program
loaded over another, a child whose frames come back and are used again, and the end of memory. Twelve keys fill a line of three
characters, run three commands (one more than the history holds), and recall, change and leave them again.

Deadlock checking is off where the machine may stop: with ticks anywhere the CPU can end in `cli; hlt`
(`scheduler_anywhere`, `ipc_msg_anywhere`, `fork_shares_stack`); in `memory` it ends in a panic or at the bound on calls, in `shell` at the bound
on keys.

Fairness. `Tick` is strongly fair: the timer is periodic and its interrupt stays pending in the PIC until accepted. Kernel
steps of a task are strongly fair: a time slice is many instructions, so a task that gets the CPU again and again completes a
step. Programs owe nothing: no call is ever forced. In `Input` handlers and readers are weakly fair for the same
reasons, and loading a key byte is strongly fair: the controller does not serve the mouse for ever while a key waits.

Instances in the MC modules that no listed run uses show what lies outside the conditions of the runs:

* `MCScheduler!AndExitWake` and the like: one race window of the scheduler opened, see section 2.
* `MCIpc!AllSleep`: if every task sleeps, `scheduler_tick` lets the last one continue, and `sem_wait`, which does not
  re-test, returns success without a unit (`SemAccounting` fails).
* `MCMemory!Everywhere`: a tick inside `pfa_alloc` hands one frame to two tasks (`FramesHeldOnce` fails).
* `MCShell!AnyBytes`: without a NUL in the uninitialised line buffer, `strcpy` runs past its end (`StringsEnd` fails).
* `MCSfs!AnyCrash`: `sfs_format` writes the superblock first. Power lost before the root directory is written leaves a disk
  that mounts and in which nothing can be created (TLC: deadlock).
* `MCSfs!TwoLengths` with three units per block: a shorter name created when the directory grows gets the tail of
  the last entry's longer name (`CreatedIsFound` fails). With the real 128 entries per block it takes the 127th file.
* `MCKmalloc!TwoCallers` with `Preempt = TRUE`: a tick inside `kmalloc` or `kfree` breaks `OwnedDisjoint`.
* `MCKmalloc!WrappingSizes`: a request near 2^32 (256 in the model) wraps to a small block; `OwnedDisjoint` fails.
* `MCInput!TwoReaders`: two tasks reading the keyboard take the same character (`ReadsOldest` fails).
* `MousePreempt = TRUE`: a tick inside `mouse_read` lets task and `wm_update` both move the tail (`PacketsStayWhole` fails).

## 4. Findings

* `fork_shares_stack`: a child forked from ring 0 goes on in the parent's stack; `fork_test`, `sem_test` and `msg_test` all do it.
* `last_window_closed`: clearing the screen moves `fb.addr` to its end; cursor and console are drawn behind it from then on.

## 5. Proofs

A theorem holds for every value of the constants that the module's named assumptions allow: every table and ring size,
every workload, every disk, heap or screen, and without the bounds of the runs where those are constants. Where the code keeps a
promise only under a condition, the condition is a named hypothesis of the theorem; it is the condition of the
run that checks the same property (section 3 says what happens without it).

| Module | Hypothesis | Theorem | Property |
|---|---|---|---|
| `SchedulerProofs` | none: ticks anywhere | `TypeCorrect`, `AtMostOneRunning` | `TypeOK`, `RunningIsCurrent` |
| | `RacesClosed`: no tick at the places in `Racy` (run `scheduler`: `OutsideRaces`) | `QueueAlwaysExact`, `TableAlwaysExact`, `WakeupsNeverLost`, `MinusOneMeansChildless`, `ZombiesStayUntilReaped` | `ReadyQueueExact`, `TableExact`, `NoLostWakeup`, `NoFalseMinusOne`, `ZombieUntilReaped` |
| `IpcProofs` | none: any calls, ticks anywhere | `IpcTypeCorrect`, `AtMostOneRunningIpc`, `RingsStayInOrder`, `UnitsAreNotKept`, `RingsImplementFifo` | `IpcTypeOK`, `RunningIsCurrent`, `RingInOrder`, `NoWaiterWithUnits`, `RefinesFifo` |
| | `Steady`: ticks stay out of the create calls, tasks make and use semaphores and queues but neither destroy them nor exit, one task never sleeps | `UnitsAreConserved`, `MessageWakeupsNeverLost`, `ReadyQueueExactIpc` | `SemAccounting`, `NoLostMessageWakeup`, `ReadyQueueExact` |
| `SfsProofs` | `Settled`: no power failure inside `sfs_format`, no program opens `.` or `..` | `EntriesAlwaysValid`, `BlocksAlwaysOwned`, `ContentAlwaysKept`, `NothingEverLeaks` | `EntriesValid`, `BlocksOwned`, `ContentKept`, `NothingLeaks` |
| | `Settled`, `OneLength`: all names have one length, at least 2 | `CreatedAlwaysFound` | `CreatedIsFound` |
| `KmallocProofs` | `Undisturbed`: calls do not overlap, no size makes `need_size` wrap | `HeapAlwaysTiled`, `OwnedAlwaysDisjoint`, `NothingEverLost`, `NullMeansFull` | `HeapTiled`, `OwnedDisjoint`, `NothingLost`, `NullOnlyWhenFull` |
| `InputProofs` | none | `InputTypeCorrect` | `TypeOK` |
| | `OnlyReader`: at most one task reads the keyboard | `KeysAreKept`, `OldestIsRead` | `KeysInOrder`, `ReadsOldest` |
| | `MousePreempt = FALSE`: no tick inside `mouse_read` | `PacketsAreWhole` | `PacketsStayWhole` |
| `WindowsProofs` | none | `StackAlwaysSound`, `ClosedOnlyByPress`, `SeenAlwaysClicked`, `NoTrailEver` | `StackSound`, `ClosesOnlyPressed`, `SeenIsClicked`, `NoCursorTrail` |
| `ShellProofs` | `JunkEnds`: the uninitialised line buffer ends in NUL | `StringsAlwaysEnd` | `StringsEnd` |
| `MemoryProofs` | `Orderly`: ticks stay out of fork and of the frame stack; segments lie between the identity map and the devices, file data within `p_memsz` | `MemoryTypeCorrect`, `FramesAreHeldOnce`, `DevicesStayReachable`, `ForkFaultsOnlyOnFrameBuffer` | `TypeOK`, `FramesHeldOnce`, `DevicesReachable`, `FaultsOnlyOnFrameBuffer` |

Each argument is an inductive invariant (checked by TLC on the run's instance before it was proved), one lemma per
action, and the implication from the invariant to the property.

* `SchedulerProofs`, types. `TypeOK` alone is not inductive: a step that indexes `pid` or `next` with the local `arg` keeps the
  type only if `arg` is a slot at that place. `ProcLocals` says which places hold a slot and that a loaded pid is still below the
  bound. `SchedType(L)` takes the set of labels as a parameter so that `IpcProofs` can cite the same lemmas.
* `SchedulerProofs`, `RacesClosed`. The properties speak of the queue and the table; what breaks them is what a suspended system call has
  read and will use. `SafeInv` adds the locals of the calls in progress, where a task in each state can be, the queue as it will
  be once `ready_tail` has been stored, and `task_count` up to the update that is still to come. The list is not followed by recursion:
  the ready tasks are a sequence along `next`, and the lemmas say what appending to it and taking its head do.
* `IpcProofs`. `IpcInv` has the scheduler's types and locals, the semaphore table with "units imply no waiter", the queue
  table with its ring invariant, the message buffers and `IpcLocals`. The arithmetic of the rings is in lemmas about `%`. The refinement
  `RingsImplementFifo` maps a ring to its `count` messages from `head` on; each action is a step of `MsgFifo` (create, send, receive,
  destroy) or leaves the mapped state unchanged.
* `IpcProofs`, `Steady`. `SemAccounting` and `NoLostMessageWakeup` count tasks that are awake and on their way to an object, so the lists have
  to be exact first: `CrewInv` says that exactly the current task is RUNNING and that a task sleeps only inside wait, send or receive,
  `ListInv` that the ready list and each wait list enumerate, along the one `next` array, exactly the tasks in that state at that place
  (each task is on one list, so appending to one changes no other), `FoundInv` that a call has found its object after it was filled.
  `UnitsInv` is then: units granted are the value plus the waiters woken and not yet returned; `WakeupsInv`: while a receiver
  sleeps, every message has an awake receiver coming for it, and likewise senders and free places. The task that never sleeps keeps
  `scheduler_tick` from its fallback, which would run a BLOCKED task. Destroy is excluded because a task between the lookup and `cli`, or woken and
  not yet run, keeps its pointer while the slot is reused; run `ipc` has destroy, but only one id, so that no slot is reused there.
* `SfsProofs`. What a block write does depends on the inode the call holds in memory, so none of the properties is
  inductive. `SfsInv` relates that inode to the table at each step of create and write (the table's blocks are a prefix of
  it, its new blocks are nobody's), says that an inode the directory does not list has no blocks, and that the blocks of the file being written
  hold its old content with the part of the buffer copied so far over it. Where a unit is (`\div` and `%`) is in lemmas of
  their own; `UnitsCopied` is what one block write does to a file unit by unit. For names there is a second invariant, `NamesInv`, on
  top of it: a name stands for one inode in the directory that is about to be written back. `EqualNames` of the run also has a path with a slash,
  which `OneLength` leaves out: in general a file can be created under such a name, and its entry is then longer than the others.
* `KmallocProofs`. `Tiling(m, B)` says that the tags in memory `m` describe exactly the blocks `B`. The
  lemmas about marking, splitting, merging and storing into owned blocks preserve it; `HeapInv` adds where the call in progress is: the
  current block is a block, all before it are too small, and the neighbours a free has still to look at.
* `WindowsProofs`, list. `WmInv` says that the list ascends strictly in z_order, so that `insert_sorted` puts a focused window last, and relates the
  focus flag, the hit window and the debounce to the button.
* `WindowsProofs`, screen. `DrawInv`: until the last window is closed `fb.addr` is right, the cursor is drawn over exactly what was saved,
  and behind it every point of an open window shows the topmost one there. Drawing the list from bottom to top is a loop written as a
  recursive function; that a later window covers an earlier one is shown with a first counterexample among the loop's steps.
* `InputProofs`, keys. `KeyInv` follows the bytes on their way (`Leads`): taking the byte in the controller and those in the keyboard one by one
  leads the handler's flags to the ones the user's keys have now, and each byte carries the meaning it will be given under the flags it
  meets. The content of the ring is then `owed`, and a reader between the load of a character and the store of the tail has the oldest.
* `InputProofs`, mouse. `MouseInv` says that bytes of a packet follow one another through mouse, controller and handler, so that a handler in
  step stays in step, and that the ring then holds the packets completed since the last tick.
* `ShellProofs`. `PromptInv` says that the last byte of every buffer is NUL and that text to the left of the cursor and of the
  saved cursor has no NUL.
* `MemoryProofs`. `MemInv` says that there is a function `own` from frames to holders (`Good(own)`): the place in the pool, a task's stack or
  directory, a directory's table, a page at an index of that table, a shared kernel table, a buffer of the card, the call in progress, or nobody. Every
  step moves at most one frame to another holder, apart from the one that pushes the rest of the pool. `Shape` says that a directory's entries below the devices lead to tables
  and pages held by that directory, and that its first entry and its device entry are the ones all directories share; hence a write through
  one directory changes nothing another one reaches. The same predicate with a bound says how far a fork has copied, `CopyShape` how far within a table.
  `TurnInv` says that only the running task is inside fork, a mapping or the frame stack, which is what `Orderly` buys. `AloneInv` is the case without a
  card: the device table is then a User table, and no fork ever gets past it, so task 0 stays alone. `Held` of
  `FramesHeldOnce` agrees with `own`: each of its elements can be read off the frame it names (`Holder`), so elements and frames are equally many. The code does not
  check where a file asks to be loaded; `user.ld` links programs as `Orderly` has it. The run `memory` also has a file with `p_memsz < p_filesz`, which
  the theorems leave out.

First and minimal elements (first fit, the first free bit, the first NUL, the first matching entry) exist by the
well-foundedness of the naturals, cited from the library.

Only model-checked:

* the liveness properties (`ReadyEventuallyRuns`, `WaitReturns`, `MessageGetsThrough`, `KeyEndsWait`): fairness is beyond this prover;
* `RefinesEditor`: the mapping reads words and texts off the buffers with folds, each of which would need an induction like the one for the screen;
* `RefinesSpaces`: that an image is complete when exec ends speaks of all words put so far, a second invariant over `Shape`; it is not proved.

## 6. Not modelled

* Device programming, port I/O and output: consoles, glyphs and formatting keep no state a property could be about. `SYS_WRITE` goes to the
  serial port only.
* The receive path of the network card: `rtl8139_init` leaves its interrupt mask 0, the PIC masks its line, and nothing calls
  send or receive. Its buffers are in `Memory`.
* Sound: initialised at boot, without callers.
* The ATA driver polls with interrupts on; `Sfs` takes a block write as one step that succeeds.
* Segment and interrupt tables, and the straight-line boot code apart from its mappings: every module's `Init` is its outcome.

`PROJECT.json` gives the status of each component.

## 7. Plan

Done, in order: `Scheduler`, `Ipc` with `MsgFifo`, their first proofs, `Sfs`, `Kmalloc`, `Input`, `Windows`, `Memory` with `AddressSpaces`,
`Shell` with `LineEditor`, `Programs`; then the proofs of section 5.

Next, modelling: `Sfs` with two overlapping calls. At this commit only the shell uses the file system, so none overlap.

Next, proofs: `RefinesSpaces`, from `MemInv` and the words of the image that `seg_copy` and `seg_bss` have put so far.

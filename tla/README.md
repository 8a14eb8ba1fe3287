# A TLA+ model of Aquarius

Aquarius is a small x86 operating system: a kernel with preemptive
multitasking, paging, a heap, a virtual file system, a text console and PS/2
keyboard support (`src/kernel`), and a few programs that run in user mode from
an initial ramdisk (`src/userspace`).  The modules in this directory model the
parts of it whose correctness depends on more than one step at a time; TLC
checks them on small instances, and TLAPS proves their safety properties for
every instance.

## 1. The system and its parts

| Component | State it keeps | Operations | Module |
|---|---|---|---|
| Tasking (`tasking.c`, `irq0.s`, `process.s`) | the ring of `task_t`, `current_task`, the register fields of each `task_t`, CR3 | `LoadProcess`, `switch_task` from the timer interrupt, `KillTask`, `KillCurrent` | `Tasking`, `Multitasking`, `TaskingProofs` |
| Exceptions and panic (`isr.c`, `panic.c`, `pop_pf`'s panic) | none | `isr_handler`, `page_fault` end in `panic`, which kills the current task and returns | in `Tasking` |
| Paging (`paging.c`, half of `LoadProcess`) | the stack of free frames, directories, page tables, `phys_heap_end` | `init_paging`, `init_heap`'s mappings, `new_pagedir`, `create_ptable`, `map_page`, `page_fault` | `Paging`, `PagingProofs` |
| Heap (`heap.c`) | a doubly linked list of headers in memory | `kmalloc`, `kfree` | `Heap`, `HeapProofs` |
| Keyboard (`kbd_irq`, system calls 2 and 3, `kbd.c`, the polling loops) | one flag in the kernel, `kbd_state` per program, the controller's byte | interrupt, poll, read and decode | `Keyboard`, `KeyboardProofs` |
| File system (`fs.c`, `rootfs.c`, `initrd.c`) | node tables, the mount, two static directory entries | `open`, `resolve_path`, `fs_finddir`, `fs_readdir`, `fs_read`, `close` | `FileSystem`, `FileSystemProofs` |
| Console (`tty.c`) | cursor, attribute, video memory, cursor registers | `tty_putc`, `tty_puts`, `tty_puthex`, `tty_putdec`, `tty_attr` | `Console`, `Teletype`, `ConsoleProofs` |
| Shell (`autostart.c`, `str.c`) | `kbuffer`, `knext` | `keypress_handler` | `Shell`, `ShellProofs` |
| Interrupt entry (`interrupts.s`, `irq0.s`, `syscall.s`, `isr.c`, `descriptor_tables.c`) | the interrupt flag, the kernel stack, gates and handlers, the 8259 controllers | the stubs, `irq_handler`, `isr_handler`, `panic` | `Interrupts`, `InterruptsProofs` |
| Boot (`boot.s`, `main.c`, `system.asm`) | what has been set up so far | the steps of `hal_main` | `Interrupts`; `init_paging` and `init_heap` in `Paging`, `init_fs` in `FileSystem` |
| String functions (`string.c`, `mem.c`, `str.c`) | none | | operators of `FileSystem`, `Shell` and `Paging` |

How they interact.  The timer interrupts user mode, and `new_irq0` calls
`switch_task`, which exchanges the saved registers and returns the next
directory.  A program enters the kernel by `int 0x80` or `sysenter`.
`SYS_EXEC` is `LoadProcess`: it opens a file, allocates a `task_t` from the
heap, links it into the ring, builds an address space with frames from
paging, and reads the image in the new space.  An exception that nobody
resolves goes through `panic` to `KillCurrent`.  The keyboard's interrupt
sets a flag that the programs poll by system call; the program that finds it
set reads the scancode from the port itself, decodes it and hands it to its own
`keypress_handler`; the shell's collects a line and runs it, by the console's
system calls and `SYS_EXEC`.  `LoadProcess` opens and reads the program
through the file system.

What makes it hard:

* The timer may come between any two instructions of a program, hence between
  two system calls that belong together (poll and read).  Inside the kernel it
  may not: every gate is an interrupt gate, `SyscallEntry` begins with `cli`,
  and the `sti` before an `iret` takes effect behind it.  Therefore a handler
  is one step in every other module; `Interrupts` takes entries apart into
  their instructions, and `OnlyInUser` and its theorem
  `KernelNeverInterrupted` show when one step is enough: as long as no program
  names vector 8 or 10 to 14 in an `int` instruction.  Every gate is open to
  user mode, and behind such a call it is not.  The
  programs of this repository use `int 80h` only.
* `panic` returns.  After the kernel has reached user mode, `panic` kills the
  current task and goes back to the code that called it: to a fault handler
  that then resumes the killed program, to `pop_pf` that then hands out a
  frame it does not have.
* Links and sizes that are written once and trusted for ever: `prev` in
  `task_t` and in `header_t`, the low half of a directory.
* Limits: the stack of frames, the 4 MB that are mapped one to one, holes in
  the heap that fit almost exactly, the last word of a table, the edges of the
  screen, the end of the shell's buffer.

What makes each correct: the ring stays a ring and everyone in it is served
with its own registers and memory (Tasking); no frame in use is handed
out again, all processes see one kernel (Paging); no byte has two owners (Heap); no
scancode is lost or read twice (Keyboard); a path opens the file it names and
nothing else (FileSystem); the screen is a window on an endless sheet of paper
(Console), as far as the cursor stays in its line; the command that runs is the one that was typed (Shell); interrupts
get through where and only where they may (Interrupts).

`PROJECT.json` lists every hazard found, with its line and the property that
would catch it, or the reason why none does.

## 2. The modules

### Multitasking and Tasking

`Multitasking` is the abstract specification, what the repository's README
means by "preemptive multitasking": a queue of processes whose head has the
processor (`Preempt` moves it to the tail, `Exec` appends), each with
registers that only it changes.

`Tasking` is the code.  `next`, `prev`, `saved` and `current_task` are the
fields of `task_t` and the static pointer; `regs` is what user mode resumes
with, `cr3` the loaded directory, both named by the program they belong to.
`LoadProcess` links the new task behind `Last`, the task at which its loop
stops, and leaves `prev` of `current_task` alone, as the code does.
`SwitchTask` exchanges registers, `KillTask` unlinks through `prev`,
`KillCurrent` moves `current_task` and leaves registers and CR3, and
`Exception` is the whole way from the fault to the return into the killed
program.  How much memory there is is `Paging`'s subject; here, unless
`Plenty`, any load (`SysExec`) or page fault the kernel can resolve
(`PageFault`) may be the one that runs out of it.  `mode` is then why the kernel
panics in the middle of the handler: `overdraw`, once, since `pop_pf` panics
only at index zero and its index wraps behind that (`exhausted`), or `fault`,
for ever, when the page directory lies outside the identity map.
`KernelPanic` is that panic, which kills the caller and goes back into the
handler.  `Run` is a computation in user mode; a `Faulty` program may reach
`Trap`, a register content whose next instruction faults, and a program that
was resumed with another's registers, or any at all when frames in use have
been handed out, may reach anything.  `hung` is the
endless recursion of `panic` and `KillCurrent` when the last task is killed.
`loaded` and `killed` record what `LoadProcess` and `KillTask` did.

Abstracted: the contents of registers (opaque values), `id` and `suspended`
(never read, never true), the x87 registers (no switch saves them), what the
second half of `LoadProcess` does to memory (in `Paging`), and a failing
`open`, which changes nothing.

### Paging

Addresses are counted in pages.  `PfStack(k)` is what `init_pf_stack` put
at each place of the frame stack: it is filled once and only popped, so the
index `pf_index` is all its state; places below zero are the words of the
identity table that lie in front of it in memory.  `map_page` rounds such a
word up; a directory and `page_fault`'s own `set_pte` take it as it is
(`PfStackRaw`, `PfStackFlags`).  The stack has a word for every frame and is as
many pages long (`StackPages`); the directories begin behind it (`FirstDir`).
During boot the empty stack stops the machine, after it `pop_pf` goes on.  `pde` and `pt` are the directories and
tables by the frame they are in.  The boot actions `InitPaging` and
`InitHeap` are the loops of `init_paging` and `init_heap`; `SysExec` is the
part of `LoadProcess` from `new_pagedir` on; `page_fault` has the two
branches that can be taken (nothing sets `VM_COW`); `SwitchTask` loads
another directory.  `demanded` records the pages that a fault has supplied.  `Junk` is what RAM holds before it is written: it
survives in entry 0 of the identity table and in the last word of every page
table, which `zeromeml` does not reach.  `SysExecFaults` is the load for which
`ph_alloc_a` gives out a directory above the identity map: the kernel faults
with interrupts off, for ever.

Abstracted: the self-mapping entry, the TLB (every change is followed by a
flush or a CR3 load), access bits, `PTE_GLOBAL`.

### Heap

`hdr` maps addresses to headers; a header that has been merged away stays
there until a client writes over it.  `kmalloc` is the search for the
smallest suitable hole and its division, `kfree` the merge with the left
and the right neighbour, both with the code's arithmetic modulo `Wrap`.  A
client's writes are not steps: an address inside a client's payload simply
may hold anything, which is how `kfree` can meet a broken magic.  `misled`
becomes true when `kmalloc` meets a hole with room for fewer than two more
headers or `kfree` a `prev` that is out of date.  `KernelSpec` is what the
kernel itself does: it never calls `kfree`.

### Keyboard

`SystemCall2(p)` is the call that finds the flag set and clears it,
`keyboard(p)` the read of port 0x60 and the decoding.  They are two steps,
since the program may be preempted in between, or dropped for good (`Drop`:
killed, or stopped polling as the shell does when it starts the game).  The
controller is external: `Stroke` and `LoadBuffer` put codes in its buffer
and request the interrupt.  Codes are classes of scancodes by what
`keyboard()` does with them: the modifiers, the arrows, the keys with a
character, the keys without one (Home, Del), their releases, and the escape
0xe0, which the keyboard may put in front of any of them.  An uninitialized `ascii` is any value.

### FileSystem

The node tables are filled once, so nodes are constants here: the ramdisk's
files, the mounted copy of its root, that root itself, and the root of the
tree.  `open` is three steps: the call, each recursion of `resolve_path`, and
`fs_open` behind it; `depth` counts the recursions and `copied` what is written
to the last `curr_name`.  When that is more than it has room for, the stack of
the kernel is overwritten: the call is `astray`, and nothing is claimed of it
from there.  `fs_finddir` follows the link of a mount point, as the
code does; `fs_open` and `fs_readdir` do not, which is why no
directory is ever opened.  Strings are sequences, but the static entry of each
`readdir` is an array: `strcpy` here copies no NUL, and whether the tail of an
earlier name shows depends on the `memset` before it.  `initrd_read` computes
the rest of the file modulo `Wrap`, as the unsigned subtraction does.

Abstracted: the bytes of files, `inode`, the entry's `inode`, `write` (nothing
has one).

### Teletype and Console

`Teletype` is the abstract specification: paper that never ends, whose last
`Rows` lines are in view; characters land at the cursor, which goes on to the
next cell or line, a tab goes to a stop in the line, a step back goes one cell
back and blanks the cell it leaves, and no other cell changes.  The code keeps
to it in every step that finds and leaves the cursor in its line (`InLine`),
which is what `WindowOnPaper` says; a tab may take `x` beyond the edge, and what
is put there lands in a line below or nowhere.  `Console` models those steps
too, as the code has them, but there is nothing to promise of them.
`Console` is the code: `x`, `y`, `attribute`,
`video_memory` and the cursor registers `crtc`, with `tty_scroll`, the byte
arithmetic of a tab, and the `or` of an attribute to a signed `char`.
`tty_puts` puts its characters one by one, `tty_puthex` and `tty_putdec` the
digits they compute.  `above` records the lines scrolled off; with it the
screen maps to the paper.

Abstracted: the bytes of an attribute (opaque, but for the all-ones a
character above 127 gets; system call 6 takes any number for one, also one
whose low byte would be mixed into the characters, which no program of the
repository passes), the VGA mode, what lies in memory behind the last
visible cell.

### Shell

A step is one call of `keypress_handler`: `Type` for every key but Enter,
`Enter` for the split at the first space, the two cuts, the command and the
clearing of the buffer, `GoAstray` for whatever uses a place outside
`kbuffer`.  `line` is the line as the person typing sees it, against which the
properties compare.  Commands are short words (`e` for echo, and so on);
what they print is left out.

### Interrupts

`done` counts the steps of `hal_main` (the last two are its jump to the first
program and that program's `iret` to user mode).  `idt` names the stub each
gate leads to and `interrupt_handlers` the registered function.  `stack` holds
the entries into the kernel that have not returned, each with its vector, the
interrupt flag it has saved, how far its stub has come: `eoi` (about to
acknowledge), `body`, `out` (before `sti`), `return`, and whether what the stub
takes off before its `iret` is what was put there for it (`full`).  Programs enter by
SYSENTER, by exceptions, and by `int` with any vector in `Soft`, for all gates
have the privilege level of user mode (`idt_set_gate`); an `int` pushes no error
code, and for the vectors in `ErrorCode` the stub expects one.  `ReturnAstray` is
the `iret` behind such an entry: it faults in the kernel, with IF on.  `shadow` is the one
instruction behind an `sti` in which no interrupt is taken.  The controllers
are external: requests, lines in service, priorities, end of interrupt, and a
spurious request.  `panic` halts during boot; later it kills the current task,
and goes on where it was called from.  An exception in a system call that
nobody resolves is `dead`: it recurs for ever with interrupts off.  So does
the panic of the last task for want of a frame.

Abstracted: descriptors' contents, what handlers do to data, `timer_ticks`.

## 3. The runs

| Run | Question | Result |
|---|---|---|
| `TaskingPromise` | Does the ring implement the queue, and is everyone served, without fatal exceptions? | holds |
| `TaskingFaults` | What holds with loads, switches and fatal exceptions in every order, and memory that may run out in any load or page fault? | the ring stays closed, dropped tasks do not return, everything is coherent until the first kill, the first victim is the task being served, by its own fault or for want of memory, who is in the ring is served |
| `TaskingOrphans` | Is a loaded task that nobody killed in the ready queue? | no: `prev` of `current_task` is stale |
| `PagingSpaces` | Do boot, loads and faults in every order keep frames exclusive (until the stack is overdrawn), the kernel half shared and images in place? | holds |
| `PagingHeap` | Do the heap's pages have frames of their own? | no: all are mapped to frame 0 |
| `HeapUse` | Is the heap sound, and without neighbouring holes, until the first near fit or stale `prev`? | holds |
| `HeapTwice` | Is a block given to one client only? | no: a hole that is not divided stays marked as free |
| `KeyboardShared` | Are codes delivered once, in order, and eventually, to several polling programs, and decoded right but behind a lone escape? | holds |
| `FilesMounted` | Does `open` find what a path names, for every path of up to six characters, unless a component overruns `curr_name`, and do entries and reads belong to their node? | holds |
| `ConsoleShared` | Is the screen a window on the paper of `Teletype` while the cursor is in its line, with the cursor's place in the registers, and do numbers read back? | holds |
| `ShellLines` | Does the buffer hold the line that stands, is it left only with cause, and is the command run the one typed? | holds |
| `KernelEntered` | Do interrupts get through in user mode only, find everything set up, and is every line served, until a program calls a gate whose stub expects an error code? | holds |

The violation runs quote what the repository says and are listed under
`findings`.

Bounds.

* Tasking: four tasks in `TaskingPromise` and `TaskingOrphans`.  Three are
  enough for every wrong link (the loader, the loaded, and one in between), and
  for a second kill that meets what the first has left; `TaskingFaults` has
  three, two of them faulty and all of them when the memory has given out.
  Some orders of stale links need a fourth (a dropped task that a `prev` of the
  queue still points to), which takes a million states and too long for
  `QueueServed`: for these the safety properties rest on the proofs, which hold
  for any number.  Registers have one
  content to compute with besides the entry and the trap.
* Paging: three low tables of eight entries, eight free frames (five for
  `PagingHeap`), a stack of frames two pages long, two process
  directories, programs of at most two pages.  The heap's nine pages cross
  the border of a table, as the real 2048 do.  Two directories are enough to
  compare, and eight frames to run out within two loads and some faults.
* Heap: 15 units, headers of one, requests of one and four, three clients:
  a freed pair of neighbours has room for a block whose data covers the
  second header.  The run is cut off where `misled` becomes true, because it
  stays true and the properties say nothing then.
* Keyboard: two programs and five codes, of shift, a letter, and the strokes of
  an arrow, right ctrl and Home with their escapes: two escaped strokes and a
  letter behind them, or a stroke read half by each program.
* FileSystem: an alphabet of the slash and two letters, names of at most two
  (`FILENAME_MAX` is three with the NUL), and all 1093 paths of up to six
  characters: enough for `/i/ai` with one slash too many anywhere, for names
  that are too long, for a file used as a directory and for a component
  behind it.  The files have three bytes and none; a word counts to eight, so
  that a subtraction can wrap.
* Console: two lines of four columns with a tab of two, so that a tab from
  column 2 passes the edge, and a byte of eight, so that the next comes back to
  0; five characters fill a line and scroll twice.
* Shell: a buffer of five and eight keys: a line that fills it, and a line of
  three, with one more behind it.
* Interrupts: the timer, the keyboard, a serial port on the first controller
  and a disk on the second: one line on each side of the connection, and the
  highest.  A page fault, which is resolved or not, and an exception without a
  handler.  Of the gates that programs call one of each kind: an exception
  without error code and one with, the timer, another line, the system call.
  Nothing else needs a bound: the stack has at most two frames.

Fairness.  `WF(NewIrq0)` in Tasking: the PIT is periodic and user mode runs
with interrupts on (`EFLAGS` 0x200 in every `task_t`); `WF(KernelPanic)`: the
processor goes on in the middle of a handler, with interrupts off.  In Keyboard
`WF(kbd_irq)` for the same reason, and `WF` of each program's two steps: what
`QueueServed` gives a program in the ring that polls in an endless loop.  The
finger and the controller need none for what is claimed.

Deadlock is not checked where the system may stop: after a hang, with no
frames or clients left, when all codes are read, when the bound on characters
or keys is reached.  The file system never stops, and is checked for it.

`misled` and `dropped` in conclusions are not loopholes: without the first the
property is false (`HeapTwice`), and `KeysServed` excuses a byte only when the
very program that holds the news of it has been dropped.  That case is real:
the controller raises no further interrupt, and the keyboard is dead.
Likewise `pf_index >= 0` in `FramesNotShared`, `CleanedUp` in `OnlyInUser` and
`LinesServed`, `Open` in `KeysDecoded` and `InLine` in `WindowOnPaper`: each
names a case in which the code does break the claim, the model has that case
as the code has it, and the list below says what happens there.  Nor is `FramesNotShared` a promise of isolation:
the identity map, through which a program reaches every frame below `Pages`,
page tables included, is writable in user mode (`paging.c:70`, `261`).

Seen while modelling, and in the modules as the code does it, but without a
run of their own:

* `tasking.c:23`: the first task is its own `prev`; killed, it stays in the
  queue.
* `tasking.c:35`, `panic.c:25`: the fault handler returns into the killed
  program in the next one's place, faults again, and kills tasks that did
  nothing.
* `paging.c:53`: with the frame stack exhausted `panic` returns and `pop_pf`
  hands out frames in use, against its own "Not enough memory!".
  `mem.c:20`: the last word of a page table is not
  cleared.
* `heap.c:79`: a division loses the size of a header, and wraps when there is
  room for between one and two.
* `kbd.c:119`: right ctrl leaves the escape pending, and the next key gets
  what the uninitialized `ascii` holds.  `syscalls.c:35`: a key pressed before the controllers are set up is never
  announced.
* `descriptor_tables.c:171`: `flags | 0x60` opens every gate to user mode.  A
  program's `int 14` pushes no error code; `add esp, 8`, which "cleans up the
  pushed error code and pushed ISR number" (`interrupts.s:102`), takes off the
  return address, and the `iret` faults in the kernel with IF on.
* `tty.c:68`: a tab goes beyond the edge, and what follows it lands in the
  next line or is lost.  `tty.c:64`: backspace rubs out the
  cell it leaves, not the character it goes to.  `tty.c:165`: `tty_putdec`
  prints nothing from 2^31 on.
* `autostart.c:69`: shift puts a NUL into the line, so `echo` stops there,
  against "Echoes a given text" (`autostart.c:52`); `echo` and `exec` without an
  argument use NULL.
* `fs.c`: `fs_readdir` does not follow a mount, `fs_open` never opens one;
  `curr_name` is written past its end by a long component.  `initrd.c:115`: a
  read that begins behind the end is not bounded.  `syscalls.c:77`: the
  `readdir` call stores one byte of the name's address.
* `main.c:52`: `LoadProcess` may return NULL and `hal_main` goes on.
  `descriptor_tables.c:19`: `gdt_entries` has five places, the TSS descriptor
  is the sixth.  No switch saves the x87 registers.

## 4. The proofs

Every invariant and every safety property of an action that a passing run
checks is also proved, for every value of the constants.  The theorems rest on
the assumptions of the modules (`TaskingAssumption`, `PagingAssumption`,
`HeapAssumption`, `KeyboardAssumption`, `FileSystemAssumption`,
`ConsoleAssumption`, `ShellAssumption`, `InterruptsAssumption`), which TLC
evaluates on every run, and one on one thing more: `NumbersAlwaysReadBack` on
`PowersAssumption`, explained below.  `ImplementsMultitasking` is about programs
that do not fault and memory that suffices, and says so.

Where an argument goes along a list, a text or a number it takes the place of
induction that there is a least counterexample: the lemma `LeastNumber` says that every
non-empty set of numbers has a least element, from the well-foundedness of
the order on numbers in the library.  Each module that needs it
has it, since each extends a component of its own.

`TaskingProofs`, for every set of tasks and every set of faulty ones:

* `TypeCorrect`, `RingAlwaysClosed`: the ring.  `Ring` is the least set that
  contains `current_task` and is closed under `next`.  The invariant is that
  some task of it leads back to `current_task`; it is inductive together with
  the types (every link of a loaded task leads to a loaded one).  Two lemmas
  about `Reach` say what linking in and unlinking do to it, without counting
  and without induction.  Notably nothing is assumed of `prev`, so the ring
  stays closed however wrong those links are.
* `NoTaskRequeued`: a dropped task stays out.
* `CoherentUntilKill`, `FirstVictim`: until the first kill queue, address
  space and registers fit together, and the first victim is the program being
  served, faulty unless the memory has just run out; the inductive invariant
  adds that the registers of a program that is not faulty are never at a trap
  before that, and that no program has run since the memory gave out.
* `ImplementsUntilKill`: until the first kill every step of the kernel is a
  step of `Multitasking` or changes nothing there.  `ImplementsMultitasking`:
  where no program faults and the memory suffices that is so for ever.  The mapping reads the ring as a
  sequence, and there is one (`Lists`): the first task has it, `SwitchTask`
  moves its head to its end, `LoadProcess` puts the new task behind `Last`,
  which is its last element; and `Queue`, which `Tasking` computes link by
  link, is that sequence, as the first place where they differ would show.  The fairness of
  `PreemptiveMultitasking` stays with TLC.

`HeapProofs`, for every heap size, any clients and any sizes they ask for:

* `Listed`, which the model computes block by block, is first shown to be the
  least set of addresses that contains the first block and is closed under
  `next`: the function `Walk` exists, and two such functions would differ
  first at a set that leaves out fewest addresses.
* `AlwaysSoundUntilMisled`: until `misled` the list ascends, no two blocks share
  a byte, and what is not a hole is in exactly one client's hands.  The inductive
  invariant `HeapInv` says it of the headers: blocks lie one behind the other
  (`Tiled`), no two holes are neighbours (`Separate`), clients hold blocks of
  the size they asked for (`Held`).  A division and a merge are each a change
  of one link, and a lemma for each says what it does to the set.
* `AlwaysCoalesced` is the second of these, and needs the first: `kfree` merges
  with the block at `prev` and the one at `next`, and these are the neighbours
  only in a list that ascends.
* `TypeCorrect` holds behind `misled` too.

`KeyboardProofs`, for every number of programs and all codes:

* `KeyboardTypes`.
* `AlwaysAnnounced`: the byte in the controller has been announced to exactly
  one party.  It is inductive as it stands: the loading of the buffer makes
  byte and news, interrupt and system call pass the news on, the read uses up
  both.
* `AlwaysInOrder`: what has been read, the buffer and the queue make up what
  was sent.  It needs `AlwaysAnnounced`, since a read from an empty buffer
  would repeat a code, and three facts about concatenation.
* `AlwaysDecodes`: a press gets its character from a program that has read the
  whole stroke and the last change of shift, and whose last key before was not
  a lone escape, whatever the keyboard sends and however the codes fall to the
  programs.  The invariant says what `escaped` and `shift` of each program mean
  in terms of what it has read: `escaped` that its last code but of modifiers
  was an escape, `shift` what the last code of a shift key was.

`PagingProofs`, for every amount of memory, any loads and any faults:

* `AlwaysTyped`: every directory that a process gets is inside the identity map,
  and `phys_heap_end` goes beyond it only in the step that loses the kernel.
* `AlwaysShared`: all directories have all entries of the low
  half and lead to the same tables (the invariant says which table stands
  behind which entry during boot, and that none of them changes behind it).
* `AlwaysExclusive`: the frames in use are those from `Pages` up to
  `Pages + Frames - pf_index`, each was popped once, and each is one table, one
  page of an image or one page supplied on a fault.  A popped frame is fresh (lemma `Fresh`), and that is where the
  condition that the stack lasts comes in.
* `ImageAlwaysKept`: no step changes or unmaps a page of a loaded program, the
  one that overdraws the stack included.

`FileSystemProofs`, for every ramdisk and every path of any length:

* `AlwaysShallow`: `resolve_path` is at most three calls deep.  The invariant
  `Walked` ties `depth` to `dir`: the root at one, the mount at two, a file at
  three, from which nothing is found.
* `AlwaysFiles`: what `open` returns is a file, and for reading.
* `AlwaysResolves`: an `open` that returns has found the first file that the
  path names, and nothing if it names none.  The invariant `Resolving` says that what is left
  of the name says as much at each depth as the whole path did.  The work is
  in the lemmas on `Parsed`: a path is slashes, a name and the rest in only one
  way, so that the components `resolve_path` cuts off are those `Denotes`
  speaks of.
* `AlwaysNamed`, `TypeCorrect`: the static entries read back as the name
  written last: `initrd_readdir` clears the array before each `strcpy`, and
  `rootfs_readdir`, which does not, has one name only to write.
* `AlwaysFits`: the component being copied is a stretch of the path without a
  slash, so `curr_name` is overrun, and the call astray, only by a component
  too long for it.
* `AlwaysReadsInside`: the subtraction in `initrd_read` does not wrap for a
  read that begins in the file.

`ConsoleProofs`, for every size of screen and every text:

* `AlwaysShown`: whatever `tty_putc` computes, `Update` leaves the cursor on a
  line, and shown where it is.
* `TypeCorrect`.
* `ImplementsTeletype`: the refinement.  Screen and lines scrolled off are the
  paper of `Teletype`; each step of `tty_putc` that finds and leaves the cursor
  in its line maps to a character, a new line, a return, a tab or a step back,
  whether the screen scrolls or not, with the byte arithmetic of the code (a tab's `& ~(Tab - 1)` needs a
  byte to be a multiple of a tab, as `ConsoleAssumption` says).  The corollary
  `TeletypeInLine`: where no tab passes the edge the whole of `Teletype` is
  implemented.
* `NumbersAlwaysReadBack`: the digits that `tty_puthex` and `tty_putdec` put say
  the number they were given.  Of the first, the value of the leading `k` digits
  is the number shifted right by those that follow, and above the first digit
  put there is nothing (`HexLength`); of the second, all digits but the last
  are those of a tenth of the number.  The provers know no powers, so `PowersAssumption` is their
  equation, 16^i = 16 * 16^(i - 1), for the digits of a word.

`ShellProofs`, for every size of buffer and all keys:

* `AlwaysBuffered`, `AlwaysClean`, `AlwaysInside`.  The invariant adds that nothing
  beyond the longest line so far has been written, so what Enter clears is all
  there is.
* `TypeCorrect`.
* `AlwaysRunsAsTyped`: the command and the argument that are run are those
  of the line that was typed, split at its first space.  The code looks for a
  space and two NULs in a buffer, the property for a place in a sequence; the
  lemmas show that both find the same.

`InterruptsProofs`, for any lines, exceptions and vectors that programs call:

* `EntriesTyped`: each entry has come by a gate that is there.
* `KernelNeverInterrupted`: `Layers` says what the kernel stack can look like
  (an entry from user mode and at most an exception on top of it, the flag
  each has saved, and interrupts off but behind the `sti` of the lower one).
  It holds until an entry lacks the error code its stub takes off (`Wrecked`),
  and such an entry never leaves the stack; where `Soft` has none of the six
  vectors it holds for ever.
* `BootedInOrder`: `Progress` says what has been set up by which step of
  `hal_main`, and that interrupts are on only behind the last.

Only model-checked: what is claimed under fairness (`EveryoneServed`, the fair
half of `PreemptiveMultitasking`, `QueueServed`, `KeysServed`, `LinesServed`),
since liveness and `ENABLED` are out of the prover's reach; and the three runs
that find a violation, where the counterexample is the point.

## 5. Not modelled

* The contents of descriptors, ports, MSRs, the PIT's divisor and the VGA
  register tables: constants written once by single instructions.  That `ltr`,
  `lgdt` and the SYSENTER registers get the right ones is not something a state
  machine of the kernel tells apart.
* The demo programs `game.c` and `dock.c`: loops that compute with x87 floats
  and draw; their polling of the keyboard is the reader of `Keyboard`.  `os.c`
  is their library of text graphics; its `keypressed` takes the last key
  first.
* `timer_ticks`: a counter that `new_irq0` increments and system call 7 reads;
  nothing in the kernel depends on it.
* One module that composes Tasking, Paging and Keyboard.  The modules meet
  where one takes the other's whole behaviour as an action: `Drop` in Keyboard
  is any kill, `SysExec` and `SwitchTask` in Paging any order of loads and
  switches, and `QueueServed` is what justifies the fairness of Keyboard's
  programs.
* A heap that goes on after `misled`: nothing is promised there.

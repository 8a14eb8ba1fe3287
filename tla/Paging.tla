------------------------------- MODULE Paging -------------------------------
(***************************************************************************)
(* Physical frames, page tables and address spaces of the Aquarius kernel  *)
(* (kernel/x86/memory, and the half of LoadProcess that fills an address   *)
(* space).                                                                 *)
(*                                                                         *)
(* Addresses are counted in pages.  The low half of every directory has    *)
(* Tables entries, of which entry 0 is the identity map of the first Pages *)
(* frames; two entries stand for the high half, the first for the program  *)
(* image at 0x80000000.  The entry through which a directory maps itself,  *)
(* the access bits and PTE_GLOBAL (CR4.PGE is never set) are left out, and *)
(* so is copy on write: nothing sets VM_COW.  Handlers run with interrupts *)
(* off and are atomic.  A kill releases no memory (KillTask's TODO), so    *)
(* killed processes need no action here.                                   *)
(***************************************************************************)
EXTENDS Integers

CONSTANTS
  Pages,      (* entries of a page table, frames below 0x400000 (1024)     *)
  Frames,     (* frames from 0x400000 up, which the stack starts with      *)
  Tables,     (* entries of the low half of a directory (512)              *)
  FirstFree,  (* first frame behind the initrd                             *)
  HeapTable,  (* the entry of KHEAP_ADDRESS (256)                          *)
  HeapPages,  (* KHEAP_SIZE / 0x1000 (2048)                                *)
  MaxImage,   (* bound: pages of the largest program                       *)
  Junk        (* what RAM holds, read as a page table entry                *)

Flag  == {"P", "RW", "US", "VM"}
Entry == [frame : Nat, flags : SUBSET Flag]

Absent == [frame |-> 0, flags |-> {}]

(* ph_alloc_a gives out the frames behind the initrd one after the other:  *)
(* tmp_page, two tables, the stack of frames, which has a word for every   *)
(* frame of the memory (a page holds Pages words), and then directories.   *)
KernelDir  == FirstFree + 1
Lomem      == FirstFree + 2
StackPages == (Frames + 2 * Pages - 1) \div Pages
FirstDir   == FirstFree + 3 + StackPages

ASSUME PagingAssumption ==
  /\ Pages \in Nat /\ Frames \in Nat /\ Tables \in Nat
  /\ FirstFree \in Nat /\ FirstDir < Pages
  /\ HeapTable \in 1..(Tables - 1)
  /\ HeapPages \in 1..((Tables - HeapTable) * Pages)
  /\ MaxImage \in 0..(Pages - 2)
  /\ Junk \subseteq Entry

VARIABLES
  pf_index,       (* frames left on the stack                              *)
  phys_heap_end,  (* the first frame ph_alloc_a has not given out          *)
  pde,            (* the directories: pde[d][i], d the frame it is in      *)
  pt,             (* the page tables: pt[f][j], f the frame it is in       *)
  cr3,            (* the frame of the directory in use                     *)
  image,          (* history: pages of the program loaded in directory d   *)
  demanded,       (* history: slot j of table f was filled on a page fault *)
  boot,           (* steps of init_paging and init_heap already done       *)
  halted          (* the kernel faulted on its own and panics for ever     *)

vars == <<pf_index, phys_heap_end, pde, pt, cr3, image, demanded, boot, halted>>

Slot  == 0..(Pages - 1)
Index == 0..(Tables + 1)
High  == {Tables, Tables + 1}
Image == Tables

(* The directories; one beyond the identity map is never completed.        *)
Spaces == {KernelDir} \cup {d \in FirstDir..(Pages - 1) : d < phys_heap_end}

(***************************************************************************)
(* What pf_stack[k] holds after init_pf_stack, which pushes the frames     *)
(* from the highest to the lowest; nothing is pushed later.  Below the     *)
(* stack is the identity table: its words are the frames from Pages - 1    *)
(* down, with flags.  map_page rounds such a word up to the next frame; a  *)
(* directory, and page_fault's own set_pte, take it as it is, flags too.   *)
(***************************************************************************)
PfStack(k) == IF k >= 0 THEN Pages + Frames - 1 - k ELSE Pages + k + 1
PfStackRaw(k) == IF k >= 0 THEN PfStack(k) ELSE Pages + k
PfStackFlags(k) == IF k >= 0 THEN {} ELSE {"P", "RW", "US"}

Scratch == [frame |-> 0, flags |-> {"P"}]

(* zeromeml clears one word less than it is asked to.                      *)
Zeroed(junk) == [j \in Slot |-> IF j = Pages - 1 THEN junk ELSE Absent]

NoTable == [j \in Slot |-> Absent]
NoDir   == [i \in Index |-> Absent]

IdentityMap(junk) ==
  [j \in Slot |-> IF j = 0 THEN junk
                  ELSE [frame |-> j, flags |-> {"P", "RW", "US"}]]

(* The state in which init_paging turns paging on.                         *)
Init ==
  /\ pf_index = Frames
  /\ phys_heap_end = FirstDir
  /\ pde = [d \in Slot |->
              IF d = KernelDir
              THEN [NoDir EXCEPT ![0] = [frame |-> Lomem, flags |-> {"P", "RW"}]]
              ELSE NoDir]
  /\ \E junk \in Junk :
       pt = [f \in 0..(Pages + Frames - 1) |->
               IF f = Lomem THEN IdentityMap(junk) ELSE NoTable]
  /\ cr3 = KernelDir
  /\ image = [d \in Slot |-> 0]
  /\ demanded = {}
  /\ boot = 1
  /\ halted = FALSE

(* The handler that overdraws the stack of frames gets words from below    *)
(* it, for panic returns to pop_pf, and ends; the model stops behind it.   *)
Running == ~halted /\ pf_index >= 0
Booted  == boot = Tables + HeapPages

(* create_ptable, without the directory entry: the new table is cleared    *)
(* through page 0, which then maps frame 0.                                *)
WithTable(f, junk) ==
  [pt EXCEPT ![f] = Zeroed(junk), ![Lomem][0] = Scratch]

create_ptable(d, i, flags) ==
  /\ pf_index' = pf_index - 1
  /\ \E junk \in Junk : pt' = WithTable(PfStack(pf_index - 1), junk)
  /\ pde' = [pde EXCEPT ![d][i] =
               [frame |-> PfStackRaw(pf_index - 1),
                flags |-> flags \cup {"P", "US"} \cup PfStackFlags(pf_index - 1)]]

(***************************************************************************)
(* Boot: a page table for every entry of the low half, then the heap.      *)
(* map_page sets the present bit whatever its flags say.  Until user mode  *)
(* has started the panic of pop_pf stops the machine.                      *)
(***************************************************************************)
InitPaging ==
  /\ Running /\ boot < Tables
  /\ pf_index > 0
  /\ create_ptable(KernelDir, boot, {"P", "RW"})
  /\ boot' = boot + 1
  /\ UNCHANGED <<phys_heap_end, cr3, image, demanded, halted>>

HeapTableOf(k) == pde[KernelDir][HeapTable + k \div Pages].frame

InitHeap ==
  /\ Running /\ boot \in Tables..(Tables + HeapPages - 1)
  /\ LET k == boot - Tables
     IN  pt' = [pt EXCEPT ![HeapTableOf(k)][k % Pages] =
                  [frame |-> 0, flags |-> {"P", "RW", "VM"}]]
  /\ boot' = boot + 1
  /\ UNCHANGED <<pf_index, phys_heap_end, pde, cr3, image, demanded, halted>>

(***************************************************************************)
(* LoadProcess: a directory that shares the low half of the caller's, and  *)
(* n pages from 0x80000000.  map_p pops the first page's frame before      *)
(* map_page finds that the table is missing and pops one for it.           *)
(***************************************************************************)
(* Mutated: the loop over the low half ends one entry early.               *)
new_pagedirShort ==
  [i \in Index |->
     IF i < Tables - 1
     THEN [pde[cr3][i] EXCEPT !.flags = @ \cup {"US"}]
     ELSE Absent]

new_pagedir ==
  [i \in Index |->
     IF i < Tables
     THEN [pde[cr3][i] EXCEPT !.flags = @ \cup {"US"}]
     ELSE Absent]

(* Mutated: the second page is given the frame of the table.               *)
ImageFrameOfTable(k) == PfStack(pf_index - 1 - k)

ImageFrame(k) == IF k = 0 THEN PfStack(pf_index - 1) ELSE PfStack(pf_index - 2 - k)

ImageTable(n, junk) ==
  [j \in Slot |-> IF j < n THEN [frame |-> ImageFrame(j), flags |-> {"P", "RW", "US"}]
                  ELSE Zeroed(junk)[j]]

LoadProcess(n) ==
  LET d == phys_heap_end
      f == PfStackRaw(pf_index - 2)
  IN
  /\ d < Pages
  /\ d = FirstDir => n < pf_index     \* hal_main's load, before user mode
  /\ phys_heap_end' = d + 1
  /\ image' = [image EXCEPT ![d] = n]
  /\ IF n = 0
     THEN pde' = [pde EXCEPT ![d] = new_pagedir] /\ UNCHANGED <<pf_index, pt>>
     ELSE /\ pf_index' = pf_index - (n + 1)
          /\ pde' = [pde EXCEPT ![d] =
                       [new_pagedir EXCEPT ![Image] =
                          [frame |-> f, flags |-> {"P", "RW", "US"}]]]
          /\ \E junk \in Junk :
               pt' = [pt EXCEPT ![f] = ImageTable(n, junk), ![Lomem][0] = Scratch]

SysExec ==
  /\ Running /\ Booted
  /\ \E n \in 0..MaxImage : LoadProcess(n)
  /\ UNCHANGED <<cr3, demanded, boot, halted>>

(* ph_alloc_a gives out 0x400000 for the directory, where nothing is       *)
(* mapped: the kernel's own page fault panics, returns and recurs with the *)
(* interrupts off.                                                         *)
SysExecFaults ==
  /\ Running /\ Booted
  /\ phys_heap_end = Pages
  /\ phys_heap_end' = phys_heap_end + 1
  /\ halted' = TRUE
  /\ UNCHANGED <<pf_index, pde, pt, cr3, image, demanded, boot>>

(* Mutated: not looking at the present bit of the directory entry.         *)
page_faultAnew(i, j) ==
  create_ptable(cr3, i, pde[cr3][i].flags \cup {"P"}) /\ UNCHANGED demanded

(***************************************************************************)
(* page_fault, for an access in user mode to slot j of entry i.  One that  *)
(* is not resolved kills the process and changes nothing here.             *)
(***************************************************************************)
page_fault(i, j) ==
  LET e == pde[cr3][i]
      p == pt[e.frame][j]
  IN
  \/ /\ "P" \notin e.flags
     /\ create_ptable(cr3, i, e.flags \cup {"P"})
     /\ UNCHANGED demanded
  \/ /\ "P" \in e.flags
     /\ "P" \notin p.flags /\ "VM" \in p.flags
     /\ pf_index' = pf_index - 1
     /\ pt' = [pt EXCEPT ![e.frame][j] =
                 [frame |-> PfStackRaw(pf_index - 1),
                  flags |-> (p.flags \ {"VM"}) \cup {"P"} \cup PfStackFlags(pf_index - 1)]]
     /\ demanded' = demanded \cup {<<e.frame, j>>}
     /\ UNCHANGED pde

PageFault ==
  /\ Running /\ Booted
  /\ cr3 # KernelDir
  /\ \E i \in Index, j \in Slot : page_fault(i, j)
  /\ UNCHANGED <<phys_heap_end, cr3, image, boot, halted>>

(* Mutated: a space that is only about to be built.                        *)
SwitchTaskEarly ==
  /\ Running /\ Booted
  /\ cr3' \in FirstDir..phys_heap_end
  /\ UNCHANGED <<pf_index, phys_heap_end, pde, pt, image, demanded, boot, halted>>

(* hal_main enters the first process; the timer switches between all.      *)
SwitchTask ==
  /\ Running /\ Booted
  /\ cr3' \in Spaces \ {KernelDir}
  /\ UNCHANGED <<pf_index, phys_heap_end, pde, pt, image, demanded, boot, halted>>

-----------------------------------------------------------------------------
Next == InitPaging \/ InitHeap \/ SysExec \/ SysExecFaults \/ PageFault \/ SwitchTask

Spec == Init /\ [][Next]_vars

-----------------------------------------------------------------------------
(* Every variable has its type: no process is ever given a directory that  *)
(* lies outside the identity map, and only the allocation of such a one,   *)
(* after which the kernel is lost, takes phys_heap_end beyond it.          *)
TypeOK ==
  /\ pf_index \in Int /\ pf_index <= Frames
  /\ phys_heap_end \in FirstDir..(Pages + 1)
  /\ phys_heap_end = Pages + 1 => halted
  /\ pde \in [Slot -> [Index -> Entry]]
  /\ pt \in [0..(Pages + Frames - 1) -> [Slot -> Entry]]
  /\ cr3 \in Spaces
  /\ image \in [Slot -> 0..MaxImage]
  /\ demanded \subseteq Nat \X Slot
  /\ boot \in 1..(Tables + HeapPages)
  /\ halted \in BOOLEAN

(* The tables a directory has of its own: the low ones are the kernel's.   *)
OwnTables ==
  {s \in Spaces \X Index :
     /\ "P" \in pde[s[1]][s[2]].flags
     /\ s[2] \in High \/ (s[1] = KernelDir /\ s[2] > 0)}

ImagePages == {s \in Spaces \X Slot : s[2] < image[s[1]]}

TableFrame(s)  == pde[s[1]][s[2]].frame
PageFrame(s)   == pt[pde[s[1]][Image].frame][s[2]].frame
DemandFrame(s) == pt[s[1]][s[2]].frame

(* pop_pf hands out no frame that is in use, as its check of the index     *)
(* demands ("Not enough memory!", paging.c:53): every page table, every    *)
(* page of a program's image and every page supplied on a fault has a      *)
(* frame of its own, none of which is on the stack of free frames.         *)
Exclusive ==
  /\ \A s, t \in OwnTables : TableFrame(s) = TableFrame(t) => s = t
  /\ \A s, t \in ImagePages : PageFrame(s) = PageFrame(t) => s = t
  /\ \A s, t \in demanded : DemandFrame(s) = DemandFrame(t) => s = t
  /\ \A s \in OwnTables, t \in ImagePages : TableFrame(s) # PageFrame(t)
  /\ \A s \in demanded, t \in OwnTables : DemandFrame(s) # TableFrame(t)
  /\ \A s \in demanded, t \in ImagePages : DemandFrame(s) # PageFrame(t)
  /\ \A k \in 0..(pf_index - 1) :
       /\ \A s \in OwnTables : TableFrame(s) # PfStack(k)
       /\ \A s \in ImagePages : PageFrame(s) # PfStack(k)
       /\ \A s \in demanded : DemandFrame(s) # PfStack(k)

(* Until the stack of frames is overdrawn, that is so: in whatever order   *)
(* loads and faults pop it, no frame serves two of these purposes.  It is  *)
(* no promise of isolation: the identity map, through which every program  *)
(* reaches all frames below Pages, is writable in user mode.               *)
FramesNotShared == pf_index >= 0 => Exclusive

(* Whatever is loaded and whatever faults, all directories agree on the    *)
(* low half: the kernel sees the same memory in every process.             *)
KernelHalfShared ==
  Booted => \A d, e \in Spaces, i \in 0..(Tables - 1) :
              /\ "P" \in pde[d][i].flags
              /\ pde[d][i].frame = pde[e][i].frame

(* A loaded program keeps its memory: no later load or fault of any        *)
(* process changes the frames of its image or takes rights away from it.   *)
ImageKept ==
  [][\A s \in ImagePages :
       LET i == s[1]
           k == s[2]
       IN  /\ pde'[i][Image] = pde[i][Image]
           /\ pt'[pde[i][Image].frame][k] = pt[pde[i][Image].frame][k]]_vars

-----------------------------------------------------------------------------
(***************************************************************************)
(* What the code is meant to keep and does not.                            *)
(***************************************************************************)

(* KHEAP_SIZE is "8 mb" (heap.h:8): two pages of the heap are not the same *)
(* memory.                                                                 *)
HeapPagesDistinct ==
  LET heap(k) == pt[HeapTableOf(k)][k % Pages]
  IN  \A j, k \in 0..(boot - Tables - 1) :
        /\ "P" \in heap(j).flags \cap heap(k).flags
        /\ heap(j).frame = heap(k).frame
        => j = k
=============================================================================

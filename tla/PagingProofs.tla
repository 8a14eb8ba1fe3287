---------------------------- MODULE PagingProofs ----------------------------
(***************************************************************************)
(* For any amount of memory and any programs: no frame serves two purposes *)
(* while the stack of frames lasts, and all directories share the kernel's *)
(* half.                                                                   *)
(***************************************************************************)
EXTENDS Paging, TLAPS

LEMMA Sizes ==
  /\ Pages \in Nat /\ Frames \in Nat /\ Tables \in Nat /\ FirstFree \in Nat
  /\ FirstDir \in Nat /\ FirstDir < Pages /\ Lomem < FirstDir
  /\ HeapTable \in 1..(Tables - 1) /\ Tables > 1
  /\ HeapPages \in Nat \ {0} /\ MaxImage \in 0..(Pages - 2)
  /\ Junk \subseteq Entry
  /\ KernelDir = FirstFree + 1 /\ Lomem = FirstFree + 2
<1>1. Pages \in Nat /\ Frames \in Nat /\ FirstFree \in Nat /\ Pages > 0
  BY PagingAssumption
<1>2. StackPages \in Nat /\ StackPages >= 1
  BY <1>1 DEF StackPages
<1>3. QED
  BY <1>1, <1>2, PagingAssumption DEF FirstDir, Lomem, KernelDir

LEMMA Entries ==
  /\ Absent \in Entry /\ Scratch \in Entry
  /\ NoTable \in [Slot -> Entry] /\ NoDir \in [Index -> Entry]
  /\ \A junk \in Junk : Zeroed(junk) \in [Slot -> Entry]
  /\ \A junk \in Junk : IdentityMap(junk) \in [Slot -> Entry]
<1>1. /\ Absent \in Entry /\ Scratch \in Entry
      /\ \A j \in Nat : [frame |-> j, flags |-> {"P", "RW", "US"}] \in Entry
  BY DEF Absent, Scratch, Entry, Flag
<1>2. QED
  BY <1>1, Sizes DEF NoTable, NoDir, Zeroed, IdentityMap, Slot

LEMMA Places ==
  /\ KernelDir \in Slot /\ Lomem \in Slot /\ 0 \in Slot /\ KernelDir # Lomem
  /\ Image \in Index /\ High \subseteq Index
  /\ Slot \subseteq 0..(Pages + Frames - 1)
BY Sizes DEF KernelDir, Lomem, Slot, Image, Index, High

(* What is popped while pf_index is not negative is the number of a frame. *)
LEMMA Popped ==
  ASSUME NEW k \in Int, -Pages <= k, k < Frames
  PROVE  /\ PfStack(k) \in Nat /\ PfStackRaw(k) \in Nat
         /\ PfStackFlags(k) \subseteq Flag
BY Sizes DEF PfStack, PfStackRaw, PfStackFlags, Flag

-----------------------------------------------------------------------------
(***************************************************************************)
(* Types.                                                                  *)
(***************************************************************************)
LEMMA InitType == Init => TypeOK
<1> SUFFICES ASSUME Init PROVE TypeOK
  OBVIOUS
<1>1. pde \in [Slot -> [Index -> Entry]]
  <2>1. [frame |-> Lomem, flags |-> {"P", "RW"}] \in Entry
    BY Sizes DEF Entry, Flag, Lomem
  <2>2. [NoDir EXCEPT ![0] = [frame |-> Lomem, flags |-> {"P", "RW"}]] \in [Index -> Entry]
    BY <2>1, Entries
  <2>3. QED
    BY <2>2, Entries DEF Init
<1>2. pt \in [0..(Pages + Frames - 1) -> [Slot -> Entry]]
  BY Entries DEF Init
<1>3. /\ pf_index \in Int /\ pf_index <= Frames
      /\ phys_heap_end \in FirstDir..(Pages + 1)
      /\ cr3 \in Spaces
      /\ boot \in 1..(Tables + HeapPages)
  BY Sizes DEF Init, Spaces
<1>4. image \in [Slot -> 0..MaxImage]
  BY Sizes DEF Init
<1>5. halted \in BOOLEAN /\ demanded \subseteq Nat \X Slot
  BY Zenon DEF Init
<1>6. phys_heap_end # Pages + 1
  BY Sizes DEF Init
<1>7. QED
  BY <1>1, <1>2, <1>3, <1>4, <1>5, <1>6 DEF TypeOK

LEMMA TableTypes ==
  ASSUME TypeOK, Running, NEW d \in Slot, NEW i \in Index,
         NEW flags \in SUBSET Flag, create_ptable(d, i, flags)
  PROVE  /\ pf_index' \in Int /\ pf_index' <= Frames
         /\ pde' \in [Slot -> [Index -> Entry]]
         /\ pt' \in [0..(Pages + Frames - 1) -> [Slot -> Entry]]
<1>1. pf_index \in Int /\ 0 <= pf_index /\ pf_index <= Frames /\ pf_index' = pf_index - 1
  BY DEF TypeOK, Running, create_ptable
<1>2. PfStackRaw(pf_index - 1) \in Nat /\ PfStackFlags(pf_index - 1) \subseteq Flag
  BY <1>1, Popped, Sizes
<1>3. pde' \in [Slot -> [Index -> Entry]]
  <2> DEFINE e == [frame |-> PfStackRaw(pf_index - 1),
                   flags |-> flags \cup {"P", "US"} \cup PfStackFlags(pf_index - 1)]
  <2>1. e \in Entry
    BY <1>2 DEF Entry, Flag
  <2>2. pde' = [pde EXCEPT ![d][i] = e]
    BY DEF create_ptable
  <2>3. pde \in [Slot -> [Index -> Entry]]
    BY DEF TypeOK
  <2> HIDE DEF e
  <2>4. QED
    BY <2>1, <2>2, <2>3
<1>4. pt' \in [0..(Pages + Frames - 1) -> [Slot -> Entry]]
  <2>1. PICK junk \in Junk : pt' = WithTable(PfStack(pf_index - 1), junk)
    BY DEF create_ptable
  <2>2. pt \in [0..(Pages + Frames - 1) -> [Slot -> Entry]]
    BY DEF TypeOK
  <2>3. QED
    BY <2>1, <2>2, Entries, Places DEF WithTable
<1>5. QED
  BY <1>1, <1>3, <1>4, Sizes

LEMMA TypeStep == TypeOK /\ [Next]_vars => TypeOK'
<1> SUFFICES ASSUME TypeOK, [Next]_vars PROVE TypeOK'
  OBVIOUS
<1> USE Sizes
<1>0. /\ pf_index \in Int /\ pf_index <= Frames
      /\ phys_heap_end \in FirstDir..(Pages + 1)
      /\ phys_heap_end = Pages + 1 => halted
      /\ demanded \subseteq Nat \X Slot
      /\ pde \in [Slot -> [Index -> Entry]]
      /\ pt \in [0..(Pages + Frames - 1) -> [Slot -> Entry]]
      /\ cr3 \in Spaces /\ cr3 \in Slot
      /\ image \in [Slot -> 0..MaxImage]
      /\ boot \in 1..(Tables + HeapPages)
      /\ halted \in BOOLEAN
  BY DEF TypeOK, Spaces, Slot
<1>1. CASE InitPaging
  <2>1. /\ Running /\ create_ptable(KernelDir, boot, {"P", "RW"})
        /\ boot \in Index /\ boot' = boot + 1 /\ boot < Tables
        /\ UNCHANGED <<phys_heap_end, cr3, image, demanded, halted>>
    BY <1>0, <1>1 DEF InitPaging, Index
  <2>2. {"P", "RW"} \in SUBSET Flag
    BY DEF Flag
  <2>3. /\ pf_index' \in Int /\ pf_index' <= Frames
        /\ pde' \in [Slot -> [Index -> Entry]]
        /\ pt' \in [0..(Pages + Frames - 1) -> [Slot -> Entry]]
    BY <2>1, <2>2, TableTypes, Places
  <2>4. Spaces' = Spaces /\ boot' \in 1..(Tables + HeapPages)
    BY <1>0, <2>1 DEF Spaces
  <2>5. QED
    BY <1>0, <2>1, <2>3, <2>4 DEF TypeOK
<1>2. CASE InitHeap
  <2> DEFINE k == boot - Tables
             e == [frame |-> 0, flags |-> {"P", "RW", "VM"}]
  <2>1. e \in Entry
    BY DEF Entry, Flag
  <2>2. pt' = [pt EXCEPT ![HeapTableOf(k)][k % Pages] = e]
    BY <1>2 DEF InitHeap
  <2> HIDE DEF e, k
  <2>3. pt' \in [0..(Pages + Frames - 1) -> [Slot -> Entry]]
    BY <1>0, <2>1, <2>2
  <2>4. QED
    BY <1>0, <1>2, <2>3 DEF InitHeap, TypeOK, Spaces
<1>3. CASE SysExec
  <2>1. PICK n \in 0..MaxImage : LoadProcess(n)
    BY <1>3 DEF SysExec
  <2> DEFINE d == phys_heap_end
             f == PfStackRaw(pf_index - 2)
  <2>2. /\ d \in Slot /\ phys_heap_end' = d + 1
        /\ image' = [image EXCEPT ![d] = n]
        /\ 0 <= pf_index /\ n \in Nat /\ n < Pages
    <3>1. /\ d < Pages /\ phys_heap_end' = d + 1
          /\ image' = [image EXCEPT ![d] = n]
      BY <2>1 DEF LoadProcess
    <3>2. 0 <= pf_index
      BY <1>0, <1>3 DEF SysExec, Running
    <3>3. n \in Nat /\ n < Pages /\ d \in Slot
      BY <1>0, <3>1 DEF Slot
    <3>4. QED
      BY <3>1, <3>2, <3>3
  <2>3. new_pagedir \in [Index -> Entry]
    <3>1. ASSUME NEW i \in Index
          PROVE  [pde[cr3][i] EXCEPT !.flags = @ \cup {"US"}] \in Entry
      <4>1. pde[cr3][i] \in Entry
        BY <1>0
      <4>2. QED
        BY <4>1 DEF Entry, Flag
    <3>2. QED
      BY <3>1, Entries DEF new_pagedir
  <2>4. f \in Nat
    BY <1>0, <2>2, Popped
  <2>5. /\ pf_index' \in Int /\ pf_index' <= Frames
        /\ pde' \in [Slot -> [Index -> Entry]]
        /\ pt' \in [0..(Pages + Frames - 1) -> [Slot -> Entry]]
    <3>1. CASE n = 0
      BY <1>0, <2>1, <2>2, <2>3, <3>1 DEF LoadProcess
    <3>2. CASE n # 0
      <4> DEFINE e == [frame |-> f, flags |-> {"P", "RW", "US"}]
      <4>1. PICK junk \in Junk :
              pt' = [pt EXCEPT ![f] = ImageTable(n, junk), ![Lomem][0] = Scratch]
        BY <2>1, <3>2 DEF LoadProcess
      <4>2. e \in Entry
        BY <2>4 DEF Entry, Flag
      <4>3. pde' = [pde EXCEPT ![d] = [new_pagedir EXCEPT ![Image] = e]]
        BY <2>1, <3>2 DEF LoadProcess
      <4>4. pf_index' = pf_index - (n + 1)
        BY <2>1, <3>2 DEF LoadProcess
      <4>5. \A j \in Slot : j < n => ImageFrame(j) \in Nat
        BY <1>0, <2>2, Popped DEF ImageFrame, Slot
      <4>6. \A j \in Slot : j < n =>
              [frame |-> ImageFrame(j), flags |-> {"P", "RW", "US"}] \in Entry
        BY <4>5 DEF Entry, Flag
      <4>7. ImageTable(n, junk) \in [Slot -> Entry]
        BY <4>6, Entries DEF ImageTable
      <4> HIDE DEF e, d, f
      <4>8. [new_pagedir EXCEPT ![Image] = e] \in [Index -> Entry]
        BY <2>3, <4>2
      <4>9. pde' \in [Slot -> [Index -> Entry]]
        BY <1>0, <4>3, <4>8
      <4>10. pt' \in [0..(Pages + Frames - 1) -> [Slot -> Entry]]
        BY <1>0, <4>1, <4>7, Entries, Places
      <4>11. pf_index' \in Int /\ pf_index' <= Frames
        BY <1>0, <2>2, <4>4
      <4>12. QED
        BY <4>9, <4>10, <4>11
    <3>3. QED
      BY <3>1, <3>2
  <2>6. image' \in [Slot -> 0..MaxImage]
    BY <1>0, <2>1, <2>2
  <2>7. /\ cr3' = cr3 /\ demanded' = demanded /\ boot' = boot
        /\ halted' = halted /\ ~halted
    BY <1>3 DEF SysExec, Running
  <2>8. phys_heap_end' \in FirstDir..(Pages + 1) /\ phys_heap_end' # Pages + 1
    <3>1. /\ d \in Int /\ FirstDir <= d /\ d < Pages
          /\ phys_heap_end' = d + 1
      BY <1>0, <2>2 DEF Slot
    <3>2. QED
      BY <3>1
  <2>9. cr3' \in Spaces'
    BY <1>0, <2>2, <2>7 DEF Spaces
  <2>10. QED
    BY <1>0, <2>5, <2>6, <2>7, <2>8, <2>9 DEF TypeOK
<1>4. CASE SysExecFaults
  <2>1. /\ phys_heap_end = Pages /\ phys_heap_end' = Pages + 1 /\ halted' = TRUE
        /\ UNCHANGED <<pf_index, pde, pt, cr3, image, demanded, boot>>
    BY <1>4 DEF SysExecFaults
  <2>2. Spaces' = Spaces /\ phys_heap_end' \in FirstDir..(Pages + 1)
    BY <2>1 DEF Spaces
  <2>3. QED
    BY <1>0, <2>1, <2>2 DEF TypeOK
<1>5. CASE PageFault
  <2>1. PICK i \in Index, j \in Slot : page_fault(i, j)
    BY <1>5 DEF PageFault
  <2> DEFINE e == pde[cr3][i]
             p == pt[e.frame][j]
  <2>2. e \in Entry
    BY <1>0
  <2>3. CASE create_ptable(cr3, i, e.flags \cup {"P"}) /\ UNCHANGED demanded
    <3>1. e.flags \cup {"P"} \in SUBSET Flag
      BY <2>2 DEF Entry, Flag
    <3>2. Running
      BY <1>5 DEF PageFault
    <3>3. QED
      BY <1>0, <1>5, <2>3, <3>1, <3>2, TableTypes DEF PageFault, TypeOK, Spaces
  <2>4. CASE UNCHANGED pde
    <3> DEFINE q == [frame |-> PfStackRaw(pf_index - 1),
                     flags |-> (p.flags \ {"VM"}) \cup {"P"} \cup PfStackFlags(pf_index - 1)]
               Filled == /\ pf_index' = pf_index - 1
                         /\ pt' = [pt EXCEPT ![e.frame][j] = q]
                         /\ demanded' = demanded \cup {<<e.frame, j>>}
    <3>1. \/ create_ptable(cr3, i, e.flags \cup {"P"}) /\ UNCHANGED demanded
          \/ Filled
      BY <2>1 DEF page_fault
    <3>2. CASE Filled
      <4>1. e.frame \in 0..(Pages + Frames - 1) => q \in Entry
        <5>1. 0 <= pf_index
          BY <1>5 DEF PageFault, Running
        <5>2. PfStackRaw(pf_index - 1) \in Nat /\ PfStackFlags(pf_index - 1) \subseteq Flag
          BY <1>0, <5>1, Popped
        <5>3. e.frame \in 0..(Pages + Frames - 1) => p \in Entry
          BY <1>0
        <5>4. QED
          BY <5>2, <5>3 DEF Entry, Flag
      <4>2. pt' \in [0..(Pages + Frames - 1) -> [Slot -> Entry]]
        <5> HIDE DEF q, e
        <5>1. CASE e.frame \in 0..(Pages + Frames - 1)
          BY <1>0, <3>2, <4>1, <5>1
        <5>2. CASE e.frame \notin 0..(Pages + Frames - 1)
          BY <1>0, <3>2, <5>2
        <5>3. QED
          BY <5>1, <5>2
      <4>3. demanded' \subseteq Nat \X Slot
        <5>1. e.frame \in Nat
          BY <2>2 DEF Entry
        <5> HIDE DEF e
        <5>2. QED
          BY <1>0, <3>2, <5>1
      <4>4. /\ pf_index' \in Int /\ pf_index' <= Frames
            /\ Spaces' = Spaces
            /\ UNCHANGED <<phys_heap_end, cr3, image, boot, halted>>
        BY <1>0, <1>5, <3>2 DEF PageFault, Spaces
      <4>5. QED
        BY <1>0, <2>4, <4>2, <4>3, <4>4 DEF TypeOK
    <3>3. QED
      BY <2>3, <3>1, <3>2
  <2>5. QED
    BY <2>1, <2>3, <2>4 DEF page_fault
<1>6. CASE SwitchTask
  BY <1>0, <1>6 DEF SwitchTask, TypeOK, Spaces
<1>7. CASE UNCHANGED vars
  BY <1>0, <1>7 DEF vars, TypeOK, Spaces
<1>8. QED
  BY <1>1, <1>2, <1>3, <1>4, <1>5, <1>6, <1>7 DEF Next

(* For any amount of memory every variable keeps its type: every directory *)
(* a process is given lies below 0x400000, inside the identity map, and    *)
(* phys_heap_end leaves the map only when the kernel is lost.              *)
THEOREM AlwaysTyped == Spec => []TypeOK
BY InitType, TypeStep, PTL DEF Spec

-----------------------------------------------------------------------------
(***************************************************************************)
(* The kernel's half.                                                      *)
(***************************************************************************)

(* Until the boot is over there is one directory and no program, and the   *)
(* entries of its low half are filled one after the other.                 *)
Booting ==
  /\ ~Booted => /\ phys_heap_end = FirstDir /\ demanded = {}
                /\ \A d \in Slot : image[d] = 0
  /\ \A i \in 0..(Tables - 1) : i < boot => "P" \in pde[KernelDir][i].flags
  /\ pde[KernelDir][0].frame = Lomem

HalfInv == TypeOK /\ Booting /\ KernelHalfShared

LEMMA BootSpaces == phys_heap_end = FirstDir => Spaces = {KernelDir}
BY Sizes DEF Spaces

LEMMA KernelSpace == KernelDir \in Spaces /\ (TypeOK => Spaces \subseteq Slot)
BY Sizes DEF Spaces, KernelDir, TypeOK, Slot

LEMMA InitHalf == Init => HalfInv
<1> SUFFICES ASSUME Init PROVE HalfInv
  OBVIOUS
<1> USE Sizes
<1>1. TypeOK
  BY InitType
<1>2. ~Booted
  BY DEF Init, Booted
<1>3. phys_heap_end = FirstDir /\ demanded = {} /\ \A d \in Slot : image[d] = 0
  BY DEF Init
<1>4. "P" \in pde[KernelDir][0].flags /\ pde[KernelDir][0].frame = Lomem
  <2> DEFINE e == [frame |-> Lomem, flags |-> {"P", "RW"}]
  <2>1. pde[KernelDir] = [NoDir EXCEPT ![0] = e]
    BY Places DEF Init
  <2>2. pde[KernelDir][0] = e
    BY <2>1 DEF NoDir, Index
  <2>3. QED
    BY <2>2
<1>5. Booting
  <2>1. boot = 1
    BY DEF Init
  <2>2. \A i \in 0..(Tables - 1) : i < 1 => i = 0
    OBVIOUS
  <2>3. QED
    BY <1>2, <1>3, <1>4, <2>1, <2>2 DEF Booting
<1>6. QED
  BY <1>1, <1>2, <1>5 DEF HalfInv, KernelHalfShared

LEMMA HalfStep == HalfInv /\ [Next]_vars => HalfInv'
<1> SUFFICES ASSUME HalfInv, [Next]_vars PROVE HalfInv'
  OBVIOUS
<1> USE Sizes
<1>0. /\ TypeOK /\ TypeOK'
      /\ pde \in [Slot -> [Index -> Entry]] /\ pde' \in [Slot -> [Index -> Entry]]
      /\ boot \in 1..(Tables + HeapPages) /\ KernelDir \in Slot
      /\ cr3 \in Spaces /\ cr3 \in Slot
  BY TypeStep, Places, KernelSpace DEF HalfInv, TypeOK
<1>1. CASE InitPaging
  <2>1. /\ boot < Tables /\ boot' = boot + 1
        /\ UNCHANGED <<phys_heap_end, image, demanded>>
        /\ create_ptable(KernelDir, boot, {"P", "RW"})
    BY <1>1 DEF InitPaging
  <2>2. ~Booted /\ ~Booted'
    BY <1>0, <2>1 DEF Booted
  <2>3. "P" \in pde'[KernelDir][boot].flags
    BY <1>0, <2>1 DEF create_ptable, Index
  <2>4. \A i \in 0..(Tables - 1) : i < boot => pde'[KernelDir][i] = pde[KernelDir][i]
    BY <1>0, <2>1 DEF create_ptable, Index
  <2>5. ASSUME NEW i \in 0..(Tables - 1), i < boot' PROVE "P" \in pde'[KernelDir][i].flags
    <3>1. i = boot \/ i < boot
      BY <1>0, <2>1, <2>5
    <3>2. QED
      BY <3>1, <2>3, <2>4 DEF HalfInv, Booting
  <2>6. Booting'
    <3>1. pde'[KernelDir][0] = pde[KernelDir][0]
      BY <1>0, <2>1, <2>4
    <3>2. QED
      BY <2>1, <2>2, <2>5, <3>1 DEF HalfInv, Booting
  <2>7. QED
    BY <1>0, <2>2, <2>6 DEF HalfInv, KernelHalfShared
<1>2. CASE InitHeap
  <2>1. /\ boot >= Tables /\ boot < Tables + HeapPages /\ boot' = boot + 1
        /\ UNCHANGED <<phys_heap_end, image, demanded, pde>>
    BY <1>0, <1>2 DEF InitHeap
  <2>2. ~Booted
    BY <1>0, <2>1 DEF Booted
  <2>3. /\ phys_heap_end = FirstDir /\ demanded = {} /\ \A d \in Slot : image[d] = 0
        /\ \A i \in 0..(Tables - 1) : "P" \in pde[KernelDir][i].flags
        /\ pde[KernelDir][0].frame = Lomem
    BY <2>1, <2>2, <1>0 DEF HalfInv, Booting
  <2>4. Spaces' = {KernelDir}
    BY <2>1, <2>3, BootSpaces DEF Spaces
  <2>5. Booting'
    BY <2>1, <2>3 DEF Booting
  <2>6. KernelHalfShared'
    BY <2>1, <2>3, <2>4 DEF KernelHalfShared
  <2>7. QED
    BY <1>0, <2>5, <2>6 DEF HalfInv
<1>3. CASE SysExec
  <2>1. PICK n \in 0..MaxImage : LoadProcess(n)
    BY <1>3 DEF SysExec
  <2> DEFINE d == phys_heap_end
  <2>2. Booted /\ boot' = boot /\ phys_heap_end' = d + 1
    BY <1>3, <2>1 DEF SysExec, LoadProcess
  <2>3. /\ d \in Slot /\ d # KernelDir /\ d \notin Spaces /\ Spaces' = Spaces \cup {d}
    BY <1>0, <2>1, <2>2 DEF LoadProcess, TypeOK, Slot, KernelDir, Spaces
  <2>4. \A c \in Slot : c # d => pde'[c] = pde[c]
    BY <1>0, <2>1 DEF LoadProcess
  <2>5. \A i \in 0..(Tables - 1) :
          pde'[d][i] = [pde[cr3][i] EXCEPT !.flags = @ \cup {"US"}]
    <3>1. \A i \in 0..(Tables - 1) :
            /\ i \in Index /\ i # Image
            /\ new_pagedir[i] = [pde[cr3][i] EXCEPT !.flags = @ \cup {"US"}]
      BY DEF new_pagedir, Index, Image
    <3>2. CASE n = 0
      BY <1>0, <2>1, <2>3, <3>1, <3>2 DEF LoadProcess
    <3>3. CASE n # 0
      <4>1. PICK e : pde' = [pde EXCEPT ![d] = [new_pagedir EXCEPT ![Image] = e]]
        BY <2>1, <3>3 DEF LoadProcess
      <4>2. \A i \in Index : i # Image => pde'[d][i] = new_pagedir[i]
        BY <1>0, <2>3, <4>1 DEF new_pagedir
      <4>3. QED
        BY <3>1, <4>2
    <3>4. QED
      BY <3>2, <3>3
  <2>6. \A i \in 0..(Tables - 1) :
          pde'[d][i].frame = pde[cr3][i].frame /\ ("P" \in pde[cr3][i].flags => "P" \in pde'[d][i].flags)
    <3>1. ASSUME NEW e \in Entry
          PROVE  /\ [e EXCEPT !.flags = @ \cup {"US"}].frame = e.frame
                 /\ "P" \in e.flags => "P" \in [e EXCEPT !.flags = @ \cup {"US"}].flags
      BY DEF Entry
    <3>2. \A i \in 0..(Tables - 1) : pde[cr3][i] \in Entry
      BY <1>0 DEF Index
    <3>3. QED
      BY <2>5, <3>1, <3>2
  <2>7. Booted'
    BY <2>2 DEF Booted
  <2>8. Booting'
    BY <1>0, <2>2, <2>3, <2>4, <2>7 DEF HalfInv, Booting
  <2>9. KernelHalfShared'
    <3>1. \A b, c \in Spaces, i \in 0..(Tables - 1) :
            "P" \in pde[b][i].flags /\ pde[b][i].frame = pde[c][i].frame
      BY <2>2 DEF HalfInv, KernelHalfShared
    <3>2. \A c \in Spaces : c \in Slot /\ c # d
      BY <1>0, <2>3, KernelSpace
    <3>3. \A c \in Spaces', i \in 0..(Tables - 1) :
            "P" \in pde'[c][i].flags /\ pde'[c][i].frame = pde[cr3][i].frame
      <4>1. \A c \in Spaces, i \in 0..(Tables - 1) :
              "P" \in pde'[c][i].flags /\ pde'[c][i].frame = pde[cr3][i].frame
        BY <1>0, <2>4, <3>1, <3>2
      <4>2. \A i \in 0..(Tables - 1) :
              "P" \in pde'[d][i].flags /\ pde'[d][i].frame = pde[cr3][i].frame
        BY <1>0, <2>6, <3>1
      <4>3. QED
        BY <2>3, <4>1, <4>2
    <3>4. QED
      BY <3>3 DEF KernelHalfShared
  <2>10. QED
    BY <1>0, <2>8, <2>9 DEF HalfInv
<1>4. CASE PageFault
  <2>1. PICK i \in Index, j \in Slot : page_fault(i, j)
    BY <1>4 DEF PageFault
  <2>2. Booted /\ UNCHANGED <<phys_heap_end, image, boot>>
    BY <1>4 DEF PageFault
  <2>3. \A c \in Spaces, k \in 0..(Tables - 1) : pde'[c][k] = pde[c][k]
    <3>1. CASE UNCHANGED pde
      BY <3>1
    <3>2. CASE /\ "P" \notin pde[cr3][i].flags
               /\ create_ptable(cr3, i, pde[cr3][i].flags \cup {"P"})
      <4>1. i \notin 0..(Tables - 1)
        BY <1>0, <2>2, <3>2 DEF HalfInv, KernelHalfShared
      <4>2. PICK e : pde' = [pde EXCEPT ![cr3][i] = e]
        BY <3>2 DEF create_ptable
      <4>3. Spaces \subseteq Slot /\ 0..(Tables - 1) \subseteq Index
        BY <1>0, KernelSpace DEF Index
      <4>4. QED
        BY <1>0, <4>1, <4>2, <4>3
    <3>3. QED
      BY <2>1, <3>1, <3>2 DEF page_fault
  <2>4. Spaces' = Spaces /\ Booted'
    BY <2>2 DEF Spaces, Booted
  <2>5. Booting'
    BY <2>2, <2>3, <2>4, KernelSpace DEF HalfInv, Booting
  <2>6. KernelHalfShared'
    BY <2>2, <2>3, <2>4 DEF HalfInv, KernelHalfShared
  <2>7. QED
    BY <1>0, <2>5, <2>6 DEF HalfInv
<1>5. CASE UNCHANGED <<phys_heap_end, pde, image, demanded, boot>>
  BY <1>0, <1>5 DEF HalfInv, Booting, KernelHalfShared, Booted, Spaces
<1>6. CASE SysExecFaults
  <2>1. /\ phys_heap_end = Pages /\ phys_heap_end' = Pages + 1 /\ Booted
        /\ UNCHANGED <<pde, image, demanded, boot>>
    BY <1>6 DEF SysExecFaults
  <2>2. Spaces' = Spaces /\ Booted'
    BY <2>1 DEF Spaces, Booted
  <2>3. QED
    BY <1>0, <2>1, <2>2 DEF HalfInv, Booting, KernelHalfShared
<1>7. QED
  BY <1>1, <1>2, <1>3, <1>4, <1>5, <1>6 DEF Next, SwitchTask, vars

LEMMA AlwaysHalf == Spec => []HalfInv
BY InitHalf, HalfStep, PTL DEF Spec

(* However much is loaded and whatever faults, every directory has all     *)
(* entries of its low half, and they lead to the same page tables.         *)
THEOREM AlwaysShared == Spec => []KernelHalfShared
<1>1. HalfInv => KernelHalfShared
  BY DEF HalfInv
<1>2. QED
  BY <1>1, AlwaysHalf, PTL

-----------------------------------------------------------------------------
(***************************************************************************)
(* Frames.  The stack is popped from its end, so the frames in use are     *)
(* those from Pages up to the first one left on it.                        *)
(***************************************************************************)
InUse == Pages..(Pages + Frames - pf_index - 1)

(* The frames that a step has popped.                                      *)
New == (Pages + Frames - pf_index)..(Pages + Frames - pf_index' - 1)

ImageSlot(s) == pt[pde[s[1]][Image].frame][s[2]]

Tabled ==
  /\ \A s \in OwnTables : TableFrame(s) \in InUse
  /\ \A s, t \in OwnTables : TableFrame(s) = TableFrame(t) => s = t

Imaged ==
  /\ \A s \in ImagePages : /\ <<s[1], Image>> \in OwnTables
                           /\ "P" \in ImageSlot(s).flags
                           /\ ImageSlot(s).frame \in InUse
  /\ \A s, t \in ImagePages : ImageSlot(s).frame = ImageSlot(t).frame => s = t
  /\ \A s \in OwnTables, t \in ImagePages : TableFrame(s) # ImageSlot(t).frame

Demanded ==
  /\ \A s \in demanded : /\ s[1] \in InUse /\ s[2] \in Slot
                          /\ "P" \in pt[s[1]][s[2]].flags
                          /\ DemandFrame(s) \in InUse
  /\ \A s, t \in demanded : DemandFrame(s) = DemandFrame(t) => s = t
  /\ \A s \in demanded, t \in OwnTables : DemandFrame(s) # TableFrame(t)
  /\ \A s \in demanded, t \in ImagePages : DemandFrame(s) # ImageSlot(t).frame

(* The identity map is complete once the kernel's first table has been     *)
(* cleared through page 0, so that no fault is ever resolved in it.        *)
LowMapped ==
  \A j \in Slot : j > 0 \/ boot > 1 => "P" \in pt[Lomem][j].flags

FramesInv ==
  HalfInv /\ (pf_index >= 0 => Tabled /\ Imaged /\ Demanded /\ LowMapped)

LEMMA FramesExclusive == FramesInv => FramesNotShared
<1> SUFFICES ASSUME FramesInv, pf_index >= 0 PROVE Exclusive
  BY DEF FramesNotShared
<1>1. pf_index \in Int /\ Tabled /\ Imaged /\ Demanded
  BY DEF FramesInv, HalfInv, TypeOK
<1>2. \A k \in 0..(pf_index - 1) : PfStack(k) \in Int /\ PfStack(k) \notin InUse
  BY <1>1, Sizes DEF PfStack, InUse
<1>3. \A s \in ImagePages : PageFrame(s) = ImageSlot(s).frame
  BY DEF PageFrame, ImageSlot
<1>4. ASSUME NEW k \in 0..(pf_index - 1)
      PROVE  /\ \A s \in OwnTables : TableFrame(s) # PfStack(k)
             /\ \A s \in ImagePages : PageFrame(s) # PfStack(k)
             /\ \A s \in demanded : DemandFrame(s) # PfStack(k)
  <2>1. PfStack(k) \notin InUse
    BY <1>2
  <2>2. \A s \in OwnTables : TableFrame(s) \in InUse
    BY <1>1 DEF Tabled
  <2>3. \A s \in ImagePages : PageFrame(s) \in InUse
    BY <1>1, <1>3 DEF Imaged
  <2>4. \A s \in demanded : DemandFrame(s) \in InUse
    BY <1>1 DEF Demanded
  <2>5. QED
    BY <2>1, <2>2, <2>3, <2>4
<1>5. /\ \A s, t \in OwnTables : TableFrame(s) = TableFrame(t) => s = t
      /\ \A s, t \in ImagePages : PageFrame(s) = PageFrame(t) => s = t
      /\ \A s \in OwnTables, t \in ImagePages : TableFrame(s) # PageFrame(t)
  BY <1>1, <1>3 DEF Tabled, Imaged
<1>6. /\ \A s, t \in demanded : DemandFrame(s) = DemandFrame(t) => s = t
      /\ \A s \in demanded, t \in OwnTables : DemandFrame(s) # TableFrame(t)
      /\ \A s \in demanded, t \in ImagePages : DemandFrame(s) # PageFrame(t)
  BY <1>1, <1>3 DEF Demanded
<1>7. QED
  BY <1>4, <1>5, <1>6, Zenon DEF Exclusive

LEMMA Popping ==
  ASSUME NEW p \in Int, NEW q \in Int, 0 <= q, q <= p, p <= Frames
  PROVE  /\ Pages..(Pages + Frames - p - 1) \subseteq Pages..(Pages + Frames - q - 1)
         /\ (Pages + Frames - p)..(Pages + Frames - q - 1)
              \subseteq Pages..(Pages + Frames - q - 1)
         /\ Pages..(Pages + Frames - p - 1)
              \cap (Pages + Frames - p)..(Pages + Frames - q - 1) = {}
<1>1. Pages \in Nat /\ Frames \in Nat
  BY Sizes
<1>2. QED
  BY <1>1

(* A step that changes no frame in use, and gives what is new in N and M a *)
(* frame each that was popped, keeps the invariant.                        *)
LEMMA Fresh ==
  ASSUME FramesInv, HalfInv', 0 <= pf_index', pf_index' <= pf_index,
         NEW N, NEW M, NEW L,
         \A s \in OwnTables' :
           \/ s \in OwnTables /\ TableFrame(s)' = TableFrame(s)
           \/ s \in N /\ TableFrame(s)' \in New,
         \A s, t \in OwnTables' :
           s \in N /\ t \in N /\ TableFrame(s)' = TableFrame(t)' => s = t,
         \A s \in ImagePages' :
           /\ <<s[1], Image>> \in OwnTables'
           /\ "P" \in ImageSlot(s)'.flags
           /\ \/ s \in ImagePages /\ ImageSlot(s)' = ImageSlot(s)
              \/ s \in M /\ ImageSlot(s)'.frame \in New,
         \A s, t \in ImagePages' :
           s \in M /\ t \in M /\ ImageSlot(s)'.frame = ImageSlot(t)'.frame => s = t,
         \A s \in OwnTables', t \in ImagePages' :
           s \in N /\ t \in M => TableFrame(s)' # ImageSlot(t)'.frame,
         \A s \in demanded' :
           /\ s[1] \in InUse /\ s[2] \in Slot
           /\ "P" \in pt'[s[1]][s[2]].flags
           /\ \/ s \in demanded /\ DemandFrame(s)' = DemandFrame(s)
              \/ s \in L /\ DemandFrame(s)' \in New,
         \A s, t \in demanded' :
           s \in L /\ t \in L /\ DemandFrame(s)' = DemandFrame(t)' => s = t,
         (N = {} /\ M = {}) \/ L = {},
         LowMapped'
  PROVE  FramesInv'
<1>1. /\ pf_index \in Int /\ pf_index' \in Int /\ pf_index >= 0
      /\ pf_index <= Frames
      /\ Tabled /\ Imaged /\ Demanded
  BY DEF FramesInv, HalfInv, TypeOK
<1>2. InUse \subseteq InUse' /\ New \subseteq InUse' /\ InUse \cap New = {}
  BY <1>1, Popping DEF InUse, New
<1>3. \A s \in OwnTables' :
        \/ s \in OwnTables /\ TableFrame(s)' = TableFrame(s) /\ TableFrame(s) \in InUse
        \/ s \in N /\ TableFrame(s)' \in New
  BY <1>1 DEF Tabled
<1>4. \A s \in ImagePages' :
        \/ /\ s \in ImagePages
           /\ ImageSlot(s)'.frame = ImageSlot(s).frame /\ ImageSlot(s).frame \in InUse
        \/ s \in M /\ ImageSlot(s)'.frame \in New
  BY <1>1 DEF Imaged
<1>5. Tabled'
  <2>1. \A s \in OwnTables' : TableFrame(s)' \in InUse'
    BY <1>2, <1>3
  <2>2. ASSUME NEW s \in OwnTables', NEW t \in OwnTables', TableFrame(s)' = TableFrame(t)'
        PROVE  s = t
    BY <1>1, <1>2, <1>3, <2>2 DEF Tabled
  <2>3. QED
    BY <2>1, <2>2 DEF Tabled
<1>6. Imaged'
  <2>1. \A s \in ImagePages' : ImageSlot(s)'.frame \in InUse'
    BY <1>2, <1>4
  <2>2. ASSUME NEW s \in ImagePages', NEW t \in ImagePages',
               ImageSlot(s)'.frame = ImageSlot(t)'.frame
        PROVE  s = t
    BY <1>1, <1>2, <1>4, <2>2 DEF Imaged
  <2>3. ASSUME NEW s \in OwnTables', NEW t \in ImagePages'
        PROVE  TableFrame(s)' # ImageSlot(t)'.frame
    BY <1>1, <1>2, <1>3, <1>4 DEF Imaged
  <2>4. QED
    BY <2>1, <2>2, <2>3 DEF Imaged
<1>7. \A s \in demanded' :
        \/ /\ s \in demanded
           /\ DemandFrame(s)' = DemandFrame(s) /\ DemandFrame(s) \in InUse
        \/ s \in L /\ DemandFrame(s)' \in New
  BY <1>1 DEF Demanded
<1>8. Demanded'
  <2>1. \A s \in demanded' : /\ s[1] \in InUse' /\ s[2] \in Slot
                             /\ "P" \in pt'[s[1]][s[2]].flags
                             /\ DemandFrame(s)' \in InUse'
    BY <1>2, <1>7
  <2>2. ASSUME NEW s \in demanded', NEW t \in demanded', DemandFrame(s)' = DemandFrame(t)'
        PROVE  s = t
    BY <1>1, <1>2, <1>7, <2>2 DEF Demanded
  <2>3. ASSUME NEW s \in demanded', NEW t \in OwnTables'
        PROVE  DemandFrame(s)' # TableFrame(t)'
    BY <1>1, <1>2, <1>3, <1>7 DEF Demanded
  <2>4. ASSUME NEW s \in demanded', NEW t \in ImagePages'
        PROVE  DemandFrame(s)' # ImageSlot(t)'.frame
    BY <1>1, <1>2, <1>4, <1>7 DEF Demanded
  <2>5. QED
    BY <2>1, <2>2, <2>3, <2>4 DEF Demanded, Slot
<1>9. QED
  BY <1>5, <1>6, <1>8 DEF FramesInv

LEMMA InitFrames == Init => FramesInv
<1> SUFFICES ASSUME Init PROVE FramesInv
  OBVIOUS
<1> USE Sizes
<1>1. HalfInv
  BY InitHalf
<1>2. Spaces = {KernelDir}
  BY BootSpaces DEF Init
<1>3. \A i \in Index : i > 0 => pde[KernelDir][i] = Absent
  BY Places DEF Init, NoDir
<1>4. OwnTables = {}
  <2>1. ASSUME NEW s \in OwnTables PROVE FALSE
    <3>1. /\ s[1] = KernelDir /\ s[2] \in Index /\ "P" \in pde[KernelDir][s[2]].flags
          /\ s[2] \in High \/ s[2] > 0
      BY <1>2 DEF OwnTables
    <3>2. s[2] > 0
      BY <3>1 DEF High
    <3>3. QED
      BY <1>3, <3>1, <3>2 DEF Absent
  <2>2. QED
    BY <2>1
<1>5. ImagePages = {}
  BY <1>2, Places DEF ImagePages, Init, Slot
<1>6. LowMapped
  <2>1. PICK junk \in Junk : pt[Lomem] = IdentityMap(junk)
    BY Places DEF Init
  <2>2. QED
    BY <2>1 DEF Init, IdentityMap, LowMapped, Slot
<1>7. demanded = {}
  BY DEF Init
<1>8. QED
  BY <1>1, <1>4, <1>5, <1>6, <1>7 DEF FramesInv, Tabled, Imaged, Demanded

(* What a step that leaves the directories of the processes, their images  *)
(* and the frames in use alone has to show.                                *)
LEMMA TableKept ==
  ASSUME TypeOK, NEW f, NEW g \in InUse, NEW junk \in Junk, 0 <= pf_index,
         f # g, pt' = WithTable(f, junk)
  PROVE  pt'[g] = pt[g]
<1>1. g \in 0..(Pages + Frames - 1) /\ g # Lomem
  BY Sizes DEF TypeOK, InUse, Lomem
<1>2. QED
  BY <1>1 DEF WithTable, TypeOK

(* Clearing a table through page 0 completes the identity map.             *)
LEMMA LowKept ==
  ASSUME TypeOK, LowMapped, NEW f, f # Lomem, NEW table,
         pt' = [pt EXCEPT ![f] = table, ![Lomem][0] = Scratch]
  PROVE  LowMapped'
<1>1. /\ pt \in [0..(Pages + Frames - 1) -> [Slot -> Entry]]
      /\ Lomem \in 0..(Pages + Frames - 1) /\ 0 \in Slot
  BY Places DEF TypeOK
<1>2. pt'[Lomem] = [pt[Lomem] EXCEPT ![0] = Scratch]
  BY <1>1
<1>3. pt[Lomem] \in [Slot -> Entry]
  BY <1>1
<1>4. pt'[Lomem][0] = Scratch /\ \A j \in Slot : j # 0 => pt'[Lomem][j] = pt[Lomem][j]
  BY <1>1, <1>2, <1>3
<1>5. \A j \in Slot : j # 0 => "P" \in pt[Lomem][j].flags
  BY Sizes DEF LowMapped, Slot
<1>6. "P" \in Scratch.flags
  BY DEF Scratch
<1>7. \A j \in Slot : "P" \in pt'[Lomem][j].flags
  BY <1>4, <1>5, <1>6
<1>8. QED
  BY <1>7 DEF LowMapped

(* A new page table, where there was none, takes the first free frame.     *)
LEMMA TableFrames ==
  ASSUME FramesInv, HalfInv', 0 <= pf_index', NEW d \in Spaces, NEW i \in Index,
         NEW flags, create_ptable(d, i, flags),
         Spaces' = Spaces, image' = image, demanded' = demanded,
         ImagePages = {} \/ "P" \notin pde[d][i].flags
  PROVE  FramesInv'
<1>1. /\ pf_index \in Int /\ pf_index' = pf_index - 1 /\ pf_index >= 1
      /\ TypeOK /\ Tabled /\ Imaged /\ Demanded /\ LowMapped /\ pf_index <= Frames
      /\ Spaces \subseteq Slot
      /\ pde \in [Slot -> [Index -> Entry]]
  BY KernelSpace DEF FramesInv, HalfInv, TypeOK, create_ptable
<1> DEFINE f == Pages + Frames - pf_index
<1>2. PfStack(pf_index - 1) = f /\ PfStackRaw(pf_index - 1) = f
  BY <1>1, Sizes DEF PfStack, PfStackRaw
<1>3. f \in New /\ f \notin InUse
  BY <1>1, Sizes DEF New, InUse
<1>4. PICK junk \in Junk : pt' = WithTable(f, junk)
  BY <1>2 DEF create_ptable
<1>5. /\ pde'[d][i].frame = f
      /\ \A c \in Slot, j \in Index : <<c, j>> # <<d, i>> => pde'[c][j] = pde[c][j]
  BY <1>1, <1>2 DEF create_ptable
<1> HIDE DEF f
<1>6. \A s \in OwnTables' :
        \/ s \in OwnTables /\ TableFrame(s)' = TableFrame(s)
        \/ s \in {<<d, i>>} /\ TableFrame(s)' \in New
  BY <1>1, <1>3, <1>5 DEF OwnTables, TableFrame
<1>7. \A s \in ImagePages' :
        /\ <<s[1], Image>> \in OwnTables'
        /\ "P" \in ImageSlot(s)'.flags
        /\ s \in ImagePages /\ ImageSlot(s)' = ImageSlot(s)
  <2> SUFFICES ASSUME NEW s \in ImagePages'
               PROVE  /\ <<s[1], Image>> \in OwnTables'
                      /\ "P" \in ImageSlot(s)'.flags
                      /\ s \in ImagePages /\ ImageSlot(s)' = ImageSlot(s)
    OBVIOUS
  <2>1. s \in ImagePages /\ s[1] \in Slot
    BY <1>1 DEF ImagePages
  <2>2. <<s[1], Image>> \in OwnTables /\ "P" \in ImageSlot(s).flags
    BY <1>1, <2>1 DEF Imaged
  <2>3. <<s[1], Image>> # <<d, i>> /\ Image \in Index
    BY <2>1, <2>2, Places DEF OwnTables
  <2>4. pde'[s[1]][Image] = pde[s[1]][Image]
    BY <1>5, <2>1, <2>3
  <2>5. pde[s[1]][Image].frame \in InUse
    BY <1>1, <2>2 DEF Tabled, TableFrame
  <2>6. pt'[pde[s[1]][Image].frame] = pt[pde[s[1]][Image].frame]
    BY <1>1, <1>3, <1>4, <2>5, TableKept
  <2>7. ImageSlot(s)' = ImageSlot(s)
    BY <2>4, <2>6 DEF ImageSlot
  <2>8. <<s[1], Image>> \in OwnTables'
    BY <2>2, <2>4 DEF OwnTables
  <2>9. QED
    BY <2>1, <2>2, <2>7, <2>8
<1>8. pf_index' <= pf_index
  BY <1>1
<1> DEFINE N == {<<d, i>>}
           M == {}
           L == {}
<1>9. \A s, t \in OwnTables' :
        s \in N /\ t \in N /\ TableFrame(s)' = TableFrame(t)' => s = t
  OBVIOUS
<1>10. /\ \A s, t \in ImagePages' :
            s \in M /\ t \in M /\ ImageSlot(s)'.frame = ImageSlot(t)'.frame => s = t
       /\ \A s \in OwnTables', t \in ImagePages' :
            s \in N /\ t \in M => TableFrame(s)' # ImageSlot(t)'.frame
       /\ \A s, t \in demanded' :
            s \in L /\ t \in L /\ DemandFrame(s)' = DemandFrame(t)' => s = t
       /\ (N = {} /\ M = {}) \/ L = {}
  OBVIOUS
<1>11. \A s \in OwnTables' :
         \/ s \in OwnTables /\ TableFrame(s)' = TableFrame(s)
         \/ s \in N /\ TableFrame(s)' \in New
  BY <1>6
<1>12. \A s \in ImagePages' :
         /\ <<s[1], Image>> \in OwnTables'
         /\ "P" \in ImageSlot(s)'.flags
         /\ \/ s \in ImagePages /\ ImageSlot(s)' = ImageSlot(s)
            \/ s \in M /\ ImageSlot(s)'.frame \in New
  BY <1>7, Zenon
<1>13. \A s \in demanded' :
         /\ s[1] \in InUse /\ s[2] \in Slot
         /\ "P" \in pt'[s[1]][s[2]].flags
         /\ \/ s \in demanded /\ DemandFrame(s)' = DemandFrame(s)
            \/ s \in L /\ DemandFrame(s)' \in New
  <2> SUFFICES ASSUME NEW s \in demanded
               PROVE  /\ s[1] \in InUse /\ s[2] \in Slot
                      /\ "P" \in pt'[s[1]][s[2]].flags
                      /\ DemandFrame(s)' = DemandFrame(s)
    OBVIOUS
  <2>1. s[1] \in InUse /\ s[2] \in Slot /\ "P" \in pt[s[1]][s[2]].flags
    BY <1>1 DEF Demanded
  <2>2. pt'[s[1]] = pt[s[1]]
    BY <1>1, <1>3, <1>4, <2>1, TableKept
  <2>3. QED
    BY <2>1, <2>2 DEF DemandFrame
<1>14. LowMapped'
  <2>1. f # Lomem
    BY <1>1, <1>3, Sizes DEF New
  <2>2. QED
    BY <1>1, <1>4, <2>1, LowKept DEF WithTable
<1> HIDE DEF N, M, L
<1>15. QED
  BY <1>8, <1>9, <1>10, <1>11, <1>12, <1>13, <1>14, Fresh, Zenon

(* A step that takes no frame for a table or an image, but perhaps one for *)
(* a page that was demanded.                                               *)
LEMMA SameFrames ==
  ASSUME FramesInv, HalfInv', 0 <= pf_index', pf_index' <= pf_index, NEW L,
         \A s \in OwnTables' : s \in OwnTables /\ TableFrame(s)' = TableFrame(s),
         \A s \in ImagePages' :
           /\ s \in ImagePages /\ ImageSlot(s)' = ImageSlot(s)
           /\ <<s[1], Image>> \in OwnTables',
         \A s \in demanded' :
           /\ s[1] \in InUse /\ s[2] \in Slot
           /\ "P" \in pt'[s[1]][s[2]].flags
           /\ \/ s \in demanded /\ DemandFrame(s)' = DemandFrame(s)
              \/ s \in L /\ DemandFrame(s)' \in New,
         \A s, t \in demanded' :
           s \in L /\ t \in L /\ DemandFrame(s)' = DemandFrame(t)' => s = t,
         LowMapped'
  PROVE  FramesInv'
<1> DEFINE N == {}
<1>1. \A s \in ImagePages' : "P" \in ImageSlot(s)'.flags
  <2>1. pf_index \in Int /\ pf_index' \in Int
    BY DEF FramesInv, HalfInv, TypeOK
  <2>2. Imaged
    BY <2>1 DEF FramesInv
  <2>3. QED
    BY <2>2 DEF Imaged
<1>2. \A s \in ImagePages' :
         /\ <<s[1], Image>> \in OwnTables'
         /\ "P" \in ImageSlot(s)'.flags
         /\ \/ s \in ImagePages /\ ImageSlot(s)' = ImageSlot(s)
            \/ s \in N /\ ImageSlot(s)'.frame \in New
  BY <1>1
<1>3. /\ \A s, t \in OwnTables' :
           s \in N /\ t \in N /\ TableFrame(s)' = TableFrame(t)' => s = t
      /\ \A s, t \in ImagePages' :
           s \in N /\ t \in N /\ ImageSlot(s)'.frame = ImageSlot(t)'.frame => s = t
      /\ \A s \in OwnTables', t \in ImagePages' :
           s \in N /\ t \in N => TableFrame(s)' # ImageSlot(t)'.frame
      /\ (N = {} /\ N = {}) \/ L = {}
  OBVIOUS
<1>4. \A s \in OwnTables' :
         \/ s \in OwnTables /\ TableFrame(s)' = TableFrame(s)
         \/ s \in N /\ TableFrame(s)' \in New
  OBVIOUS
<1> HIDE DEF N
<1>5. QED
  BY <1>2, <1>3, <1>4, Fresh, Zenon

(* A new directory has no table of its own but that of its image, if any.  *)
LEMMA NewDirectory ==
  /\ \A i \in High : new_pagedir[i] = Absent
  /\ phys_heap_end \in FirstDir..(Pages + 1) =>
       phys_heap_end # KernelDir /\ phys_heap_end \notin Spaces
BY Sizes DEF new_pagedir, High, Index, KernelDir, Spaces

LEMMA LoadFrames ==
  ASSUME FramesInv, HalfInv', 0 <= pf_index', NEW n \in 0..MaxImage, LoadProcess(n),
         UNCHANGED <<demanded, boot>>
  PROVE  FramesInv'
<1> DEFINE d == phys_heap_end
<1>1. /\ pf_index \in Int /\ pf_index <= Frames /\ TypeOK /\ demanded' = demanded
      /\ Spaces \subseteq Slot /\ d \in Slot /\ d # KernelDir /\ d \notin Spaces
      /\ pde \in [Slot -> [Index -> Entry]]
  <2>1. d \in Slot
    BY DEF LoadProcess, FramesInv, HalfInv, TypeOK, Slot
  <2>2. QED
    BY <2>1, KernelSpace, NewDirectory DEF FramesInv, HalfInv, TypeOK
<1>2. Spaces' = Spaces \cup {d}
  BY <1>1, Sizes DEF LoadProcess, Spaces, TypeOK
<1>3. image' = [image EXCEPT ![d] = n] /\ image \in [Slot -> 0..MaxImage]
  BY DEF LoadProcess, FramesInv, HalfInv, TypeOK
<1>4. CASE n = 0
  <2>1. pde' = [pde EXCEPT ![d] = new_pagedir] /\ UNCHANGED <<pf_index, pt>>
    BY <1>4 DEF LoadProcess
  <2>2. \A s \in OwnTables' : s[1] # d
    BY <1>1, <2>1, NewDirectory DEF OwnTables, Absent
  <2>3. \A c \in Slot : c # d => pde'[c] = pde[c]
    BY <1>1, <2>1
  <2>4. \A s \in OwnTables' : s \in OwnTables /\ TableFrame(s)' = TableFrame(s)
    BY <1>1, <1>2, <2>2, <2>3 DEF OwnTables, TableFrame
  <2>5. \A s \in ImagePages' : s \in ImagePages /\ s[1] # d
    BY <1>1, <1>2, <1>3, <1>4 DEF ImagePages, Slot
  <2>6. pf_index >= 0 /\ Imaged
    BY <1>1, <2>1 DEF FramesInv
  <2>7. \A s \in ImagePages' : s[1] \in Slot /\ pde'[s[1]] = pde[s[1]]
    BY <1>1, <2>3, <2>5 DEF ImagePages
  <2>8. ASSUME NEW s \in ImagePages'
        PROVE  /\ s \in ImagePages /\ ImageSlot(s)' = ImageSlot(s)
               /\ <<s[1], Image>> \in OwnTables'
    <3>1. s \in ImagePages /\ <<s[1], Image>> \in OwnTables
      BY <2>5, <2>6 DEF Imaged
    <3>2. <<s[1], Image>> \in OwnTables'
      BY <1>2, <2>7, <3>1 DEF OwnTables
    <3>3. ImageSlot(s)' = ImageSlot(s)
      BY <2>1, <2>7 DEF ImageSlot
    <3>4. QED
      BY <3>1, <3>2, <3>3
  <2>9. pf_index' <= pf_index
    BY <1>1, <2>1
  <2>10. LowMapped' /\ \A s \in demanded' :
           /\ s \in demanded /\ s[1] \in InUse /\ s[2] \in Slot
           /\ "P" \in pt'[s[1]][s[2]].flags /\ DemandFrame(s)' = DemandFrame(s)
    <3>1. Demanded /\ LowMapped
      BY <2>6 DEF FramesInv
    <3>2. QED
      BY <1>1, <2>1, <3>1 DEF Demanded, LowMapped, DemandFrame
  <2> DEFINE L == {}
  <2>11. \A s \in demanded' :
           /\ s[1] \in InUse /\ s[2] \in Slot
           /\ "P" \in pt'[s[1]][s[2]].flags
           /\ \/ s \in demanded /\ DemandFrame(s)' = DemandFrame(s)
              \/ s \in L /\ DemandFrame(s)' \in New
    BY <2>10
  <2>12. \A s, t \in demanded' :
           s \in L /\ t \in L /\ DemandFrame(s)' = DemandFrame(t)' => s = t
    OBVIOUS
  <2> HIDE DEF L
  <2>13. QED
    BY <2>4, <2>8, <2>9, <2>10, <2>11, <2>12, SameFrames, Zenon
<1>5. CASE n # 0
  <2> DEFINE f == Pages + Frames - (pf_index - 1)
  <2>1. /\ pf_index' = pf_index - (n + 1) /\ n \in Nat /\ n >= 1 /\ n < Pages
        /\ pf_index >= n + 1
    BY <1>1, <1>5, Sizes DEF LoadProcess
  <2>2. /\ PfStackRaw(pf_index - 2) = f /\ f \in 0..(Pages + Frames - 1)
        /\ f \in New /\ f \notin InUse /\ f # Lomem
    BY <1>1, <2>1, Sizes DEF PfStackRaw, PfStack, New, InUse, Lomem
  <2>3. \A k \in 0..(n - 1) : ImageFrame(k) = IF k = 0 THEN f - 1 ELSE f + k
    BY <1>1, <2>1, Sizes DEF ImageFrame, PfStack
  <2>4. \A k \in 0..(n - 1) : ImageFrame(k) \in New /\ ImageFrame(k) # f
    BY <1>1, <2>1, <2>3, Sizes DEF New
  <2>5. \A j, k \in 0..(n - 1) : ImageFrame(j) = ImageFrame(k) => j = k
    BY <1>1, <2>1, <2>3, Sizes
  <2> HIDE DEF f, d
  <2>6. PICK junk \in Junk :
          pt' = [pt EXCEPT ![f] = ImageTable(n, junk), ![Lomem][0] = Scratch]
    BY <1>5, <2>2 DEF LoadProcess
  <2> DEFINE e == [frame |-> f, flags |-> {"P", "RW", "US"}]
  <2>7. pde' = [pde EXCEPT ![d] = [new_pagedir EXCEPT ![Image] = e]]
    BY <1>5, <2>2 DEF LoadProcess, d
  <2>8. /\ \A c \in Slot : c # d => pde'[c] = pde[c]
        /\ pde'[d][Image].frame = f
        /\ "P" \in pde'[d][Image].flags
        /\ \A i \in High : i # Image => pde'[d][i] = Absent
    BY <1>1, <2>7, Places, NewDirectory DEF new_pagedir
  <2>9. pt \in [0..(Pages + Frames - 1) -> [Slot -> Entry]]
    BY <1>1 DEF TypeOK
  <2>10. /\ pt'[f] = ImageTable(n, junk)
         /\ \A g \in InUse : pt'[g] = pt[g]
    <3>1. pt'[f] = ImageTable(n, junk)
      BY <2>2, <2>6, <2>9
    <3>2. \A g \in InUse : g \in 0..(Pages + Frames - 1) /\ g # Lomem /\ g # f
      BY <1>1, <2>1, <2>2, Sizes DEF InUse, Lomem
    <3>3. QED
      BY <2>6, <2>9, <3>1, <3>2
  <2>11. Tabled /\ Imaged /\ Demanded /\ LowMapped
    BY <1>1, <2>1 DEF FramesInv
  <2> DEFINE N == {<<d, Image>>}
             M == {s \in ImagePages' : s[1] = d}
             L == {}
  <2>12. \A s \in OwnTables' :
           \/ s \in OwnTables /\ TableFrame(s)' = TableFrame(s)
           \/ s \in N /\ TableFrame(s)' \in New
    <3>1. ASSUME NEW s \in OwnTables', s[1] = d PROVE s = <<d, Image>>
      BY <1>1, <2>8, <3>1 DEF OwnTables, Absent, d
    <3>2. \A s \in OwnTables' : s[1] # d => s \in OwnTables /\ TableFrame(s)' = TableFrame(s)
      BY <1>1, <1>2, <2>8 DEF OwnTables, TableFrame, d
    <3>3. \A s : s = <<d, Image>> => TableFrame(s)' \in New
      BY <2>2, <2>8 DEF TableFrame
    <3>4. QED
      BY <3>1, <3>2, <3>3
  <2>13. <<d, Image>> \in OwnTables'
    BY <1>2, <2>8, Places DEF OwnTables, High, Image, d
  <2>14. ASSUME NEW s \in ImagePages', s[1] = d
         PROVE  /\ s[2] \in 0..(n - 1) /\ s = <<d, s[2]>>
                /\ ImageSlot(s)' = [frame |-> ImageFrame(s[2]), flags |-> {"P", "RW", "US"}]
    <3>1. s[2] \in Slot /\ s[2] < n /\ s = <<s[1], s[2]>>
      BY <1>1, <1>3, <2>14 DEF ImagePages, d
    <3>2. ImageSlot(s)' = ImageTable(n, junk)[s[2]]
      BY <2>8, <2>10, <2>14 DEF ImageSlot
    <3>3. QED
      BY <2>1, <2>14, <3>1, <3>2 DEF ImageTable, Slot
  <2>15. ASSUME NEW s \in ImagePages', s[1] # d
         PROVE  /\ s \in ImagePages /\ ImageSlot(s)' = ImageSlot(s)
                /\ <<s[1], Image>> \in OwnTables' /\ "P" \in ImageSlot(s).flags
    <3>1. s \in ImagePages /\ s[1] \in Slot
      BY <1>1, <1>2, <1>3, <2>15 DEF ImagePages, d
    <3>2. <<s[1], Image>> \in OwnTables /\ "P" \in ImageSlot(s).flags
      BY <2>11, <3>1 DEF Imaged
    <3>3. pde'[s[1]] = pde[s[1]]
      BY <2>8, <2>15, <3>1
    <3>4. pde[s[1]][Image].frame \in InUse
      BY <2>11, <3>2 DEF Tabled, TableFrame
    <3>5. QED
      BY <1>2, <2>10, <3>1, <3>2, <3>3, <3>4 DEF OwnTables, ImageSlot
  <2>16. \A s \in ImagePages' :
           /\ <<s[1], Image>> \in OwnTables'
           /\ "P" \in ImageSlot(s)'.flags
           /\ \/ s \in ImagePages /\ ImageSlot(s)' = ImageSlot(s)
              \/ s \in M /\ ImageSlot(s)'.frame \in New
    <3>1. ASSUME NEW s \in ImagePages', s[1] = d
          PROVE  /\ <<s[1], Image>> \in OwnTables' /\ "P" \in ImageSlot(s)'.flags
                 /\ s \in M /\ ImageSlot(s)'.frame \in New
      BY <2>4, <2>13, <2>14, <3>1
    <3>2. QED
      BY <2>15, <3>1, Zenon
  <2>17. \A s, t \in OwnTables' :
           s \in N /\ t \in N /\ TableFrame(s)' = TableFrame(t)' => s = t
    OBVIOUS
  <2>18. ASSUME NEW s \in ImagePages', NEW t \in ImagePages', s \in M, t \in M,
                ImageSlot(s)'.frame = ImageSlot(t)'.frame
         PROVE  s = t
    BY <2>5, <2>14, <2>18
  <2>19. ASSUME NEW s \in OwnTables', NEW t \in ImagePages', s \in N, t \in M
         PROVE  TableFrame(s)' # ImageSlot(t)'.frame
    BY <2>4, <2>8, <2>14, <2>19 DEF TableFrame
  <2>20. pf_index' <= pf_index
    BY <1>1, <2>1
  <2>21. \A s \in demanded' :
           /\ s[1] \in InUse /\ s[2] \in Slot
           /\ "P" \in pt'[s[1]][s[2]].flags
           /\ \/ s \in demanded /\ DemandFrame(s)' = DemandFrame(s)
              \/ s \in L /\ DemandFrame(s)' \in New
    BY <1>1, <2>10, <2>11 DEF Demanded, DemandFrame
  <2>22. /\ \A s, t \in demanded' :
              s \in L /\ t \in L /\ DemandFrame(s)' = DemandFrame(t)' => s = t
         /\ (N = {} /\ M = {}) \/ L = {}
    OBVIOUS
  <2>23. /\ \A s, t \in ImagePages' :
              s \in M /\ t \in M /\ ImageSlot(s)'.frame = ImageSlot(t)'.frame => s = t
         /\ \A s \in OwnTables', t \in ImagePages' :
              s \in N /\ t \in M => TableFrame(s)' # ImageSlot(t)'.frame
    BY <2>18, <2>19
  <2>24. LowMapped'
    BY <1>1, <2>2, <2>6, <2>11, LowKept
  <2> HIDE DEF N, M, L
  <2>25. QED
    BY <2>12, <2>16, <2>17, <2>20, <2>21, <2>22, <2>23, <2>24, Fresh, Zenon
<1>6. QED
  BY <1>4, <1>5

LEMMA InUseFrames ==
  ASSUME pf_index \in Int, 0 <= pf_index
  PROVE  InUse \subseteq 0..(Pages + Frames - 1)
BY Sizes DEF InUse

(* A table in which a fault is looked up, other than the identity map.     *)
LEMMA FaultedTable ==
  ASSUME FramesInv, 0 <= pf_index, Booted, NEW i \in Index,
         "P" \in pde[cr3][i].flags, pde[cr3][i].frame # Lomem
  PROVE  pde[cr3][i].frame \in InUse
<1>1. pf_index \in Int /\ TypeOK /\ Tabled /\ cr3 \in Spaces /\ KernelDir \in Spaces
  BY KernelSpace DEF FramesInv, HalfInv, TypeOK
<1>2. CASE i \in High
  <2>1. <<cr3, i>> \in OwnTables
    BY <1>1, <1>2 DEF OwnTables
  <2>2. QED
    BY <1>1, <2>1 DEF Tabled, TableFrame
<1>3. CASE i \in 1..(Tables - 1)
  <2>1. "P" \in pde[KernelDir][i].flags /\ pde[cr3][i].frame = pde[KernelDir][i].frame
    BY <1>1, <1>3, Sizes DEF FramesInv, HalfInv, KernelHalfShared
  <2>2. <<KernelDir, i>> \in OwnTables
    BY <1>1, <1>3, <2>1 DEF OwnTables
  <2>3. QED
    BY <1>1, <2>1, <2>2 DEF Tabled, TableFrame
<1>4. CASE i = 0
  <2>1. 0 \in 0..(Tables - 1) /\ KernelHalfShared /\ Booting
    BY Sizes DEF FramesInv, HalfInv
  <2>2. pde[cr3][0].frame = pde[KernelDir][0].frame
    BY <1>1, <2>1 DEF KernelHalfShared
  <2>3. QED
    BY <1>4, <2>1, <2>2 DEF Booting
<1>5. QED
  BY <1>2, <1>3, <1>4, Sizes DEF Index, High

LEMMA FaultFrames ==
  ASSUME FramesInv, HalfInv', 0 <= pf_index', Running, Booted, NEW i \in Index, NEW j \in Slot,
         page_fault(i, j), UNCHANGED <<phys_heap_end, image, boot>>
  PROVE  FramesInv'
<1>1. /\ pf_index \in Int /\ pf_index >= 0 /\ TypeOK /\ Tabled /\ Imaged
      /\ Demanded /\ LowMapped
      /\ Spaces \subseteq Slot /\ Spaces' = Spaces /\ cr3 \in Spaces
      /\ pt \in [0..(Pages + Frames - 1) -> [Slot -> Entry]]
  BY KernelSpace DEF FramesInv, HalfInv, TypeOK, Running, Spaces
<1>2. CASE /\ "P" \notin pde[cr3][i].flags
           /\ create_ptable(cr3, i, pde[cr3][i].flags \cup {"P"})
           /\ UNCHANGED demanded
  BY <1>1, <1>2, TableFrames
<1> DEFINE g == pde[cr3][i].frame
           q == [frame |-> PfStackRaw(pf_index - 1),
                 flags |-> (pt[g][j].flags \ {"VM"}) \cup {"P"} \cup PfStackFlags(pf_index - 1)]
<1>3. CASE /\ "P" \in pde[cr3][i].flags /\ "P" \notin pt[g][j].flags
           /\ pf_index' = pf_index - 1 /\ UNCHANGED pde
           /\ pt' = [pt EXCEPT ![g][j] = q]
           /\ demanded' = demanded \cup {<<g, j>>}
  <2>1. \A s \in OwnTables' : s \in OwnTables /\ TableFrame(s)' = TableFrame(s)
    BY <1>1, <1>3 DEF OwnTables, TableFrame
  <2>2. ASSUME NEW s \in ImagePages'
        PROVE  /\ s \in ImagePages /\ ImageSlot(s)' = ImageSlot(s)
               /\ <<s[1], Image>> \in OwnTables'
    <3>1. s \in ImagePages /\ s[2] \in Slot
      BY <1>1 DEF ImagePages
    <3>2. /\ <<s[1], Image>> \in OwnTables /\ "P" \in ImageSlot(s).flags
      BY <1>1, <3>1 DEF Imaged
    <3>3. <<s[1], Image>> \in OwnTables'
      BY <1>1, <1>3, <3>2 DEF OwnTables
    <3>4. pde[s[1]][Image].frame \in 0..(Pages + Frames - 1)
      <4>1. pde[s[1]][Image].frame \in InUse
        BY <1>1, <3>2 DEF Tabled, TableFrame
      <4>2. QED
        BY <1>1, <4>1, InUseFrames
    <3>5. ImageSlot(s)' = ImageSlot(s)
      BY <1>1, <1>3, <3>1, <3>2, <3>4 DEF ImageSlot
    <3>6. QED
      BY <3>1, <3>3, <3>5
  <2>3. pf_index' <= pf_index
    BY <1>1, <1>3
  <2>4. g # Lomem
    BY <1>1, <1>3, Sizes DEF LowMapped, Booted
  <2>5. g \in InUse
    BY <1>1, <1>3, <2>4, FaultedTable
  <2>6. g \in 0..(Pages + Frames - 1)
    BY <1>1, <2>5, InUseFrames
  <2>7. q.frame \in New
    BY <1>1, <1>3, Sizes DEF New, PfStackRaw, PfStack
  <2> DEFINE L == {<<g, j>>}
  <2> HIDE DEF g, q
  <2>8. pt'[g][j] = q /\ \A f, k : <<f, k>> # <<g, j>> => pt'[f][k] = pt[f][k]
    BY <1>1, <1>3, <2>6
  <2>9. \A s \in demanded' :
          /\ s[1] \in InUse /\ s[2] \in Slot
          /\ "P" \in pt'[s[1]][s[2]].flags
          /\ \/ s \in demanded /\ DemandFrame(s)' = DemandFrame(s)
             \/ s \in L /\ DemandFrame(s)' \in New
    <3>1. ASSUME NEW s \in demanded
          PROVE  /\ s[1] \in InUse /\ s[2] \in Slot
                 /\ "P" \in pt'[s[1]][s[2]].flags
                 /\ DemandFrame(s)' = DemandFrame(s)
      BY <1>1, <1>3, <2>8 DEF Demanded, DemandFrame
    <3>2. "P" \in q.flags
      BY DEF q
    <3>3. /\ g \in InUse /\ j \in Slot /\ "P" \in pt'[g][j].flags
          /\ pt'[g][j].frame \in New
      BY <2>5, <2>7, <2>8, <3>2
    <3>4. ASSUME NEW s, s = <<g, j>>
          PROVE  /\ s[1] \in InUse /\ s[2] \in Slot
                 /\ "P" \in pt'[s[1]][s[2]].flags
                 /\ DemandFrame(s)' \in New
      BY <3>3, <3>4 DEF DemandFrame
    <3>5. \A s \in demanded' : s \in demanded \/ s = <<g, j>>
      BY <1>3
    <3>6. QED
      BY <3>1, <3>4, <3>5
  <2>10. \A s, t \in demanded' :
           s \in L /\ t \in L /\ DemandFrame(s)' = DemandFrame(t)' => s = t
    OBVIOUS
  <2>11. LowMapped'
    BY <1>1, <2>4, <2>8 DEF LowMapped
  <2> HIDE DEF L
  <2>12. QED
    BY <2>1, <2>2, <2>3, <2>9, <2>10, <2>11, SameFrames, Zenon
<1>4. QED
  BY <1>2, <1>3 DEF page_fault

(* Every page of the heap has its slot behind the identity map.            *)
LEMMA HeapEntries ==
  ASSUME boot \in Nat, boot >= Tables, boot < Tables + HeapPages
  PROVE  HeapTable + (boot - Tables) \div Pages \in 1..(Tables - 1)
<1> DEFINE k == boot - Tables
           q == k \div Pages
<1>1. /\ Pages \in Nat \ {0} /\ Tables \in Nat /\ HeapTable \in 1..(Tables - 1)
      /\ HeapPages \in 1..((Tables - HeapTable) * Pages)
  BY Sizes, PagingAssumption
<1>2. k \in Nat /\ k < (Tables - HeapTable) * Pages
  BY <1>1
<1>3. q \in Nat /\ q * Pages <= k
  BY <1>1, <1>2
<1>4. q < Tables - HeapTable
  <2>1. CASE q >= Tables - HeapTable
    <3>1. q * Pages >= (Tables - HeapTable) * Pages
      BY <1>1, <1>3, <2>1, SMTT(30)
    <3>2. QED
      BY <1>1, <1>2, <1>3, <3>1
  <2>2. QED
    BY <1>1, <1>3, <2>1
<1>5. QED
  BY <1>1, <1>3, <1>4

LEMMA StepFrames == FramesInv /\ [Next]_vars => FramesInv'
<1> SUFFICES ASSUME FramesInv, [Next]_vars PROVE FramesInv'
  OBVIOUS
<1>1. /\ HalfInv /\ HalfInv' /\ TypeOK /\ pf_index \in Int /\ pf_index' \in Int
  BY HalfStep DEF FramesInv, HalfInv, TypeOK
<1>2. CASE ~(0 <= pf_index')
  BY <1>1, <1>2 DEF FramesInv
<1>3. CASE 0 <= pf_index'
  <2>1. CASE InitPaging
    <3>1. /\ boot < Tables /\ create_ptable(KernelDir, boot, {"P", "RW"})
          /\ UNCHANGED <<phys_heap_end, image, demanded>> /\ boot' = boot + 1
      BY <2>1 DEF InitPaging
    <3>2. boot \in Index /\ ~Booted
      BY <1>1, <3>1, Sizes DEF TypeOK, Index, Booted
    <3>3. ImagePages = {}
      BY <1>1, <3>2, KernelSpace DEF HalfInv, Booting, ImagePages, Slot
    <3>4. Spaces' = Spaces
      BY <3>1 DEF Spaces
    <3>5. QED
      BY <1>1, <1>3, <3>1, <3>2, <3>3, <3>4, KernelSpace, TableFrames
  <2>2. CASE InitHeap
    <3>1. /\ boot < Tables + HeapPages
          /\ UNCHANGED <<pf_index, phys_heap_end, pde, image, demanded>>
          /\ pf_index' <= pf_index /\ boot >= Tables /\ boot \in Nat /\ boot' >= boot
          /\ boot' \in Nat
      BY <1>1, <2>2, Sizes DEF InitHeap, TypeOK
    <3>2. ~Booted
      BY <1>1, <3>1, Sizes DEF Booted, TypeOK
    <3>3. ImagePages = {}
      BY <1>1, <3>2, KernelSpace DEF HalfInv, Booting, ImagePages, Slot
    <3>4. ImagePages' = {} /\ OwnTables' = OwnTables
      BY <3>1, <3>3 DEF ImagePages, OwnTables, Spaces
    <3>5. \A s \in OwnTables' : s \in OwnTables /\ TableFrame(s)' = TableFrame(s)
      BY <3>1, <3>4 DEF TableFrame
    <3>6. demanded' = {}
      BY <1>1, <3>1, <3>2 DEF HalfInv, Booting
    <3>7. LowMapped'
      <4> DEFINE h == HeapTable + (boot - Tables) \div Pages
      <4>1. h \in 1..(Tables - 1)
        BY <3>1, HeapEntries
      <4>2. "P" \in pde[KernelDir][h].flags
        BY <1>1, <3>1, <4>1, Sizes DEF HalfInv, Booting
      <4>3. <<KernelDir, h>> \in OwnTables
        BY <4>1, <4>2, KernelSpace, Sizes DEF OwnTables, Index
      <4>4. pde[KernelDir][h].frame # Lomem
        BY <1>1, <1>3, <3>1, <4>3, Sizes DEF FramesInv, Tabled, TableFrame, InUse
      <4> HIDE DEF h
      <4>5. pt'[Lomem] = pt[Lomem]
        <5>1. \E k, e : pt' = [pt EXCEPT ![pde[KernelDir][h].frame][k] = e]
          BY <2>2 DEF InitHeap, HeapTableOf, h
        <5>2. QED
          BY <1>1, <4>4, <5>1 DEF TypeOK
      <4>6. QED
        BY <1>1, <1>3, <3>1, <4>5, Sizes DEF FramesInv, LowMapped
    <3>8. QED
      BY <1>1, <1>3, <3>1, <3>4, <3>5, <3>6, <3>7, SameFrames
  <2>3. CASE SysExec
    BY <1>1, <1>3, <2>3, LoadFrames DEF SysExec
  <2>4. CASE PageFault
    BY <1>1, <1>3, <2>4, FaultFrames DEF PageFault
  <2>5. CASE UNCHANGED <<pf_index, pde, pt, image, demanded, boot>> /\ Spaces' = Spaces
    <3>1. OwnTables' = OwnTables /\ ImagePages' = ImagePages /\ InUse' = InUse
      BY <2>5 DEF OwnTables, ImagePages, InUse
    <3>2. \A s : /\ TableFrame(s)' = TableFrame(s) /\ ImageSlot(s)' = ImageSlot(s)
                 /\ DemandFrame(s)' = DemandFrame(s)
      BY <2>5 DEF TableFrame, ImageSlot, DemandFrame
    <3>3. Tabled /\ Imaged /\ Demanded /\ LowMapped
      BY <1>1, <1>3, <2>5 DEF FramesInv
    <3>4. Tabled'
      BY <3>1, <3>2, <3>3 DEF Tabled
    <3>5. Imaged'
      BY <3>1, <3>2, <3>3 DEF Imaged
    <3>6. Demanded' /\ LowMapped'
      BY <2>5, <3>1, <3>2, <3>3 DEF Demanded, LowMapped
    <3>7. QED
      BY <1>1, <3>4, <3>5, <3>6 DEF FramesInv
  <2>6. CASE SysExecFaults
    <3>1. Spaces' = Spaces
      BY <2>6, Sizes DEF SysExecFaults, Spaces
    <3>2. QED
      BY <2>5, <2>6, <3>1 DEF SysExecFaults
  <2>7. CASE UNCHANGED <<phys_heap_end, pf_index, pde, pt, image, demanded, boot>>
    BY <2>5, <2>7 DEF Spaces
  <2>8. QED
    BY <2>1, <2>2, <2>3, <2>4, <2>6, <2>7 DEF Next, SwitchTask, vars
<1>4. QED
  BY <1>2, <1>3

(* For any amount of memory, with a stack of frames sized for it, any      *)
(* programs loaded and any faults: while no more frames have been popped   *)
(* than were pushed, no two page tables, pages of images or pages supplied *)
(* on a fault are the same frame, and none of them is still on the stack.  *)
THEOREM AlwaysExclusive == Spec => []FramesNotShared
BY InitFrames, StepFrames, FramesExclusive, PTL DEF Spec

-----------------------------------------------------------------------------
(***************************************************************************)
(* Images.                                                                 *)
(***************************************************************************)

(* The first frame popped is that of the kernel's first table.  It is also *)
(* the one that a fault on an empty stack clears for its table.            *)
FirstTable ==
  /\ boot = 1 => pf_index = Frames
  /\ boot > 1 /\ pf_index >= 0 => pde[KernelDir][1].frame = Pages

LEMMA StepFirst == HalfInv /\ FirstTable /\ [Next]_vars => FirstTable'
<1> SUFFICES ASSUME HalfInv, FirstTable, [Next]_vars PROVE FirstTable'
  OBVIOUS
<1> USE Sizes
<1>0. /\ pde \in [Slot -> [Index -> Entry]] /\ KernelDir \in Slot /\ 1 \in Index
      /\ boot \in Nat /\ boot >= 1 /\ pf_index \in Int
  BY Places DEF HalfInv, TypeOK, Index
<1>1. CASE InitPaging
  <2>1. /\ boot < Tables /\ boot' = boot + 1 /\ boot \in Index /\ pf_index' = pf_index - 1
        /\ pf_index >= 0
        /\ \E flags : pde' = [pde EXCEPT ![KernelDir][boot] =
                                [frame |-> PfStackRaw(pf_index - 1), flags |-> flags]]
    <3>1. /\ boot < Tables /\ boot' = boot + 1 /\ pf_index' = pf_index - 1
          /\ pf_index >= 0
      BY <1>0, <1>1 DEF InitPaging, create_ptable, Running
    <3>2. pde' = [pde EXCEPT ![KernelDir][boot] =
                    [frame |-> PfStackRaw(pf_index - 1),
                     flags |-> {"P", "RW"} \cup {"P", "US"}
                                 \cup PfStackFlags(pf_index - 1)]]
      BY <1>1, Zenon DEF InitPaging, create_ptable
    <3>3. boot \in Index
      BY <1>0, <3>1 DEF Index
    <3>4. QED
      BY <3>1, <3>2, <3>3
  <2>2. CASE boot = 1
    <3>1. pf_index = Frames /\ pf_index' = Frames - 1
      BY <2>1, <2>2 DEF FirstTable
    <3>2. pf_index' >= 0 => PfStackRaw(pf_index - 1) = Pages
      BY <3>1 DEF PfStackRaw, PfStack
    <3>3. pde'[KernelDir][1].frame = PfStackRaw(pf_index - 1)
      BY <1>0, <2>1, <2>2
    <3>4. QED
      BY <2>1, <2>2, <3>2, <3>3 DEF FirstTable
  <2>3. CASE boot > 1
    <3>1. pde'[KernelDir][1] = pde[KernelDir][1]
      BY <1>0, <2>1, <2>3
    <3>2. QED
      BY <1>0, <2>1, <2>3, <3>1 DEF FirstTable
  <2>4. QED
    BY <1>0, <2>2, <2>3
<1>2. CASE InitHeap
  BY <1>0, <1>2 DEF InitHeap, FirstTable
<1>3. CASE SysExec
  <2>1. PICK n \in 0..MaxImage : LoadProcess(n)
    BY <1>3 DEF SysExec
  <2>2. pde'[KernelDir] = pde[KernelDir]
    <3>1. phys_heap_end # KernelDir
      BY NewDirectory DEF HalfInv, TypeOK
    <3>2. QED
      BY <1>0, <2>1, <3>1 DEF LoadProcess
  <2>3. pf_index' >= 0 => pf_index >= 0
    BY <1>0, <2>1 DEF LoadProcess
  <2>4. boot' = boot /\ boot > 1
    BY <1>0, <1>3 DEF SysExec, Booted
  <2>5. QED
    BY <2>2, <2>3, <2>4 DEF FirstTable
<1>4. CASE PageFault
  <2>1. /\ cr3 # KernelDir /\ boot' = boot /\ boot > 1
        /\ \E i \in Index, j \in Slot : page_fault(i, j)
    BY <1>0, <1>4 DEF PageFault, Booted
  <2>2. pde'[KernelDir] = pde[KernelDir] /\ pf_index' = pf_index - 1
    BY <1>0, <2>1 DEF page_fault, create_ptable
  <2>3. QED
    BY <1>0, <2>1, <2>2 DEF FirstTable
<1>5. CASE UNCHANGED <<pf_index, pde, boot>>
  BY <1>5 DEF FirstTable
<1>6. QED
  BY <1>1, <1>2, <1>3, <1>4, <1>5 DEF Next, SysExecFaults, SwitchTask, vars

LEMMA ImageStep ==
  ASSUME FramesInv, FirstTable, [Next]_vars, NEW s \in ImagePages
  PROVE  /\ pde'[s[1]][Image] = pde[s[1]][Image]
         /\ pt'[pde[s[1]][Image].frame][s[2]] = pt[pde[s[1]][Image].frame][s[2]]
<1>1. CASE UNCHANGED <<pde, pt>>
  BY <1>1
<1>2. CASE Next /\ ~UNCHANGED <<pde, pt>>
  <2>1. /\ TypeOK /\ pf_index \in Int /\ pf_index >= 0 /\ Tabled /\ Imaged
        /\ s[1] \in Slot /\ s[1] \in Spaces /\ s[2] \in Slot
        /\ pde \in [Slot -> [Index -> Entry]]
        /\ pt \in [0..(Pages + Frames - 1) -> [Slot -> Entry]]
    BY <1>2, KernelSpace DEF Next, InitPaging, InitHeap, SysExec, PageFault, SysExecFaults,
       SwitchTask, Running, FramesInv, HalfInv, TypeOK, ImagePages
  <2> DEFINE g == pde[s[1]][Image].frame
  <2>2. /\ <<s[1], Image>> \in OwnTables /\ "P" \in pt[g][s[2]].flags
        /\ "P" \in pde[s[1]][Image].flags
    BY <2>1 DEF Imaged, ImageSlot, OwnTables
  <2>3. g \in InUse
    BY <2>1, <2>2 DEF Tabled, TableFrame
  <2>4. g \in 0..(Pages + Frames - 1) /\ g # Lomem /\ g >= Pages
    BY <2>1, <2>3, InUseFrames, Sizes DEF InUse, Lomem
  <2>5. Booted
    BY <2>1 DEF FramesInv, HalfInv, Booting, ImagePages, Slot
  <2>6. ~InitPaging /\ ~InitHeap
    BY <2>1, <2>5, Sizes DEF Booted, InitPaging, InitHeap, TypeOK
  <2>7. g # Pages
    <3>1. boot > 1 /\ boot > Tables - 1
      BY <2>1, <2>5, Sizes DEF Booted, TypeOK
    <3>2. pde[KernelDir][1].frame = Pages
      BY <2>1, <3>1 DEF FirstTable
    <3>3. "P" \in pde[KernelDir][1].flags
      BY <3>1, Sizes DEF FramesInv, HalfInv, Booting
    <3>4. <<KernelDir, 1>> \in OwnTables
      BY <3>3, KernelSpace, Sizes DEF OwnTables, Index
    <3>5. <<KernelDir, 1>> # <<s[1], Image>>
      BY Sizes DEF Image
    <3>6. QED
      BY <2>1, <2>2, <3>2, <3>4, <3>5 DEF Tabled, TableFrame
  <2> HIDE DEF g
  <2>8. CASE SysExec
    <3>1. PICK n \in 0..MaxImage : LoadProcess(n)
      BY <2>8 DEF SysExec
    <3>2. pde'[s[1]] = pde[s[1]]
      <4>1. phys_heap_end \notin Spaces
        BY <2>1, NewDirectory DEF TypeOK
      <4>2. QED
        BY <2>1, <3>1, <4>1 DEF LoadProcess
    <3>3. PfStackRaw(pf_index - 2) # g
      <4>1. CASE pf_index >= 2
        BY <2>1, <2>3, <4>1, Sizes DEF PfStackRaw, PfStack, InUse
      <4>2. CASE pf_index < 2
        BY <2>1, <2>4, <4>2, Sizes DEF PfStackRaw
      <4>3. QED
        BY <2>1, <4>1, <4>2
    <3>4. pt'[g] = pt[g]
      BY <2>1, <2>4, <3>1, <3>3 DEF LoadProcess
    <3>5. QED
      BY <3>2, <3>4 DEF g
  <2>9. CASE PageFault
    <3>1. PICK i \in Index, j \in Slot : page_fault(i, j)
      BY <2>9 DEF PageFault
    <3>2. CASE /\ "P" \notin pde[cr3][i].flags
               /\ create_ptable(cr3, i, pde[cr3][i].flags \cup {"P"})
      <4>1. pde'[s[1]][Image] = pde[s[1]][Image]
        BY <2>1, <2>2, <3>2, Places DEF create_ptable
      <4>2. PfStack(pf_index - 1) # g
        <5>1. CASE pf_index >= 1
          BY <2>1, <2>3, <5>1, Sizes DEF PfStack, InUse
        <5>2. CASE pf_index = 0
          BY <2>7, <5>2, Sizes DEF PfStack
        <5>3. QED
          BY <2>1, <5>1, <5>2
      <4>3. PICK junk \in Junk : pt' = WithTable(PfStack(pf_index - 1), junk)
        BY <3>2 DEF create_ptable
      <4>4. pt'[g] = pt[g]
        BY <2>1, <2>3, <4>2, <4>3, TableKept
      <4>5. QED
        BY <4>1, <4>4 DEF g
    <3>3. CASE /\ "P" \notin pt[pde[cr3][i].frame][j].flags
               /\ UNCHANGED pde
               /\ \E e : pt' = [pt EXCEPT ![pde[cr3][i].frame][j] = e]
      <4>1. pt'[g][s[2]] = pt[g][s[2]]
        BY <2>1, <2>2, <2>4, <3>3
      <4>2. QED
        BY <3>3, <4>1 DEF g
    <3>4. QED
      BY <3>1, <3>2, <3>3 DEF page_fault
  <2>10. QED
    BY <1>2, <2>6, <2>8, <2>9 DEF Next, SysExecFaults, SwitchTask
<1>3. QED
  BY <1>1, <1>2 DEF vars

(* No load and no fault of any process, not even the one that overdraws    *)
(* the stack of frames, changes where a loaded program's pages are or      *)
(* takes rights to them away.                                              *)
THEOREM ImageAlwaysKept == Spec => ImageKept
<1>1. Init => FramesInv /\ FirstTable
  BY InitFrames DEF Init, FirstTable
<1>2. FramesInv /\ FirstTable /\ [Next]_vars => FramesInv' /\ FirstTable'
  BY StepFrames, StepFirst DEF FramesInv
<1>3. FramesInv /\ FirstTable /\ [Next]_vars =>
        [\A s \in ImagePages :
           LET i == s[1]
               k == s[2]
           IN  /\ pde'[i][Image] = pde[i][Image]
               /\ pt'[pde[i][Image].frame][k] = pt[pde[i][Image].frame][k]]_vars
  BY ImageStep
<1>4. QED
  BY <1>1, <1>2, <1>3, PTL DEF Spec, ImageKept
=============================================================================

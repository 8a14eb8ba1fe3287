-------------------------------- MODULE Heap --------------------------------
(***************************************************************************)
(* The kernel heap of Aquarius (kernel/x86/memory/heap.c): kmalloc and     *)
(* kfree over a list of blocks, each behind its header_t.                  *)
(*                                                                         *)
(* Addresses are offsets from kheap.  A header stays in memory after its   *)
(* block has been merged away, magic and all, until a client writes over   *)
(* it.  A client writes into its own block only, at any time and anything, *)
(* so the model stops once two clients' blocks overlap.  No code of the    *)
(* kernel calls kfree yet: see KernelSpec.                                 *)
(***************************************************************************)
EXTENDS Integers

CONSTANTS
  Clients,   (* holders of blocks                                          *)
  Requests,  (* the sizes they ask for                                     *)
  HeapSize,  (* KHEAP_SIZE                                                 *)
  Hdr,       (* sizeof (header_t)                                          *)
  Wrap       (* 2^32: sizes are u32                                        *)

ASSUME HeapAssumption ==
  /\ Hdr \in Nat \ {0}
  /\ HeapSize \in Nat /\ HeapSize > Hdr
  /\ Wrap \in Nat /\ Wrap > 2 * HeapSize
  /\ Requests \subseteq 1..HeapSize

VARIABLES
  hdr,       (* the headers in memory, by address                          *)
  block,     (* history: what each client was given                        *)
  misled,    (* history: kmalloc met a near fit, or kfree a stale prev     *)
  panicked   (* an assertion failed, which halts                           *)

vars == <<hdr, block, misled, panicked>>

Addr    == 0..(HeapSize - 1)
Null    == -1
Header  == [size : 0..(Wrap - 1), prev : Addr \cup {Null},
            next : Nat \cup {Null}, free : BOOLEAN]
NoBlock == [addr |-> Null, size |-> 0]

Blank == [size |-> 0, prev |-> Null, next |-> Null, free |-> FALSE]

Init ==
  /\ hdr = [a \in Addr |-> IF a = 0
                           THEN [Blank EXCEPT !.size = HeapSize - Hdr, !.free = TRUE]
                           ELSE Blank]
  /\ block = [c \in Clients |-> NoBlock]
  /\ misled = FALSE
  /\ panicked = FALSE

(* The list the loop of kmalloc runs through: the first block, the one     *)
(* behind it, and so on to the end of the list or to where it turns back.  *)
Walk[met \in SUBSET Addr] ==
  LET more == met \cup (Addr \cap {hdr[a].next : a \in met})
  IN  IF more = met THEN met ELSE Walk[more]

Listed == Walk[{0}]

Live == {c \in Clients : block[c] # NoBlock}

Whole(c)   == block[c].addr..(block[c].addr + Hdr + block[c].size - 1)
Payload(c) == (block[c].addr + Hdr)..(block[c].addr + Hdr + block[c].size - 1)

(* The list stays in the heap, and no client can write outside the heap,   *)
(* into another's block or over a header of the list.                      *)
Disjoint ==
  /\ \A a \in Listed : hdr[a].next \in Addr \cup {Null}
  /\ \A c \in Live :
       /\ Whole(c) \subseteq Addr
       /\ \A d \in Live \ {c} : Whole(c) \cap Whole(d) = {}
       /\ \A a \in Listed : (a..(a + Hdr - 1)) \cap Payload(c) = {}

Running == Disjoint /\ ~panicked

-----------------------------------------------------------------------------
(* The first of the smallest suitable holes.                               *)
Suitable(size) == {a \in Listed : hdr[a].free /\ hdr[a].size >= size}

smallest_hole(size) ==
  CHOOSE a \in Suitable(size) :
    \A b \in Suitable(size) : \/ hdr[a].size < hdr[b].size
                              \/ hdr[a].size = hdr[b].size /\ a <= b

(* Mutated: sizes are signed, and a header is room enough.                 *)
DividedSigned(hole, size) ==
  LET rest     == hdr[hole].size - size
      new_hole == hole + Hdr + size
  IN  IF rest >= Hdr
      THEN [hdr EXCEPT ![new_hole] = [size |-> rest - Hdr - Hdr, prev |-> hole,
                                      next |-> hdr[hole].next, free |-> TRUE],
                       ![hole].size = size, ![hole].next = new_hole,
                       ![hole].free = FALSE]
      ELSE hdr

(* Mutated: the list ends at the new hole.                                 *)
DividedLast(hole, size) ==
  LET new_hole == hole + Hdr + size
  IN  [hdr EXCEPT ![new_hole] = [size |-> hdr[hole].size - size - 2 * Hdr,
                                 prev |-> hole, next |-> Null, free |-> TRUE],
                  ![hole].size = size, ![hole].next = new_hole,
                  ![hole].free = FALSE]

(* The hole is marked as taken only when it is divided.                    *)
Divided(hole, size) ==
  LET rest     == hdr[hole].size - size
      new_hole == hole + Hdr + size
  IN  IF rest > Hdr
      THEN [hdr EXCEPT ![new_hole] = [size |-> (rest - Hdr - Hdr) % Wrap,
                                      prev |-> hole,
                                      next |-> hdr[hole].next,
                                      free |-> TRUE],
                       ![hole].size = size, ![hole].next = new_hole,
                       ![hole].free = FALSE]
      ELSE hdr

kmalloc(c, size) ==
  LET hole == smallest_hole(size)
  IN
  /\ Running /\ block[c] = NoBlock
  /\ Suitable(size) # {}
  /\ hdr' = Divided(hole, size)
  /\ block' = [block EXCEPT ![c] = [addr |-> hole, size |-> size]]
  /\ misled' = (misled \/ hdr[hole].size - size < 2 * Hdr)
  /\ UNCHANGED panicked

-----------------------------------------------------------------------------
Freed(b) == [hdr EXCEPT ![b].free = TRUE]

(* The left neighbour, as prev names it, swallows the block.               *)
MergedLeft(h, b) ==
  LET left == h[b].prev
  IN  [h EXCEPT ![left].next = h[b].next,
                ![left].size = (h[left].size + h[b].size + Hdr) % Wrap]

MergedRight(h, b) ==
  LET right == h[b].next
  IN  IF right # Null /\ h[right].free
      THEN [h EXCEPT ![b].next = h[right].next,
                     ![b].size = (h[b].size + h[right].size + Hdr) % Wrap]
      ELSE h

(* Mutated: one neighbour is enough.                                       *)
MergedOnce(b) ==
  LET h    == Freed(b)
      left == h[b].prev
  IN  IF left # Null /\ h[left].free THEN MergedLeft(h, b) ELSE MergedRight(h, b)

Merged(b) ==
  LET h    == Freed(b)
      left == h[b].prev
  IN  IF left # Null /\ h[left].free
      THEN MergedRight(MergedLeft(h, b), left)
      ELSE MergedRight(h, b)

(* prev is set when a block is made and never again.                       *)
Stale(b) ==
  IF hdr[b].prev = Null THEN b # 0
  ELSE hdr[b].prev \notin Listed \/ hdr[hdr[b].prev].next # b

(* A client may have written over the header that prev leads to.           *)
Overwritten(a) == \E c \in Live : (a..(a + Hdr - 1)) \cap Payload(c) # {}

kfree(c) ==
  LET b == block[c].addr
  IN
  /\ Running /\ c \in Live
  /\ \/ /\ hdr' = Merged(b)
        /\ block' = [block EXCEPT ![c] = NoBlock]
        /\ misled' = (misled \/ Stale(b))
        /\ UNCHANGED panicked
     \/ /\ hdr[b].prev # Null /\ Overwritten(hdr[b].prev)
        /\ panicked' = TRUE
        /\ UNCHANGED <<hdr, block, misled>>

-----------------------------------------------------------------------------
Kmalloc == \E c \in Clients, size \in Requests : kmalloc(c, size)
Kfree   == \E c \in Clients : kfree(c)

Next == Kmalloc \/ Kfree

Spec == Init /\ [][Next]_vars

(* What the kernel itself does: tasks and nodes are allocated for ever.    *)
KernelSpec == Init /\ [][Kmalloc]_vars

-----------------------------------------------------------------------------
TypeOK ==
  /\ hdr \in [Addr -> Header]
  /\ block \in [Clients -> [addr : Addr \cup {Null}, size : Nat]]
  /\ misled \in BOOLEAN
  /\ panicked \in BOOLEAN

(* The blocks of the list lie in the heap one behind the other.            *)
Ascending ==
  \A a \in Listed :
    a + Hdr + hdr[a].size <= IF hdr[a].next = Null THEN HeapSize ELSE hdr[a].next

(* As long as kmalloc has met no near fit and kfree no stale prev, no byte *)
(* is used twice, and the blocks in clients' hands are exactly those not   *)
(* marked as free.                                                         *)
SoundUntilMisled ==
  ~misled =>
    /\ Ascending
    /\ Disjoint
    /\ {block[c].addr : c \in Live} = {a \in Listed : ~hdr[a].free}

(* Till then kfree also leaves no two holes side by side, so that kmalloc  *)
(* fails only when no stretch of free memory is long enough.               *)
Coalesced ==
  ~misled =>
    \A a \in Listed : hdr[a].free /\ hdr[a].next # Null => ~hdr[hdr[a].next].free

-----------------------------------------------------------------------------
(***************************************************************************)
(* What a comment of heap.c says and the code does not keep.               *)
(***************************************************************************)

(* kmalloc looks for a hole, "the smallest suitable" (heap.c:57): it gives *)
(* nobody a block that somebody has.                                       *)
GivenOnce ==
  \A c, d \in Live : block[c].addr = block[d].addr => c = d
=============================================================================

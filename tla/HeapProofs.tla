----------------------------- MODULE HeapProofs -----------------------------
(***************************************************************************)
(* What holds of Heap for every heap size, every number of clients and all *)
(* the sizes they ask for.  Listed, which Heap computes block by block, is *)
(* shown to be the smallest set of addresses that contains the first block *)
(* and is closed under next; what kmalloc and kfree do to the list is then *)
(* argued about that set.                                                  *)
(***************************************************************************)
EXTENDS Heap, FiniteSetTheorems, WellFoundedInduction, TLAPS

(* The blocks reached from those of S by the headers h.                    *)
Follows(S, h) == S \cup (Addr \cap {h[a].next : a \in S})

ClosedIn(S, h) == \A a \in S : h[a].next \in Addr => h[a].next \in S

From(M, h) == {a \in Addr : \A S \in SUBSET Addr : M \subseteq S /\ ClosedIn(S, h) => a \in S}

Chain(h) == From({0}, h)

(* The equation that defines Walk.                                         *)
Walking(w) ==
  [met \in SUBSET Addr |->
     IF Follows(met, hdr) = met THEN met ELSE w[Follows(met, hdr)]]

LEMMA WalkDef == Walk = CHOOSE w : w = Walking(w)
BY DEF Walk, Walking, Follows

(* It has a solution, that needs no recursion.                             *)
LEMMA WalkExists ==
  LET w == [met \in SUBSET Addr |-> From(met, hdr)] IN w = Walking(w)
<1> DEFINE w == [met \in SUBSET Addr |-> From(met, hdr)]
<1> SUFFICES ASSUME NEW met \in SUBSET Addr
             PROVE  From(met, hdr) = IF Follows(met, hdr) = met THEN met
                                     ELSE w[Follows(met, hdr)]
  BY DEF Walking
<1>1. Follows(met, hdr) \in SUBSET Addr
  BY DEF Follows
<1>2. CASE Follows(met, hdr) = met
  <2>1. ClosedIn(met, hdr)
    BY <1>2 DEF Follows, ClosedIn
  <2> QED BY <1>2, <2>1, Zenon DEF From
<1>3. CASE Follows(met, hdr) # met
  <2>1. \A S \in SUBSET Addr :
          ClosedIn(S, hdr) => (met \subseteq S <=> Follows(met, hdr) \subseteq S)
    BY DEF ClosedIn, Follows
  <2>2. From(met, hdr) = From(Follows(met, hdr), hdr)
    BY <2>1 DEF From
  <2> QED BY <1>1, <1>3, <2>2
<1> QED BY <1>2, <1>3

(* And no other: two solutions would differ first at a set that leaves out *)
(* fewest addresses, but there they would differ one step later, too.      *)
LEMMA WalkUnique ==
  ASSUME NEW v, NEW w, v = Walking(v), w = Walking(w)
  PROVE  v = w
<1> DEFINE R == StrictSubsetOrdering(Addr)
           F == FiniteSubsetsOf(Addr)
           D == {met \in SUBSET Addr : v[met] # w[met]}
           U == {Addr \ met : met \in D}
<1>1. \A met \in SUBSET Addr :
        /\ v[met] = IF Follows(met, hdr) = met THEN met ELSE v[Follows(met, hdr)]
        /\ w[met] = IF Follows(met, hdr) = met THEN met ELSE w[Follows(met, hdr)]
  BY DEF Walking
<1>2. D = {}
  <2> SUFFICES ASSUME D # {} PROVE FALSE
    OBVIOUS
  <2>1. IsWellFoundedOn(R, F)
    BY FS_StrictSubsetOrderingWellFounded
  <2>2. \A S \in SUBSET Addr : S \in F
    <3>1. IsFiniteSet(Addr)
      BY HeapAssumption, FS_Interval DEF Addr
    <3> QED BY <3>1, FS_Subset DEF FiniteSubsetsOf
  <2>3. U \subseteq F /\ U # {}
    BY <2>2
  <2>4. \A A, B \in SUBSET Addr : A \subseteq B /\ A # B => <<A, B>> \in R
    BY DEF StrictSubsetOrdering
  <2> HIDE DEF R, F
  <2>5. PICK A \in U : \A B \in U : ~ (<<B, A>> \in R)
    BY <2>1, <2>3, WFMin
  <2>6. PICK met \in D : A = Addr \ met
    BY <2>5
  <2> DEFINE more == Follows(met, hdr)
  <2>7. more # met /\ met \subseteq more /\ more \in SUBSET Addr
    BY <1>1, <2>6 DEF Follows
  <2>8. more \in D
    BY <1>1, <2>6, <2>7
  <2> HIDE DEF more
  <2>9. <<Addr \ more, Addr \ met>> \in R
    BY <2>4, <2>6, <2>7
  <2> QED BY <2>5, <2>6, <2>8, <2>9
<1> QED BY <1>2 DEF Walking

LEMMA ListedIsChain == Listed = Chain(hdr)
<1> DEFINE w == [met \in SUBSET Addr |-> From(met, hdr)]
<1>1. w = Walking(w)
  BY WalkExists
<1> HIDE DEF w
<1>2. Walk = Walking(Walk)
  BY <1>1, WalkDef
<1>3. Walk = w
  BY <1>1, <1>2, WalkUnique
<1>4. {0} \in SUBSET Addr
  BY HeapAssumption DEF Addr
<1> QED BY <1>3, <1>4 DEF Listed, Chain, w

-----------------------------------------------------------------------------
(***************************************************************************)
(* Lists whose blocks lie one behind the other.                            *)
(***************************************************************************)
End(h, a) == IF h[a].next = Null THEN HeapSize ELSE h[a].next

Tiled(h) ==
  \A a \in Chain(h) : /\ h[a].next \in Addr \cup {Null}
                      /\ a + Hdr + h[a].size <= End(h, a)

LEMMA Sizes ==
  /\ Hdr \in Nat /\ Hdr > 0 /\ HeapSize \in Nat /\ HeapSize > Hdr
  /\ Wrap \in Nat /\ Wrap > 2 * HeapSize
  /\ Addr = 0..HeapSize - 1 /\ 0 \in Addr /\ Null \notin Addr
  /\ \A s \in Requests : s \in Nat /\ s > 0 /\ s <= HeapSize
BY HeapAssumption DEF Addr, Null

LEMMA ChainLeast ==
  ASSUME NEW h
  PROVE  /\ 0 \in Chain(h) /\ Chain(h) \subseteq Addr
         /\ ClosedIn(Chain(h), h)
         /\ \A S \in SUBSET Addr : 0 \in S /\ ClosedIn(S, h) => Chain(h) \subseteq S
<1>1. 0 \in Chain(h) /\ Chain(h) \subseteq Addr
  BY Sizes, Zenon DEF Chain, From
<1>2. \A S \in SUBSET Addr : 0 \in S /\ ClosedIn(S, h) => Chain(h) \subseteq S
  BY DEF Chain, From
<1>3. ClosedIn(Chain(h), h)
  <2> SUFFICES ASSUME NEW a \in Chain(h), h[a].next \in Addr
               PROVE  h[a].next \in Chain(h)
    BY DEF ClosedIn
  <2>1. ASSUME NEW S \in SUBSET Addr, {0} \subseteq S, ClosedIn(S, h)
        PROVE  h[a].next \in S
    BY <1>2, <2>1 DEF ClosedIn
  <2> QED BY <2>1, Zenon DEF Chain, From
<1> QED BY <1>1, <1>2, <1>3

(* The successor of a listed block lies behind it and is listed, if there  *)
(* is one.                                                                 *)
LEMMA ChainStep ==
  ASSUME NEW h \in [Addr -> Header], Tiled(h), NEW a \in Chain(h)
  PROVE  /\ a \in Addr /\ a \in Nat /\ h[a].size \in Nat
         /\ a + Hdr + h[a].size <= HeapSize
         /\ h[a].next # Null =>
              /\ h[a].next \in Chain(h) /\ h[a].next \in Nat
              /\ a + Hdr + h[a].size <= h[a].next
              /\ a < h[a].next
<1>1. /\ a \in Addr /\ a \in Nat
      /\ h[a].next \in Addr \cup {Null}
      /\ a + Hdr + h[a].size <= End(h, a)
  BY ChainLeast, Sizes DEF Tiled
<1>2. h[a].size \in Nat
  BY <1>1 DEF Header
<1>3. h[a].next # Null => h[a].next \in Chain(h)
  BY <1>1, ChainLeast DEF ClosedIn
<1> QED BY <1>1, <1>2, <1>3, Sizes DEF End

(* No listed block lies between another one and its successor.             *)
LEMMA ChainOrdered ==
  ASSUME NEW h \in [Addr -> Header], Tiled(h)
  PROVE  \A a, b \in Chain(h) : b < a => h[b].next # Null /\ h[b].next <= a
<1> DEFINE C == Chain(h)
           Passes(a) == \A b \in C : b < a => h[b].next # Null /\ h[b].next <= a
           S == {a \in C : Passes(a)}
<1>1. C \subseteq Addr /\ 0 \in C /\ \A a \in C : a \in Nat
  BY ChainLeast, Sizes
<1>2. \A a \in C : h[a].next # Null =>
        h[a].next \in C /\ h[a].next \in Nat /\ a < h[a].next
  BY ChainStep
<1>3. 0 \in S
  BY <1>1
<1>4. ClosedIn(S, h)
  <2> SUFFICES ASSUME NEW a \in S, h[a].next \in Addr
               PROVE  h[a].next \in S
    BY DEF ClosedIn
  <2> DEFINE n == h[a].next
  <2>1. a \in C /\ Passes(a) /\ n \in C /\ n \in Nat /\ a < n /\ a \in Nat
    BY <1>1, <1>2, Sizes
  <2>2. C \subseteq {b \in C : b <= a \/ b >= n}
    <3> DEFINE Q == {b \in C : b <= a \/ b >= n}
    <3>1. ClosedIn(Q, h)
      <4> SUFFICES ASSUME NEW b \in Q, h[b].next \in Addr PROVE h[b].next \in Q
        BY DEF ClosedIn
      <4>1. b \in C /\ h[b].next \in C /\ b < h[b].next /\ b \in Nat /\ h[b].next \in Nat
        BY <1>1, <1>2, Sizes
      <4>2. CASE b < a
        BY <2>1, <4>1, <4>2
      <4>3. CASE b = a
        BY <2>1, <4>3
      <4>4. CASE b >= n
        BY <2>1, <4>1, <4>4
      <4> QED BY <2>1, <4>1, <4>2, <4>3, <4>4
    <3>2. 0 \in Q /\ Q \in SUBSET Addr
      BY <1>1, <2>1
    <3> QED BY <3>1, <3>2, ChainLeast
  <2>3. ASSUME NEW b \in C, b < n PROVE h[b].next # Null /\ h[b].next <= n
    <3>1. b \in Nat /\ (b < a \/ b = a)
      BY <1>1, <2>1, <2>2, <2>3
    <3>2. CASE b < a
      <4>1. h[b].next # Null /\ h[b].next <= a
        BY <2>1, <3>2
      <4>2. h[b].next \in Nat
        BY <1>2, <4>1
      <4> QED BY <2>1, <4>1, <4>2
    <3>3. CASE b = a
      BY <2>1, <3>3, Sizes
    <3> QED BY <3>1, <3>2, <3>3
  <2> QED BY <2>1, <2>3
<1>5. C \subseteq S
  BY <1>1, <1>3, <1>4, ChainLeast
<1> QED BY <1>5

(* What kfree does with a block and the hole before or behind it: p takes  *)
(* its successor in.                                                       *)
Joined(h, p) ==
  LET m == h[p].next
  IN  [h EXCEPT ![p].next = h[m].next,
                ![p].size = (h[p].size + h[m].size + Hdr) % Wrap]

LEMMA ChainJoin ==
  ASSUME NEW h \in [Addr -> Header], Tiled(h), NEW p \in Chain(h), h[p].next # Null
  PROVE  LET m == h[p].next
             g == Joined(h, p)
         IN  /\ g \in [Addr -> Header]
             /\ m \in Chain(h) /\ m # p
             /\ \A a \in Addr \ {p} : g[a] = h[a]
             /\ g[p].free = h[p].free /\ g[p].prev = h[p].prev
             /\ g[p].next = h[m].next
             /\ Chain(g) = Chain(h) \ {m}
             /\ Tiled(g)
<1> DEFINE m == h[p].next
           C == Chain(h)
           s == h[p].size + h[m].size + Hdr
<1>1. /\ p \in Addr /\ p \in Nat /\ h[p].size \in Nat
      /\ m \in C /\ m \in Nat /\ p + Hdr + h[p].size <= m /\ p < m
      /\ m \in Addr /\ h[m].size \in Nat /\ m + Hdr + h[m].size <= HeapSize
      /\ h[m].next # Null =>
           /\ h[m].next \in C /\ h[m].next \in Nat
           /\ m + Hdr + h[m].size <= h[m].next /\ m < h[m].next
  BY ChainStep
<1>2. s \in Nat /\ p + Hdr + s <= m + Hdr + h[m].size /\ s < Wrap
  <2> HIDE DEF m
  <2> QED BY <1>1, Sizes
<1>3. s % Wrap = s
  <2> HIDE DEF s
  <2> QED BY <1>2, Sizes
<1>4. PICK g : g = Joined(h, p)
  OBVIOUS
<1>5. g = [h EXCEPT ![p].next = h[m].next, ![p].size = s]
  <2>1. g = [h EXCEPT ![p].next = h[m].next, ![p].size = s % Wrap]
    BY <1>4 DEF Joined
  <2> HIDE DEF s
  <2> QED BY <1>3, <2>1
<1>6. h[p] \in Header /\ h[m].next \in Nat \cup {Null} /\ s \in 0..Wrap - 1
  BY <1>1, <1>2, Sizes DEF Header
<1> HIDE DEF s
<1>7. /\ g \in [Addr -> Header]
      /\ \A a \in Addr \ {p} : g[a] = h[a]
      /\ g[p].free = h[p].free /\ g[p].prev = h[p].prev
      /\ g[p].next = h[m].next /\ g[p].size = s
  <2> DEFINE r == [h[p] EXCEPT !.next = h[m].next, !.size = s]
  <2>1. /\ r \in Header /\ r.free = h[p].free /\ r.prev = h[p].prev
        /\ r.next = h[m].next /\ r.size = s
    BY <1>6 DEF Header
  <2>2. g = [h EXCEPT ![p] = r]
    BY <1>5
  <2> HIDE DEF r
  <2> QED BY <1>1, <2>1, <2>2
<1>8. C \subseteq Addr /\ 0 \in C /\ m # 0 /\ \A a \in C : a \in Nat
  BY <1>1, ChainLeast, Sizes
<1>9. Chain(g) \subseteq C \ {m}
  <2>1. \A a \in C \ {p} : h[a].next # m
    <3> SUFFICES ASSUME NEW a \in C, a # p, h[a].next = m PROVE FALSE
      OBVIOUS
    <3>1. a \in Nat /\ a < m
      BY <1>8, ChainStep, <1>1
    <3>2. CASE a < p
      <4>1. h[a].next <= p
        BY <3>2, ChainOrdered
      <4> QED BY <4>1, <1>1
    <3>3. CASE p < a
      <4>1. m <= a
        BY <3>3, ChainOrdered
      <4> QED BY <4>1, <3>1, <1>1
    <3> QED BY <3>1, <3>2, <3>3, <1>1
  <2>2. ClosedIn(C \ {m}, g)
    <3> SUFFICES ASSUME NEW a \in C \ {m}, g[a].next \in Addr
                 PROVE  g[a].next \in C \ {m}
      BY DEF ClosedIn
    <3>1. CASE a = p
      BY <3>1, <1>1, <1>7, Sizes
    <3>2. CASE a # p
      <4>1. g[a] = h[a]
        BY <3>2, <1>7, <1>8
      <4> QED BY <3>2, <4>1, <2>1, ChainLeast DEF ClosedIn
    <3> QED BY <3>1, <3>2
  <2> QED BY <2>2, <1>8, ChainLeast
<1>10. C \subseteq Chain(g) \cup {m}
  <2> DEFINE S == Chain(g)
  <2>1. S \subseteq Addr /\ 0 \in S /\ ClosedIn(S, g) /\ m \notin S
    BY <1>9, ChainLeast
  <2>2. p \in S
    <3> SUFFICES ASSUME p \notin S PROVE FALSE
      OBVIOUS
    <3>1. ClosedIn(S, h)
      BY <2>1, <1>7 DEF ClosedIn
    <3> QED BY <3>1, <2>1, ChainLeast
  <2>3. ClosedIn(S \cup {m}, h)
    <3> SUFFICES ASSUME NEW a \in S \cup {m}, h[a].next \in Addr
                 PROVE  h[a].next \in S \cup {m}
      BY DEF ClosedIn
    <3>1. CASE a = m
      BY <3>1, <2>1, <2>2, <1>7 DEF ClosedIn
    <3>2. CASE a = p
      BY <3>2
    <3>3. CASE a \in S \ {p}
      BY <3>3, <2>1, <1>7 DEF ClosedIn
    <3> QED BY <3>1, <3>2, <3>3
  <2> QED BY <2>1, <2>3, <1>1, ChainLeast
<1>11. Chain(g) = C \ {m}
  BY <1>9, <1>10
<1>12. Tiled(g)
  <2> SUFFICES ASSUME NEW a \in C, a # m
               PROVE  /\ g[a].next \in Addr \cup {Null}
                      /\ a + Hdr + g[a].size <= End(g, a)
    BY <1>11 DEF Tiled
  <2>1. CASE a = p
    BY <2>1, <1>1, <1>2, <1>7, <1>8, Sizes DEF End, s
  <2>2. CASE a # p
    BY <2>2, <1>7, <1>8 DEF Tiled, End
  <2> QED BY <2>1, <2>2
<1> QED BY <1>1, <1>4, <1>7, <1>11, <1>12

(* What kmalloc does with a hole in which there is room for two headers    *)
(* more than asked for: a new hole follows it.                             *)
LEMMA ChainSplit ==
  ASSUME hdr \in [Addr -> Header], Tiled(hdr), NEW hole \in Chain(hdr),
         NEW size \in Requests, hdr[hole].size - size >= 2 * Hdr
  PROVE  LET n == hole + Hdr + size
             g == Divided(hole, size)
         IN  /\ g \in [Addr -> Header]
             /\ n \in Addr /\ n \notin Chain(hdr)
             /\ \A a \in Addr \ {hole, n} : g[a] = hdr[a]
             /\ g[hole].next = n /\ g[hole].size = size /\ ~g[hole].free
             /\ g[n].next = hdr[hole].next /\ g[n].free
             /\ Chain(g) = Chain(hdr) \cup {n}
             /\ Tiled(g)
<1> DEFINE n == hole + Hdr + size
           C == Chain(hdr)
           rest == hdr[hole].size - size
           left == rest - Hdr - Hdr
           new == [size |-> left, prev |-> hole, next |-> hdr[hole].next, free |-> TRUE]
           old == [hdr[hole] EXCEPT !.size = size, !.next = n, !.free = FALSE]
<1>1. /\ hole \in Addr /\ hole \in Nat /\ hdr[hole].size \in Nat
      /\ hole + Hdr + hdr[hole].size <= HeapSize
      /\ size \in Nat /\ size > 0 /\ size < Wrap
      /\ hdr[hole].next # Null =>
           /\ hdr[hole].next \in C /\ hdr[hole].next \in Nat
           /\ hole + Hdr + hdr[hole].size <= hdr[hole].next
  BY ChainStep, Sizes
<1>2. /\ n \in Nat /\ hole < n /\ n < hole + Hdr + hdr[hole].size /\ n < HeapSize
      /\ left \in Nat /\ left < Wrap
      /\ n + Hdr + left <= hole + Hdr + hdr[hole].size
      /\ rest > Hdr
  BY <1>1, Sizes
<1>3. left % Wrap = left
  <2> HIDE DEF left
  <2> QED BY <1>2, Sizes
<1>4. n \in Addr /\ n # hole /\ n \notin C
  <2>1. n \in Addr /\ n # hole
    BY <1>1, <1>2, Sizes
  <2>2. ASSUME n \in C PROVE FALSE
    <3>1. hdr[hole].next # Null /\ hdr[hole].next <= n
      BY <1>2, <2>2, ChainOrdered
    <3> HIDE DEF n
    <3> QED BY <3>1, <1>1, <1>2, Sizes
  <2> QED BY <2>1, <2>2
<1>5. PICK g : g = Divided(hole, size)
  OBVIOUS
<1>6. g = [hdr EXCEPT ![n] = new, ![hole] = old]
  <2>1. g = [hdr EXCEPT ![n] = [size |-> left % Wrap, prev |-> hole,
                                next |-> hdr[hole].next, free |-> TRUE],
                        ![hole].size = size, ![hole].next = n, ![hole].free = FALSE]
    BY <1>2, <1>5 DEF Divided
  <2>2. hole # n
    BY <1>4
  <2> HIDE DEF n, left
  <2> QED BY <1>3, <2>1, <2>2
<1>7. /\ new \in Header /\ old \in Header
      /\ old.next = n /\ old.size = size /\ old.free = FALSE
      /\ new.next = hdr[hole].next /\ new.free = TRUE /\ new.size = left
  <2>1. hdr[hole] \in Header /\ hdr[hole].next \in Nat \cup {Null}
    BY <1>1 DEF Header
  <2>2. left \in 0..Wrap - 1 /\ size \in 0..Wrap - 1
    <3> HIDE DEF left
    <3> QED BY <1>1, <1>2, Sizes
  <2>3. n \in Nat
    BY <1>2
  <2> HIDE DEF left, n
  <2> QED BY <1>1, <2>1, <2>2, <2>3 DEF Header
<1> HIDE DEF n, new, old
<1>8. /\ g \in [Addr -> Header]
      /\ \A a \in Addr \ {hole, n} : g[a] = hdr[a]
      /\ g[hole] = old /\ g[n] = new
  BY <1>1, <1>4, <1>6, <1>7
<1>9. C \subseteq Addr /\ 0 \in C /\ ClosedIn(C, hdr)
  BY ChainLeast
<1>10. Chain(g) \subseteq C \cup {n}
  <2>1. ClosedIn(C \cup {n}, g)
    <3> SUFFICES ASSUME NEW a \in C \cup {n}, g[a].next \in Addr
                 PROVE  g[a].next \in C \cup {n}
      BY DEF ClosedIn
    <3>1. CASE a = hole
      BY <3>1, <1>7, <1>8
    <3>2. CASE a = n
      BY <3>2, <1>7, <1>8, <1>9 DEF ClosedIn
    <3>3. CASE a \in C \ {hole, n}
      BY <3>3, <1>8, <1>9 DEF ClosedIn
    <3> QED BY <3>1, <3>2, <3>3
  <2> QED BY <2>1, <1>4, <1>9, ChainLeast
<1>11. C \subseteq Chain(g)
  <2> DEFINE S == Chain(g) \cap C
  <2>1. 0 \in S /\ S \in SUBSET Addr /\ ClosedIn(Chain(g), g)
    BY <1>9, ChainLeast
  <2>2. ClosedIn(S, hdr)
    <3> SUFFICES ASSUME NEW a \in S, hdr[a].next \in Addr
                 PROVE  hdr[a].next \in S
      BY DEF ClosedIn
    <3>1. hdr[a].next \in C /\ a # n
      BY <1>4, <1>9 DEF ClosedIn
    <3>2. CASE a = hole
      <4>1. n \in Chain(g)
        BY <3>2, <2>1, <1>4, <1>7, <1>8 DEF ClosedIn
      <4>2. g[n].next = hdr[a].next
        BY <3>2, <1>7, <1>8
      <4> QED BY <4>1, <4>2, <3>1, <2>1 DEF ClosedIn
    <3>3. CASE a # hole
      BY <3>1, <3>3, <2>1, <1>8, <1>9 DEF ClosedIn
    <3> QED BY <3>2, <3>3
  <2> QED BY <2>1, <2>2, ChainLeast
<1>12. Chain(g) = C \cup {n}
  <2>1. n \in Chain(g)
    BY <1>4, <1>7, <1>8, <1>11, ChainLeast DEF ClosedIn
  <2> QED BY <2>1, <1>10, <1>11
<1>13. Tiled(g)
  <2> SUFFICES ASSUME NEW a \in C \cup {n}
               PROVE  /\ g[a].next \in Addr \cup {Null}
                      /\ a + Hdr + g[a].size <= End(g, a)
    BY <1>12 DEF Tiled
  <2>1. CASE a = hole
    <3>1. g[a].next = n /\ g[a].size = size /\ n # Null
      BY <2>1, <1>2, <1>7, <1>8, <1>4, Sizes
    <3>2. hole + Hdr + size <= n
      BY <1>2 DEF n
    <3> QED BY <2>1, <3>1, <3>2, <1>4 DEF End
  <2>2. CASE a = n
    <3>1. g[a].next = hdr[hole].next /\ g[a].size = left
      BY <2>2, <1>7, <1>8
    <3>2. hdr[hole].next \in Addr \cup {Null}
      BY DEF Tiled
    <3>3. n + Hdr + left <= End(hdr, hole)
      <4>1. hole + Hdr + hdr[hole].size <= End(hdr, hole) /\ End(hdr, hole) \in Nat
        BY <1>1, Sizes DEF End
      <4> HIDE DEF left
      <4> QED BY <4>1, <1>1, <1>2, Sizes
    <3> QED BY <2>2, <3>1, <3>2, <3>3 DEF End
  <2>3. CASE a \in C \ {hole, n}
    BY <2>3, <1>8, <1>9 DEF Tiled, End
  <2> QED BY <2>1, <2>2, <2>3
<1> QED BY <1>4, <1>5, <1>7, <1>8, <1>12, <1>13 DEF n

-----------------------------------------------------------------------------
(***************************************************************************)
(* The hole that kmalloc chooses exists: it is the one with the least      *)
(* address among those of the least size.                                  *)
(***************************************************************************)
(* Every set of numbers has a least one, since the order of the numbers is *)
(* well-founded.                                                           *)
LEMMA LeastNumber ==
  ASSUME NEW N \in SUBSET Nat, N # {}
  PROVE  \E k \in N : \A l \in N : k <= l
<1> DEFINE Below == OpToRel(<, Nat)
<1>1. IsWellFoundedOn(Below, Nat)
  BY NatLessThanWellFounded
<1>2. \A l, k \in Nat : l < k => <<l, k>> \in Below
  BY DEF OpToRel
<1> HIDE DEF Below
<1>3. PICK k \in N : \A l \in N : ~ (<<l, k>> \in Below)
  BY <1>1, WFMin
<1>4. \A l \in N : k <= l
  <2> SUFFICES ASSUME NEW l \in N PROVE k <= l
    OBVIOUS
  <2>1. k \in Nat /\ l \in Nat /\ ~ (l < k)
    BY <1>2, <1>3
  <2> QED BY <2>1
<1> QED BY <1>4, Zenon

LEMMA SmallestHole ==
  ASSUME hdr \in [Addr -> Header], NEW size, Suitable(size) # {}
  PROVE  smallest_hole(size) \in Suitable(size)
<1> DEFINE A == Suitable(size)
           T == {hdr[a].size : a \in A}
<1>1. A \subseteq Addr /\ \A a \in A : a \in Nat /\ hdr[a].size \in Nat
  BY ListedIsChain, ChainLeast, Sizes DEF Suitable, Header
<1> HIDE DEF A
<1>2. PICK s \in T : \A t \in T : s <= t
  <2>1. T \in SUBSET Nat /\ T # {}
    BY <1>1 DEF A
  <2> QED BY <2>1, LeastNumber
<1>3. PICK a \in A : /\ hdr[a].size = s
                      /\ \A b \in A : hdr[b].size = s => a <= b
  <2> DEFINE B == {b \in A : hdr[b].size = s}
  <2>1. B \in SUBSET Nat /\ B # {}
    BY <1>1
  <2> QED BY <2>1, LeastNumber
<1>4. \A b \in A : \/ hdr[a].size < hdr[b].size
                   \/ hdr[a].size = hdr[b].size /\ a <= b
  <2> SUFFICES ASSUME NEW b \in A
               PROVE  \/ hdr[a].size < hdr[b].size
                      \/ hdr[a].size = hdr[b].size /\ a <= b
    OBVIOUS
  <2>1. hdr[a].size <= hdr[b].size /\ hdr[a].size \in Nat /\ hdr[b].size \in Nat
    BY <1>1, <1>2, <1>3
  <2> QED BY <2>1, <1>3
<1>5. smallest_hole(size) =
        CHOOSE x \in A : \A b \in A : \/ hdr[x].size < hdr[b].size
                                      \/ hdr[x].size = hdr[b].size /\ x <= b
  BY DEF smallest_hole, A
<1> QED BY <1>4, <1>5 DEF A

-----------------------------------------------------------------------------
(***************************************************************************)
(* The inductive invariant.  Links stay in the heap as long as the model   *)
(* goes on; and as long as kmalloc and kfree have not been misled the list *)
(* is in order: its blocks lie one behind the other, no two holes          *)
(* are neighbours, and the blocks that are no holes are the clients', each *)
(* of the size its client asked for.                                       *)
(***************************************************************************)
Linked(h) == \A a \in Addr : h[a].next \in Addr \cup {Null}

Separate(h) ==
  \A a \in Chain(h) : h[a].free /\ h[a].next # Null => ~h[h[a].next].free

Held ==
  /\ \A c \in Live : LET a == block[c].addr
                      IN  a \in Chain(hdr) /\ ~hdr[a].free /\ block[c].size = hdr[a].size
  /\ \A c, d \in Live : block[c].addr = block[d].addr => c = d
  /\ \A a \in Chain(hdr) : ~hdr[a].free => \E c \in Live : block[c].addr = a

Orderly == Tiled(hdr) /\ Separate(hdr) /\ Held

HeapInv ==
  /\ TypeOK
  /\ Disjoint => Linked(hdr)
  /\ ~misled => Orderly

LEMMA Apart ==
  ASSUME NEW h \in [Addr -> Header], Tiled(h),
         NEW a \in Chain(h), NEW b \in Chain(h), a < b
  PROVE  a + Hdr + h[a].size <= b
<1>1. h[a].next # Null /\ h[a].next <= b
  BY ChainOrdered
<1>2. /\ a \in Nat /\ b \in Nat /\ h[a].size \in Nat /\ h[a].next \in Nat
      /\ a + Hdr + h[a].size <= h[a].next
  BY <1>1, ChainStep
<1> QED BY <1>1, <1>2, Sizes

(* In an orderly list nobody's bytes are anybody else's.                   *)
LEMMA OrderlyIsSound ==
  ASSUME TypeOK, Orderly
  PROVE  /\ Ascending /\ Disjoint
         /\ {block[c].addr : c \in Live} = {a \in Listed : ~hdr[a].free}
<1>1. hdr \in [Addr -> Header] /\ Tiled(hdr) /\ Held
  BY DEF TypeOK, Orderly
<1>2. Listed = Chain(hdr)
  BY ListedIsChain
<1>3. Ascending
  BY <1>1, <1>2 DEF Ascending, Tiled, End
<1>4. {block[c].addr : c \in Live} = {a \in Listed : ~hdr[a].free}
  BY <1>1, <1>2 DEF Held
<1>5. \A a \in Listed : hdr[a].next \in Addr \cup {Null}
  BY <1>1, <1>2 DEF Tiled
<1>6. ASSUME NEW c \in Live
      PROVE  /\ Whole(c) \subseteq Addr
             /\ \A d \in Live \ {c} : Whole(c) \cap Whole(d) = {}
             /\ \A a \in Listed : (a..(a + Hdr - 1)) \cap Payload(c) = {}
  <2> DEFINE b == block[c].addr
             s == block[c].size
  <2>1. /\ b \in Chain(hdr) /\ s = hdr[b].size /\ b \in Nat /\ s \in Nat
        /\ b + Hdr + s <= HeapSize
    BY <1>1, <1>6, ChainStep DEF Held
  <2>2. Whole(c) = b..(b + Hdr + s - 1) /\ Payload(c) = (b + Hdr)..(b + Hdr + s - 1)
    BY DEF Whole, Payload
  <2> HIDE DEF b, s
  <2>3. Whole(c) \subseteq Addr
    BY <2>1, <2>2, Sizes
  <2>4. ASSUME NEW d \in Live \ {c} PROVE Whole(c) \cap Whole(d) = {}
    <3> DEFINE e == block[d].addr
               t == block[d].size
    <3>1. /\ e \in Chain(hdr) /\ t = hdr[e].size /\ e \in Nat /\ t \in Nat /\ e # b
      BY <1>1, <1>6, <2>4, ChainStep DEF Held, b
    <3>2. Whole(d) = e..(e + Hdr + t - 1)
      BY DEF Whole
    <3> HIDE DEF e, t
    <3>3. CASE e < b
      <4>1. e + Hdr + t <= b
        BY <3>1, <3>3, <2>1, <1>1, Apart
      <4>2. \A z : z \in e..(e + Hdr + t - 1) => ~(z \in b..(b + Hdr + s - 1))
        <5>1. e \in Nat /\ t \in Nat /\ b \in Nat /\ s \in Nat /\ Hdr \in Nat
          BY <3>1, <2>1, Sizes
        <5> QED BY <5>1, <4>1
      <4> QED BY <4>2, <3>2, <2>2
    <3>4. CASE b < e
      <4>1. b + Hdr + s <= e
        BY <3>1, <3>4, <2>1, <1>1, Apart
      <4> QED BY <4>1, <3>1, <3>2, <2>1, <2>2, Sizes
    <3> QED BY <3>1, <3>3, <3>4, <2>1
  <2>5. ASSUME NEW a \in Listed PROVE (a..(a + Hdr - 1)) \cap Payload(c) = {}
    <3>1. a \in Chain(hdr) /\ a \in Nat /\ hdr[a].size \in Nat
      BY <1>1, <1>2, <2>5, ChainStep
    <3>2. CASE a < b
      <4>1. a + Hdr + hdr[a].size <= b
        BY <3>1, <3>2, <2>1, <1>1, Apart
      <4> QED BY <4>1, <3>1, <2>1, <2>2, Sizes
    <3>3. CASE b < a
      <4>1. b + Hdr + s <= a
        BY <3>1, <3>3, <2>1, <1>1, Apart
      <4> QED BY <4>1, <3>1, <2>1, <2>2, Sizes
    <3>4. CASE a = b
      BY <3>4, <2>1, <2>2, Sizes
    <3> QED BY <3>1, <3>2, <3>3, <3>4, <2>1
  <2> QED BY <2>3, <2>4, <2>5
<1> QED BY <1>3, <1>4, <1>5, <1>6 DEF Disjoint

-----------------------------------------------------------------------------
(* The list has the blocks that the links lead to, and nothing else of the *)
(* headers matters to it.                                                  *)
LEMMA ChainOfNexts ==
  ASSUME NEW g, NEW h, \A a \in Addr : g[a].next = h[a].next
  PROVE  Chain(g) = Chain(h)
<1>1. \A S \in SUBSET Addr : ClosedIn(S, g) <=> ClosedIn(S, h)
  BY DEF ClosedIn
<1> QED BY <1>1 DEF Chain, From

ListingIsChain == Listed = Chain(hdr)

LEMMA ListingChain == ListingIsChain
BY ListedIsChain DEF ListingIsChain

LEMMA InitHeap == Init => HeapInv
<1> SUFFICES ASSUME Init PROVE HeapInv
  OBVIOUS
<1>1. /\ \A a \in Addr : hdr[a] \in Header /\ hdr[a].next = Null
      /\ hdr \in [Addr -> Header]
      /\ hdr[0].size = HeapSize - Hdr /\ hdr[0].free
  <2>1. Blank \in Header /\ Blank.next = Null
    BY Sizes DEF Blank, Header
  <2> DEFINE first == [Blank EXCEPT !.size = HeapSize - Hdr, !.free = TRUE]
  <2>2. HeapSize - Hdr \in 0..Wrap - 1
    BY Sizes
  <2> HIDE DEF Blank
  <2>4. first \in Header /\ first.next = Null /\ first.size = HeapSize - Hdr /\ first.free
    BY <2>1, <2>2 DEF Header
  <2>5. hdr = [a \in Addr |-> IF a = 0 THEN first ELSE Blank]
    BY DEF Init
  <2> HIDE DEF first
  <2> QED BY <2>1, <2>4, <2>5, Sizes
<1>2. block = [c \in Clients |-> NoBlock] /\ misled = FALSE /\ panicked = FALSE
  BY DEF Init
<1>3. TypeOK
  <2>1. NoBlock \in [addr : Addr \cup {Null}, size : Nat]
    BY DEF NoBlock
  <2> QED BY <1>1, <1>2, <2>1 DEF TypeOK
<1>4. Linked(hdr)
  BY <1>1 DEF Linked
<1>5. Chain(hdr) = {0}
  <2>1. ClosedIn({0}, hdr)
    BY <1>1, Sizes DEF ClosedIn
  <2> QED BY <2>1, ChainLeast, Sizes
<1>6. Live = {}
  BY <1>2 DEF Live
<1>7. Orderly
  BY <1>1, <1>5, <1>6, Sizes DEF Orderly, Tiled, Separate, Held, End
<1> QED BY <1>3, <1>4, <1>7 DEF HeapInv

-----------------------------------------------------------------------------
(***************************************************************************)
(* kmalloc.                                                                *)
(***************************************************************************)
LEMMA KmallocTypes ==
  ASSUME HeapInv, NEW c \in Clients, NEW size \in Requests, kmalloc(c, size)
  PROVE  TypeOK' /\ (Disjoint' => Linked(hdr'))
<1> DEFINE hole == smallest_hole(size)
           n == hole + Hdr + size
           rest == hdr[hole].size - size
           new == [size |-> (rest - Hdr - Hdr) % Wrap, prev |-> hole,
                   next |-> hdr[hole].next, free |-> TRUE]
           old == [hdr[hole] EXCEPT !.size = size, !.next = n, !.free = FALSE]
<1>1. TypeOK /\ Disjoint /\ Linked(hdr) /\ hdr \in [Addr -> Header]
  BY DEF HeapInv, kmalloc, Running, TypeOK
<1>2. hole \in Chain(hdr) /\ hole \in Addr /\ hole \in Nat /\ hole # Null
  <2>1. hole \in Suitable(size)
    BY <1>1, SmallestHole DEF kmalloc
  <2> QED BY <2>1, ListedIsChain, ChainLeast, Sizes DEF Suitable
<1>3. /\ hdr' = Divided(hole, size)
      /\ block' = [block EXCEPT ![c] = [addr |-> hole, size |-> size]]
      /\ misled' = (misled \/ rest < 2 * Hdr)
      /\ panicked' = panicked
  BY DEF kmalloc
<1>4. /\ hdr[hole] \in Header /\ hdr[hole].size \in Nat /\ hdr[hole].next \in Addr \cup {Null}
      /\ size \in Nat /\ size \in 0..Wrap - 1 /\ n \in Nat /\ rest \in Int /\ n # hole
  BY <1>1, <1>2, Sizes DEF Linked, Header
<1> HIDE DEF hole
<1>5. misled' \in BOOLEAN /\ panicked' \in BOOLEAN
  BY <1>1, <1>3 DEF TypeOK
<1>6. block' \in [Clients -> [addr : Addr \cup {Null}, size : Nat]]
  BY <1>1, <1>2, <1>3, <1>4 DEF TypeOK
<1>7. CASE rest > Hdr
  <2>1. /\ new \in Header /\ old \in Header
        /\ new.next = hdr[hole].next /\ old.next = n
    <3>1. (rest - Hdr - Hdr) % Wrap \in 0..Wrap - 1
      <4>1. rest - Hdr - Hdr \in Int
        BY <1>4, Sizes
      <4> HIDE DEF rest
      <4> QED BY <4>1, Sizes
    <3> HIDE DEF rest, n
    <3> QED BY <3>1, <1>2, <1>4 DEF Header
  <2>2. hdr' = [hdr EXCEPT ![n] = new, ![hole] = old]
    <3>1. hdr' = [hdr EXCEPT ![n] = new, ![hole].size = size, ![hole].next = n,
                             ![hole].free = FALSE]
      BY <1>3, <1>7 DEF Divided
    <3> HIDE DEF n, new
    <3> QED BY <3>1, <1>4
  <2> HIDE DEF new, old, n
  <2>3. hdr' \in [Addr -> Header]
    BY <1>1, <2>1, <2>2
  <2>4. CASE n \in Addr
    BY <1>1, <1>2, <1>4, <1>5, <1>6, <2>1, <2>2, <2>3, <2>4 DEF TypeOK, Linked
  <2>5. CASE n \notin Addr
    <3> DEFINE S == Chain(hdr')
    <3>1. hdr'[hole].next = n /\ \A a \in Addr \ {hole} : hdr'[a] = hdr[a]
      BY <1>1, <1>2, <2>1, <2>2, <2>5
    <3>2. hole \in S
      <4> SUFFICES ASSUME hole \notin S PROVE FALSE
        OBVIOUS
      <4>1. S \subseteq Addr /\ 0 \in S /\ ClosedIn(S, hdr')
        BY ChainLeast
      <4>2. ClosedIn(S, hdr)
        BY <4>1, <3>1 DEF ClosedIn
      <4> QED BY <4>1, <4>2, <1>2, ChainLeast
    <3>3. Listed' = Chain(hdr')
      <4>1. ListingIsChain'
        BY ListingChain, PTL
      <4> QED BY <4>1 DEF ListingIsChain
    <3>4. ~Disjoint'
      BY <3>1, <3>2, <3>3, <2>5, <1>4, Sizes DEF Disjoint, Null
    <3> QED BY <3>4, <1>5, <1>6, <2>3 DEF TypeOK
  <2> QED BY <2>4, <2>5
<1>8. CASE ~(rest > Hdr)
  <2>1. hdr' = hdr
    BY <1>3, <1>8 DEF Divided
  <2> QED BY <2>1, <1>1, <1>5, <1>6 DEF TypeOK
<1> QED BY <1>7, <1>8

LEMMA KmallocOrderly ==
  ASSUME HeapInv, NEW c \in Clients, NEW size \in Requests, kmalloc(c, size), ~misled'
  PROVE  Orderly'
<1> DEFINE hole == smallest_hole(size)
           n == hole + Hdr + size
           C == Chain(hdr)
<1>1. /\ TypeOK /\ hdr \in [Addr -> Header]
      /\ Tiled(hdr) /\ Separate(hdr) /\ Held
  BY DEF HeapInv, kmalloc, TypeOK, Orderly
<1>2. hole \in C /\ hdr[hole].free /\ hole \in Addr
  <2>1. hole \in Suitable(size)
    BY <1>1, SmallestHole DEF kmalloc
  <2> QED BY <2>1, ListedIsChain, ChainLeast DEF Suitable
<1>3. /\ hdr' = Divided(hole, size)
      /\ block' = [block EXCEPT ![c] = [addr |-> hole, size |-> size]]
      /\ block[c] = NoBlock
      /\ hdr[hole].size - size >= 2 * Hdr
  <2>1. /\ hdr' = Divided(hole, size)
        /\ block' = [block EXCEPT ![c] = [addr |-> hole, size |-> size]]
        /\ block[c] = NoBlock
        /\ ~ (hdr[hole].size - size < 2 * Hdr)
    BY DEF kmalloc
  <2>2. hdr[hole].size \in Nat /\ size \in Nat
    BY <1>1, <1>2, Sizes DEF Header
  <2> HIDE DEF hole
  <2> QED BY <2>1, <2>2, Sizes
<1> HIDE DEF hole
<1>4. /\ hdr' \in [Addr -> Header]
      /\ n \in Addr /\ n \notin C
      /\ \A a \in Addr \ {hole, n} : hdr'[a] = hdr[a]
      /\ hdr'[hole].next = n /\ hdr'[hole].size = size /\ ~hdr'[hole].free
      /\ hdr'[n].next = hdr[hole].next /\ hdr'[n].free
      /\ Chain(hdr') = C \cup {n}
      /\ Tiled(hdr')
  BY <1>1, <1>2, <1>3, ChainSplit
<1> HIDE DEF n
<1>5. \A a \in C : /\ a \in Addr /\ a # n
                   /\ a # hole => hdr'[a] = hdr[a]
                   /\ hdr[a].next # Null => hdr[a].next \in C /\ hdr[a].next # a
  BY <1>1, <1>4, ChainStep
<1>6. Separate(hdr')
  <2> SUFFICES ASSUME NEW a \in C \cup {n}, hdr'[a].free, hdr'[a].next # Null
               PROVE  ~hdr'[hdr'[a].next].free
    BY <1>4 DEF Separate
  <2>1. CASE a = n
    BY <2>1, <1>1, <1>2, <1>4, <1>5 DEF Separate
  <2>2. CASE a # n
    BY <2>2, <1>1, <1>2, <1>4, <1>5 DEF Separate
  <2> QED BY <2>1, <2>2
<1>7. /\ block'[c].addr = hole /\ block'[c].size = size
      /\ \A d \in Clients \ {c} : block'[d] = block[d]
      /\ Live' = Live \cup {c} /\ c \notin Live
  <2>1. /\ block'[c] = [addr |-> hole, size |-> size]
        /\ \A d \in Clients \ {c} : block'[d] = block[d]
    BY <1>1, <1>3 DEF TypeOK
  <2>2. block'[c] # NoBlock
    BY <1>2, <2>1, Sizes DEF NoBlock
  <2> QED BY <2>1, <2>2, <1>3 DEF Live
<1>8. \A d \in Live : d # c /\ block[d].addr # hole /\ block[d].addr \in C
  BY <1>1, <1>2, <1>7 DEF Held
<1>9. Held'
  <2>1. ASSUME NEW d \in Live'
        PROVE  LET a == block'[d].addr
               IN  a \in Chain(hdr') /\ ~hdr'[a].free /\ block'[d].size = hdr'[a].size
    <3>1. CASE d = c
      BY <3>1, <1>2, <1>4, <1>7
    <3>2. CASE d # c
      <4>1. d \in Live /\ block'[d] = block[d]
        BY <2>1, <3>2, <1>7 DEF Live
      <4> QED BY <4>1, <1>1, <1>4, <1>5, <1>8 DEF Held
    <3> QED BY <3>1, <3>2
  <2>2. ASSUME NEW d \in Live', NEW e \in Live', block'[d].addr = block'[e].addr
        PROVE  d = e
    <3>1. \A f \in Live' : f # c => f \in Live /\ block'[f] = block[f]
      BY <1>7 DEF Live
    <3> QED BY <3>1, <2>2, <1>1, <1>7, <1>8 DEF Held
  <2>3. ASSUME NEW a \in Chain(hdr'), ~hdr'[a].free
        PROVE  \E d \in Live' : block'[d].addr = a
    <3>1. CASE a = hole
      BY <3>1, <1>7
    <3>2. CASE a # hole
      <4>1. a \in C /\ ~hdr[a].free
        BY <2>3, <3>2, <1>4, <1>5
      <4>2. PICK d \in Live : block[d].addr = a
        BY <4>1, <1>1 DEF Held
      <4>3. d \in Live' /\ block'[d] = block[d]
        BY <1>7, <1>8 DEF Live
      <4> QED BY <4>2, <4>3
    <3> QED BY <3>1, <3>2
  <2> QED BY <2>1, <2>2, <2>3 DEF Held
<1> QED BY <1>4, <1>6, <1>9 DEF Orderly

-----------------------------------------------------------------------------
(***************************************************************************)
(* kfree.                                                                  *)
(***************************************************************************)
LEMMA MergeTypes ==
  ASSUME NEW h \in [Addr -> Header], Linked(h), NEW b \in Addr
  PROVE  /\ MergedRight(h, b) \in [Addr -> Header] /\ Linked(MergedRight(h, b))
         /\ h[b].prev # Null =>
              /\ MergedLeft(h, b) \in [Addr -> Header] /\ Linked(MergedLeft(h, b))
              /\ h[b].prev \in Addr
<1>1. ASSUME NEW p \in Addr, NEW m \in Addr,
             NEW g, g = [h EXCEPT ![p].next = h[m].next,
                                  ![p].size = (h[p].size + h[m].size + Hdr) % Wrap]
      PROVE  g \in [Addr -> Header] /\ Linked(g)
  <2> DEFINE s == (h[p].size + h[m].size + Hdr) % Wrap
             r == [h[p] EXCEPT !.next = h[m].next, !.size = s]
  <2>1. h[p] \in Header /\ h[m].next \in Addr \cup {Null} /\ h[m].next \in Nat \cup {Null}
    BY Sizes DEF Linked, Header
  <2>2. s \in 0..Wrap - 1
    <3> DEFINE t == h[p].size + h[m].size + Hdr
    <3>1. t \in Nat
      BY Sizes DEF Header
    <3> HIDE DEF t
    <3>2. t % Wrap \in 0..Wrap - 1
      BY <3>1, Sizes
    <3> QED BY <3>2 DEF t
  <2> HIDE DEF s
  <2>3. r \in Header /\ r.next = h[m].next
    BY <2>1, <2>2 DEF Header
  <2>4. g = [h EXCEPT ![p] = r]
    BY <1>1 DEF s
  <2> HIDE DEF r
  <2> QED BY <2>1, <2>3, <2>4 DEF Linked
<1>2. h[b].prev # Null => h[b].prev \in Addr
  BY DEF Header
<1>3. h[b].next # Null => h[b].next \in Addr
  BY DEF Linked
<1> QED BY <1>1, <1>2, <1>3 DEF MergedRight, MergedLeft

LEMMA KfreeTypes ==
  ASSUME HeapInv, NEW c \in Clients, kfree(c)
  PROVE  TypeOK' /\ (Disjoint' => Linked(hdr'))
<1> DEFINE b == block[c].addr
           h == Freed(b)
<1>1. TypeOK /\ Disjoint /\ Linked(hdr) /\ hdr \in [Addr -> Header] /\ c \in Live
  BY DEF HeapInv, kfree, Running, TypeOK
<1>2. b \in Addr
  <2>1. Whole(c) \subseteq Addr
    BY <1>1 DEF Disjoint
  <2>2. b \in Int /\ block[c].size \in Nat
    BY <1>1, Sizes DEF TypeOK, Null
  <2>3. b \in Whole(c)
    BY <2>2, Sizes DEF Whole
  <2> QED BY <2>1, <2>3
<1>3. CASE panicked' = TRUE /\ UNCHANGED <<hdr, block, misled>>
  <2>1. hdr' = hdr
    BY <1>3
  <2> QED BY <2>1, <1>1, <1>3 DEF TypeOK
<1>4. CASE /\ hdr' = Merged(b)
           /\ block' = [block EXCEPT ![c] = NoBlock]
           /\ misled' = (misled \/ Stale(b))
           /\ UNCHANGED panicked
  <2>1. NoBlock \in [addr : Addr \cup {Null}, size : Nat]
    BY DEF NoBlock
  <2>2. /\ block' \in [Clients -> [addr : Addr \cup {Null}, size : Nat]]
        /\ misled' \in BOOLEAN /\ panicked' \in BOOLEAN
    <3>1. block' \in [Clients -> [addr : Addr \cup {Null}, size : Nat]]
      BY <1>1, <1>4, <2>1 DEF TypeOK
    <3>2. Stale(b) \in BOOLEAN
      BY DEF Stale
    <3> QED BY <1>1, <1>4, <3>1, <3>2 DEF TypeOK
  <2>3. h \in [Addr -> Header] /\ Linked(h)
    <3> DEFINE r == [hdr[b] EXCEPT !.free = TRUE]
    <3>1. r \in Header /\ r.next = hdr[b].next
      BY <1>1, <1>2 DEF Header
    <3>2. h = [hdr EXCEPT ![b] = r]
      BY DEF Freed
    <3> HIDE DEF r, h
    <3> QED BY <1>1, <1>2, <3>1, <3>2 DEF Linked
  <2> HIDE DEF h
  <2>4. hdr' = IF h[b].prev # Null /\ h[h[b].prev].free
               THEN MergedRight(MergedLeft(h, b), h[b].prev)
               ELSE MergedRight(h, b)
    BY <1>4 DEF Merged, h
  <2>5. hdr' \in [Addr -> Header] /\ Linked(hdr')
    <3>1. CASE h[b].prev # Null /\ h[h[b].prev].free
      <4>1. /\ MergedLeft(h, b) \in [Addr -> Header] /\ Linked(MergedLeft(h, b))
            /\ h[b].prev \in Addr
        BY <3>1, <2>3, <1>2, MergeTypes
      <4> QED BY <4>1, <3>1, <2>4, MergeTypes
    <3>2. CASE ~ (h[b].prev # Null /\ h[h[b].prev].free)
      BY <3>2, <2>3, <2>4, <1>2, MergeTypes
    <3> QED BY <3>1, <3>2
  <2> QED BY <2>2, <2>5 DEF TypeOK
<1> QED BY <1>3, <1>4 DEF kfree

(* No two blocks have the same successor.                                  *)
LEMMA ChainInjective ==
  ASSUME NEW h \in [Addr -> Header], Tiled(h),
         NEW a \in Chain(h), NEW b \in Chain(h), h[a].next # Null, h[a].next = h[b].next
  PROVE  a = b
<1>1. a < h[a].next /\ b < h[a].next /\ a \in Nat /\ b \in Nat /\ h[a].next \in Nat
  BY ChainStep
<1>2. ~ (a < b) /\ ~ (b < a)
  BY <1>1, ChainOrdered
<1> QED BY <1>1, <1>2

(* What is known of the headers g when the block b, which has been marked  *)
(* as free, has become part of the hole m, and m may still have a hole     *)
(* behind it.                                                              *)
JoinedLeft(g, m, b) ==
  LET C == Chain(hdr)
      K == Chain(g)
  IN  /\ g \in [Addr -> Header] /\ Tiled(g)
      /\ K \subseteq C /\ m \in K /\ m <= b
      /\ \A a \in C \ K : a = b
      /\ m = b \/ hdr[m].free
      /\ b \in K => m = b
      /\ g[m].free /\ g[m].next = hdr[b].next
      /\ \A a \in K \ {m} : g[a] = hdr[a]
      /\ \A a \in K \ {m} : hdr[a].free => hdr[a].next # m

LEMMA KfreeLeft ==
  ASSUME hdr \in [Addr -> Header], Tiled(hdr), Separate(hdr),
         NEW b \in Chain(hdr), ~hdr[b].free, ~Stale(b)
  PROVE  \E g, m : JoinedLeft(g, m, b) /\ Merged(b) = MergedRight(g, m)
<1> DEFINE C == Chain(hdr)
           h == Freed(b)
           left == hdr[b].prev
<1>1. C \subseteq Addr /\ b \in Addr /\ b \in Nat
  BY ChainLeast, Sizes
<1>2. /\ h \in [Addr -> Header]
      /\ \A a \in Addr \ {b} : h[a] = hdr[a]
      /\ h[b].next = hdr[b].next /\ h[b].size = hdr[b].size
      /\ h[b].prev = hdr[b].prev /\ h[b].free
  <2> DEFINE r == [hdr[b] EXCEPT !.free = TRUE]
  <2>1. /\ r \in Header /\ r.next = hdr[b].next /\ r.size = hdr[b].size
        /\ r.prev = hdr[b].prev /\ r.free
    BY <1>1 DEF Header
  <2>2. h = [hdr EXCEPT ![b] = r]
    BY DEF Freed
  <2> HIDE DEF r, h
  <2> QED BY <1>1, <2>1, <2>2
<1>3. Merged(b) = IF left # Null /\ h[left].free
                  THEN MergedRight(MergedLeft(h, b), left)
                  ELSE MergedRight(h, b)
  BY <1>2 DEF Merged
<1> HIDE DEF h
<1>4. Chain(h) = C /\ Tiled(h)
  <2>1. \A a \in Addr : h[a].next = hdr[a].next /\ h[a].size = hdr[a].size
    BY <1>2
  <2>2. Chain(h) = C
    BY <2>1, ChainOfNexts
  <2> QED BY <1>1, <2>1, <2>2 DEF Tiled, End
<1>5. /\ left = Null => b = 0
      /\ left # Null => left \in C /\ hdr[left].next = b /\ left < b
  <2>1. left = Null => b = 0
    BY DEF Stale
  <2>2. left # Null => left \in C /\ hdr[left].next = b
    BY ListedIsChain DEF Stale
  <2>3. b # Null
    BY <1>1, Sizes
  <2> QED BY <2>1, <2>2, <2>3, ChainStep
<1>6. CASE left # Null /\ h[left].free
  <2> DEFINE g == MergedLeft(h, b)
  <2>1. /\ left \in C /\ left \in Addr /\ left # b /\ hdr[left].next = b /\ left <= b
        /\ h[left] = hdr[left] /\ hdr[left].free
    <3>1. left \in C /\ left \in Addr /\ left \in Nat /\ hdr[left].next = b /\ left < b
      BY <1>1, <1>5, <1>6, Sizes
    <3>2. left # b /\ left <= b
      BY <3>1, <1>1
    <3> QED BY <3>1, <3>2, <1>2, <1>6
  <2>2. g = Joined(h, left)
    BY <1>2, <2>1 DEF MergedLeft, Joined
  <2>3. h[left].next = b /\ h[left].next # Null
    BY <1>1, <2>1, Sizes
  <2> HIDE DEF g, left
  <2>4. /\ g \in [Addr -> Header] /\ Tiled(g) /\ Chain(g) = C \ {b}
        /\ \A a \in Addr \ {left} : g[a] = h[a]
        /\ g[left].free = h[left].free /\ g[left].next = h[b].next
    BY <1>2, <1>4, <2>1, <2>2, <2>3, ChainJoin
  <2>5. \A a \in C : hdr[a].free => hdr[a].next # left
    <3>1. left # Null
      BY <2>1, Sizes
    <3> QED BY <3>1, <2>1 DEF Separate
  <2>6. \A a \in (C \ {b}) \ {left} : g[a] = hdr[a]
    BY <1>1, <1>2, <2>4
  <2>7. JoinedLeft(g, left, b)
    BY <1>2, <2>1, <2>4, <2>5, <2>6 DEF JoinedLeft
  <2> QED BY <1>3, <1>6, <2>7 DEF g, left
<1>7. CASE ~ (left # Null /\ h[left].free)
  <2>1. ASSUME NEW a \in C, a # b, hdr[a].free, hdr[a].next = b PROVE FALSE
    <3>1. hdr[a].next # Null /\ a < b /\ a \in Nat
      BY <1>1, <2>1, ChainStep, Sizes
    <3>2. left # Null
      BY <1>5, <3>1
    <3>3. a = left
      BY <1>5, <2>1, <3>1, <3>2, ChainInjective
    <3> QED BY <1>1, <1>2, <1>7, <2>1, <3>2, <3>3
  <2>2. \A a \in C \ {b} : h[a] = hdr[a]
    BY <1>1, <1>2
  <2>3. JoinedLeft(h, b, b)
    BY <1>1, <1>2, <1>4, <2>1, <2>2 DEF JoinedLeft
  <2> QED BY <1>3, <1>7, <2>3
<1> QED BY <1>6, <1>7

LEMMA KfreeOrderly ==
  ASSUME HeapInv, NEW c \in Clients, kfree(c), ~misled'
  PROVE  Orderly'
<1> DEFINE C == Chain(hdr)
           b == block[c].addr
<1>1. CASE UNCHANGED <<hdr, block, misled>>
  BY <1>1 DEF HeapInv, Orderly, Held, Live
<1>2. CASE /\ hdr' = Merged(b)
           /\ block' = [block EXCEPT ![c] = NoBlock]
           /\ misled' = (misled \/ Stale(b))
  <2>1. /\ TypeOK /\ hdr \in [Addr -> Header] /\ ~Stale(b)
        /\ Tiled(hdr) /\ Separate(hdr) /\ Held /\ c \in Live
    BY <1>2 DEF HeapInv, kfree, TypeOK, Orderly
  <2>2. b \in C /\ b \in Nat /\ ~hdr[b].free
    BY <2>1, ChainLeast, Sizes DEF Held
  <2>3. PICK g, m : JoinedLeft(g, m, b) /\ hdr' = MergedRight(g, m)
    BY <1>2, <2>1, <2>2, KfreeLeft
  <2> DEFINE right == hdr[b].next
             K == Chain(hdr')
  <2>4. /\ g \in [Addr -> Header] /\ Tiled(g)
        /\ Chain(g) \subseteq C /\ m \in Chain(g) /\ m <= b
        /\ \A a \in C \ Chain(g) : a = b
        /\ m = b \/ hdr[m].free
        /\ b \in Chain(g) => m = b
        /\ g[m].free /\ g[m].next = right
        /\ \A a \in Chain(g) \ {m} : g[a] = hdr[a]
        /\ \A a \in Chain(g) \ {m} : hdr[a].free => hdr[a].next # m
    BY <2>3 DEF JoinedLeft
  <2>5. /\ Chain(g) \subseteq Addr /\ m \in Nat
        /\ right # Null => right \in Chain(g) /\ right # m /\ g[right] = hdr[right]
    BY <2>4, ChainLeast, ChainStep
  <2>6. /\ hdr' \in [Addr -> Header] /\ Tiled(hdr')
        /\ K \subseteq Chain(g) /\ m \in K
        /\ \A a \in Chain(g) \ K : hdr[a].free
        /\ hdr'[m].free
        /\ \A a \in K \ {m} : hdr'[a] = g[a]
        /\ hdr'[m].next # Null => ~hdr[hdr'[m].next].free
    <3>1. CASE right # Null /\ g[right].free
      <4>1. hdr' = Joined(g, m)
        BY <2>3, <2>4, <3>1 DEF MergedRight, Joined
      <4>2. /\ hdr' \in [Addr -> Header] /\ Tiled(hdr')
            /\ K = Chain(g) \ {right}
            /\ \A a \in Addr \ {m} : hdr'[a] = g[a]
            /\ hdr'[m].free = g[m].free /\ hdr'[m].next = g[right].next
        <5>1. g[m].next = right /\ g[m].next # Null
          BY <2>4, <3>1
        <5>2. /\ g \in [Addr -> Header] /\ Tiled(g) /\ m \in Chain(g)
          BY <2>4
        <5> HIDE DEF right
        <5> QED BY <5>1, <5>2, <4>1, ChainJoin DEF K
      <4>3. hdr[right].free /\ hdr'[m].next = hdr[right].next
        BY <2>5, <3>1, <4>2
      <4>4. hdr'[m].next # Null => ~hdr[hdr'[m].next].free
        BY <2>1, <2>4, <2>5, <3>1, <4>3 DEF Separate
      <4> QED BY <2>4, <2>5, <3>1, <4>2, <4>3, <4>4
    <3>2. CASE ~ (right # Null /\ g[right].free)
      <4>1. hdr' = g
        BY <2>3, <2>4, <3>2 DEF MergedRight
      <4> QED BY <2>4, <2>5, <3>2, <4>1
    <3> QED BY <3>1, <3>2
  <2>7. /\ K \subseteq C /\ \A a \in K \ {m} : hdr'[a] = hdr[a]
        /\ \A a \in C \ K : a = b \/ hdr[a].free
        /\ \A a \in K : hdr'[a].next # Null => hdr'[a].next \in K /\ hdr'[a].next # a
    BY <2>4, <2>6, ChainStep
  <2> HIDE DEF K, right
  <2>8. Separate(hdr')
    <3> SUFFICES ASSUME NEW a \in K, hdr'[a].free, hdr'[a].next # Null
                 PROVE  ~hdr'[hdr'[a].next].free
      BY DEF Separate, K
    <3>1. CASE a = m
      BY <3>1, <2>6, <2>7
    <3>2. CASE a # m
      <4>1. /\ hdr'[a] = hdr[a] /\ hdr[a].next \in K /\ hdr[a].next # m
        BY <3>2, <2>4, <2>6, <2>7
      <4> QED BY <4>1, <2>1, <2>7 DEF Separate
    <3> QED BY <3>1, <3>2
  <2>9. /\ Live' = Live \ {c}
        /\ \A d \in Live' : block'[d] = block[d]
    BY <1>2, <2>1 DEF TypeOK, Live
  <2>10. \A d \in Live' : LET a == block[d].addr
                          IN  /\ a \in K /\ a # m /\ a # b /\ ~hdr[a].free
                              /\ block[d].size = hdr[a].size
    <3> SUFFICES ASSUME NEW d \in Live'
                 PROVE  LET a == block[d].addr
                        IN  /\ a \in K /\ a # m /\ a # b /\ ~hdr[a].free
                            /\ block[d].size = hdr[a].size
      OBVIOUS
    <3>1. d \in Live /\ d # c
      BY <2>9
    <3>2. /\ block[d].addr \in C /\ ~hdr[block[d].addr].free /\ block[d].addr # b
          /\ block[d].size = hdr[block[d].addr].size
      BY <3>1, <2>1 DEF Held
    <3> QED BY <3>2, <2>4, <2>7
  <2>11. ASSUME NEW a \in K, ~hdr'[a].free
         PROVE  \E d \in Live' : block[d].addr = a
    <3>1. a # m /\ ~hdr[a].free /\ a \in C
      BY <2>6, <2>7, <2>11
    <3>2. PICK d \in Live : block[d].addr = a
      BY <3>1, <2>1 DEF Held
    <3>3. d # c
      BY <3>1, <3>2, <2>4, <2>6, <2>11 DEF K
    <3> QED BY <3>2, <3>3, <2>9
  <2>12. Held'
    <3>1. \A d \in Live' : LET a == block'[d].addr
                           IN  a \in K /\ ~hdr'[a].free /\ block'[d].size = hdr'[a].size
      BY <2>7, <2>9, <2>10
    <3>2. \A d, e \in Live' : block'[d].addr = block'[e].addr => d = e
      BY <2>1, <2>9 DEF Held
    <3>3. \A a \in K : ~hdr'[a].free => \E d \in Live' : block'[d].addr = a
      BY <2>9, <2>11
    <3> QED BY <3>1, <3>2, <3>3 DEF Held, K
  <2> QED BY <2>6, <2>8, <2>12 DEF Orderly
<1> QED BY <1>1, <1>2 DEF kfree

-----------------------------------------------------------------------------
LEMMA StepHeap == HeapInv /\ [Next]_vars => HeapInv'
<1> SUFFICES ASSUME HeapInv, [Next]_vars PROVE HeapInv'
  OBVIOUS
<1>1. ASSUME NEW c \in Clients, NEW size \in Requests, kmalloc(c, size) PROVE HeapInv'
  BY <1>1, KmallocTypes, KmallocOrderly DEF HeapInv
<1>2. ASSUME NEW c \in Clients, kfree(c) PROVE HeapInv'
  BY <1>2, KfreeTypes, KfreeOrderly DEF HeapInv
<1>3. CASE UNCHANGED vars
  <2>1. TypeOK' /\ (Disjoint' <=> Disjoint) /\ (Orderly' <=> Orderly)
    BY <1>3 DEF vars, HeapInv, TypeOK, Disjoint, Orderly, Held, Live, Listed, Walk,
                Whole, Payload
  <2> QED BY <1>3, <2>1 DEF vars, HeapInv
<1> QED BY <1>1, <1>2, <1>3 DEF Next, Kmalloc, Kfree

(* The inductive invariant of the heap: the types, links that stay linked  *)
(* while no two blocks overlap, and an orderly list until misled.          *)
THEOREM HeapInvHolds == Spec => []HeapInv
  BY InitHeap, StepHeap, PTL DEF Spec

(* Whatever is asked for and freed, in any order, and however the sizes    *)
(* have wrapped and the links been misled, the headers keep their types.   *)
THEOREM TypeCorrect == Spec => []TypeOK
<1>1. HeapInv => TypeOK
  BY DEF HeapInv
<1> QED BY <1>1, HeapInvHolds, PTL

(* Until kmalloc meets a near fit or kfree a stale prev the list ascends,  *)
(* no byte of the heap has two users, no client can write over a header of *)
(* the list, and the blocks that are no holes are those in clients' hands. *)
THEOREM AlwaysSoundUntilMisled == Spec => []SoundUntilMisled
<1>1. HeapInv => SoundUntilMisled
  BY OrderlyIsSound DEF HeapInv, SoundUntilMisled
<1> QED BY <1>1, HeapInvHolds, PTL

(* Until then kfree leaves no two holes side by side.                      *)
THEOREM AlwaysCoalesced == Spec => []Coalesced
<1>1. HeapInv => Coalesced
  BY ListedIsChain DEF HeapInv, Orderly, Separate, Coalesced
<1> QED BY <1>1, HeapInvHolds, PTL
=============================================================================

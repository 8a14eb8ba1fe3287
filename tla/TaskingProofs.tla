---------------------------- MODULE TaskingProofs ----------------------------
(***************************************************************************)
(* What holds of Tasking for every set of tasks and every set of faulty    *)
(* ones.  The argument about the ready queue is about the smallest set     *)
(* that contains current_task and is closed under next: no cardinality and *)
(* no induction is needed, but for the last part, where the ring is read   *)
(* as the queue of Multitasking.                                           *)
(***************************************************************************)
EXTENDS Tasking, SequenceTheorems, FiniteSetTheorems, WellFoundedInduction, TLAPS

(* The two ways links are rewritten: KillTask's and LoadProcess's.         *)
Relinked(f, p, n) == [f EXCEPT ![p] = n]
LinkedIn(f, l, n, x) == [f EXCEPT ![n] = x, ![l] = n]

(* The tasks reached from x along f, when some set L of tasks is closed    *)
(* under f and contains x: x is one of them, they are closed under f, and  *)
(* they are contained in every closed set that contains x.                 *)
LEMMA ReachLeast ==
  ASSUME NEW L \in SUBSET Task, NEW f, NEW x \in L, Closed(L, f)
  PROVE  /\ Reach(f, x) \subseteq L
         /\ x \in Reach(f, x)
         /\ Closed(Reach(f, x), f)
         /\ \A S \in SUBSET Task :
              x \in S /\ Closed(S, f) => Reach(f, x) \subseteq S
<1>1. x \in Reach(f, x) /\ Reach(f, x) \subseteq L
  BY Zenon DEF Reach
<1>2. ASSUME NEW S \in SUBSET Task, x \in S, Closed(S, f)
      PROVE  Reach(f, x) \subseteq S
  BY <1>2, Zenon DEF Reach
<1>3. Closed(Reach(f, x), f)
  <2> SUFFICES ASSUME NEW t \in Reach(f, x) PROVE f[t] \in Reach(f, x)
    BY DEF Closed
  <2>1. f[t] \in Task
    BY <1>1 DEF Closed
  <2>2. ASSUME NEW S \in SUBSET Task, x \in S, Closed(S, f) PROVE f[t] \in S
    BY <1>2, <2>2 DEF Closed
  <2> QED BY <2>1, <2>2, Zenon DEF Reach
<1> QED BY <1>1, <1>2, <1>3

(* Re-linking any one task p to the successor of the first task, as        *)
(* KillTask does with the task that prev names, leaves a ring through that *)
(* successor, with no task added.                                          *)
LEMMA ReachUnlink ==
  ASSUME NEW L \in SUBSET Task, NEW f \in [Task -> Link], Closed(L, f),
         NEW c \in L, NEW p \in L, f[c] # c,
         NEW q \in Reach(f, c), f[q] = c
  PROVE  LET g == Relinked(f, p, f[c])
         IN  /\ Reach(g, f[c]) \subseteq Reach(f, c)
             /\ \E t \in Reach(g, f[c]) : g[t] = f[c]
<1> DEFINE g == Relinked(f, p, f[c])
           R == Reach(f, c)
           S == Reach(g, f[c])
<1>0. /\ f[c] \in L
      /\ \A u \in L : g[u] = IF u = p THEN f[c] ELSE f[u]
  BY DEF Relinked, Closed
<1> HIDE DEF g
<1>1. R \subseteq L /\ c \in R /\ Closed(R, f)
  BY ReachLeast
<1>2. S \subseteq L /\ f[c] \in S /\ Closed(S, g)
  <2>1. Closed(L, g)
    BY <1>0 DEF Closed
  <2> QED BY <1>0, <2>1, ReachLeast
<1>3. f[c] \in R /\ Closed(R, g)
  BY <1>0, <1>1 DEF Closed
<1>4. S \subseteq R
  BY <1>1, <1>3, ReachLeast
<1>5. \E t \in S : g[t] = f[c]
  <2>1. CASE p \in S
    BY <2>1, <1>0, <1>2
  <2>2. CASE p \notin S
    <3>1. Closed(S, f)
      BY <2>2, <1>0, <1>2 DEF Closed
    <3>2. Closed(S \cup {c}, f)
      BY <3>1, <1>2 DEF Closed
    <3>3. R \subseteq S \cup {c}
      BY <3>2, <1>2, ReachLeast
    <3>4. q \in S
      BY <3>3
    <3>5. c \in S /\ c # p
      BY <3>1, <3>4, <2>2 DEF Closed
    <3> QED BY <3>5, <1>0, <1>1
  <2> QED BY <2>1, <2>2
<1> QED BY <1>4, <1>5 DEF g

(* Moving the start of a ring to its successor leaves the ring the same.   *)
LEMMA ReachAdvance ==
  ASSUME NEW L \in SUBSET Task, NEW f, Closed(L, f), NEW c \in L, f[c] # c,
         NEW q \in Reach(f, c), f[q] = c
  PROVE  /\ Reach(f, f[c]) = Reach(f, c)
         /\ \E t \in Reach(f, f[c]) : f[t] = f[c]
<1> DEFINE R == Reach(f, c)
           S == Reach(f, f[c])
<1>1. R \subseteq L /\ c \in R /\ Closed(R, f)
  BY ReachLeast
<1>2. S \subseteq L /\ f[c] \in S /\ Closed(S, f)
  BY ReachLeast DEF Closed
<1>3. S \subseteq R
  BY <1>1, ReachLeast DEF Closed
<1>4. R \subseteq S \cup {c}
  <2>1. Closed(S \cup {c}, f)
    BY <1>2 DEF Closed
  <2> QED BY <2>1, <1>2, ReachLeast
<1>5. c \in S
  BY <1>4, <1>2 DEF Closed
<1>6. R \subseteq S
  BY <1>2, <1>5, ReachLeast
<1> QED BY <1>3, <1>6, <1>5

(* Linking n in between the last task l and the first, x, adds n to the    *)
(* ring and closes it again.                                               *)
LEMMA ReachAppend ==
  ASSUME NEW L \in SUBSET Task, NEW f \in [Task -> Link], Closed(L, f),
         NEW x \in L, NEW n \in Task, n \notin L, NEW l \in Reach(f, x), f[l] = x
  PROVE  LET g == LinkedIn(f, l, n, x)
         IN  Reach(g, x) = Reach(f, x) \cup {n} /\ g[n] = x
<1> DEFINE g == LinkedIn(f, l, n, x)
           R == Reach(f, x)
           S == Reach(g, x)
<1>1. R \subseteq L /\ x \in R /\ Closed(R, f)
  BY ReachLeast
<1>2. \A u \in L \cup {n} : g[u] = IF u = l THEN n ELSE IF u = n THEN x ELSE f[u]
  BY <1>1 DEF LinkedIn
<1> HIDE DEF g
<1>3. S \subseteq L \cup {n} /\ x \in S /\ Closed(S, g)
  <2>1. Closed(L \cup {n}, g)
    BY <1>2 DEF Closed
  <2> QED BY <2>1, ReachLeast
<1>4. S \subseteq R \cup {n}
  <2>1. Closed(R \cup {n}, g)
    BY <1>1, <1>2 DEF Closed
  <2> QED BY <2>1, <1>1, ReachLeast
<1>5. R \subseteq S
  <2>1. Closed(S \cap R, f)
    BY <1>1, <1>2, <1>3 DEF Closed
  <2>2. R \subseteq S \cap R
    BY <2>1, <1>1, <1>3, ReachLeast
  <2> QED BY <2>2
<1>6. n \in S
  BY <1>1, <1>2, <1>3, <1>5 DEF Closed
<1>7. g[n] = x
  BY <1>1, <1>2
<1> QED BY <1>4, <1>5, <1>6, <1>7 DEF g

-----------------------------------------------------------------------------
(* TypeOK needs RingClosed, which says that LoadProcess finds a last task, *)
(* and RingClosed needs TypeOK: together they are inductive.               *)
Inv == TypeOK /\ RingClosed

LEMMA RingLoaded ==
  ASSUME TypeOK
  PROVE  /\ loaded \in SUBSET Task /\ current_task \in loaded
         /\ Closed(loaded, next)
         /\ Ring \subseteq loaded
<1>1. /\ loaded \in SUBSET Task /\ current_task \in loaded
      /\ Closed(loaded, next)
  BY DEF TypeOK, Closed
<1> QED BY <1>1, ReachLeast DEF Ring

LEMMA LastTask ==
  ASSUME Inv
  PROVE  Last \in Ring /\ next[Last] = current_task
  BY DEF Inv, RingClosed, Last

LEMMA LoadKeepsRing ==
  ASSUME Inv, NEW t \in Task, LoadProcess(t)
  PROVE  /\ Ring' = Ring \cup {t}
         /\ RingClosed'
         /\ loaded' = loaded \cup {t}
         /\ next' \in [Task -> Link] /\ prev' \in [Task -> Link]
         /\ \A u \in loaded' : next'[u] \in loaded' /\ prev'[u] \in loaded'
<1>1. /\ current_task \in loaded /\ loaded \in SUBSET Task
      /\ next \in [Task -> Link] /\ prev \in [Task -> Link]
      /\ \A u \in loaded : next[u] \in loaded /\ prev[u] \in loaded
  BY DEF Inv, TypeOK
<1>2. Ring \subseteq loaded
  BY RingLoaded DEF Inv
<1>3. Last \in Ring /\ next[Last] = current_task
  BY LastTask
<1>4. /\ t \notin loaded /\ loaded' = loaded \cup {t}
      /\ next' = [next EXCEPT ![t] = current_task, ![Last] = t]
      /\ prev' = [prev EXCEPT ![t] = Last]
      /\ current_task' = current_task
  BY DEF LoadProcess
<1>5. /\ next' \in [Task -> Link] /\ prev' \in [Task -> Link]
      /\ \A u \in Task : next'[u] = IF u = Last THEN t
                                    ELSE IF u = t THEN current_task ELSE next[u]
  BY <1>1, <1>2, <1>3, <1>4 DEF Link
<1>6. Ring' = Ring \cup {t} /\ next'[t] = current_task
  <2>1. /\ loaded \in SUBSET Task /\ current_task \in loaded
        /\ next \in [Task -> Link] /\ Closed(loaded, next)
        /\ t \notin loaded
        /\ Last \in Reach(next, current_task) /\ next[Last] = current_task
    BY <1>1, <1>3, <1>4 DEF Ring, Closed
  <2>2. next' = LinkedIn(next, Last, t, current_task)
    BY <1>4 DEF LinkedIn
  <2>3. /\ Reach(next', current_task) = Reach(next, current_task) \cup {t}
        /\ next'[t] = current_task
    BY <2>1, <2>2, ReachAppend
  <2> QED BY <1>4, <2>3 DEF Ring
<1>7. RingClosed'
  BY <1>6, <1>4 DEF RingClosed
<1>8. \A u \in loaded' : next'[u] \in loaded' /\ prev'[u] \in loaded'
  BY <1>1, <1>2, <1>3, <1>4, <1>5
<1> QED BY <1>4, <1>5, <1>6, <1>7, <1>8

LEMMA SwitchKeepsRing ==
  ASSUME Inv, SwitchTask, next' = next
  PROVE  Ring' = Ring /\ RingClosed' /\ current_task' \in Ring
<1>1. /\ loaded \in SUBSET Task /\ current_task \in loaded
      /\ Closed(loaded, next)
  BY RingLoaded DEF Inv
<1>2. PICK q \in Ring : next[q] = current_task
  BY DEF Inv, RingClosed
<1>3. CASE next[current_task] = current_task
  <2>1. current_task \in Reach(next, current_task)
    BY <1>1, ReachLeast
  <2> QED BY <1>2, <1>3, <2>1 DEF SwitchTask, Ring, RingClosed
<1>4. CASE next[current_task] # current_task
  <2>1. current_task' = next[current_task]
    BY <1>4 DEF SwitchTask
  <2>2. /\ Reach(next, current_task') = Reach(next, current_task)
        /\ \E u \in Reach(next, current_task') : next[u] = current_task'
    BY <1>1, <1>2, <1>4, <2>1, ReachAdvance DEF Ring
  <2>3. current_task' \in Reach(next, current_task')
    BY <1>1, <2>1, ReachLeast DEF Closed
  <2> QED BY <2>2, <2>3 DEF Ring, RingClosed
<1> QED BY <1>3, <1>4

LEMMA KillKeepsRing ==
  ASSUME Inv, KillCurrent
  PROVE  /\ Ring' \subseteq Ring
         /\ RingClosed'
         /\ loaded' = loaded /\ current_task' \in loaded
         /\ killed' \in SUBSET loaded /\ hung' \in BOOLEAN
         /\ next' \in [Task -> Link] /\ prev' \in [Task -> Link]
         /\ \A u \in loaded : next'[u] \in loaded /\ prev'[u] \in loaded
<1>1. /\ current_task \in loaded /\ loaded \in SUBSET Task
      /\ next \in [Task -> Link] /\ prev \in [Task -> Link]
      /\ killed \in SUBSET loaded /\ hung \in BOOLEAN
      /\ \A u \in loaded : next[u] \in loaded /\ prev[u] \in loaded
  BY DEF Inv, TypeOK
<1>2. PICK q \in Ring : next[q] = current_task
  BY DEF Inv, RingClosed
<1>3. CASE next[current_task] = current_task
  BY <1>1, <1>2, <1>3 DEF KillCurrent, links, Ring, RingClosed
<1>4. CASE next[current_task] # current_task
  <2> DEFINE p == prev[current_task]
             n == next[current_task]
  <2>1. /\ next' = [next EXCEPT ![p] = n] /\ prev' = [prev EXCEPT ![n] = p]
        /\ killed' = killed \cup {current_task}
        /\ current_task' = n /\ loaded' = loaded /\ hung' = hung
    BY <1>4 DEF KillCurrent, KillTask
  <2>2. p \in loaded /\ n \in loaded
    BY <1>1
  <2>3. /\ next' \in [Task -> Link] /\ prev' \in [Task -> Link]
        /\ \A u \in Task : next'[u] = IF u = p THEN n ELSE next[u]
        /\ \A u \in Task : prev'[u] = IF u = n THEN p ELSE prev[u]
    BY <1>1, <2>1, <2>2
  <2>4. /\ Reach(next', n) \subseteq Reach(next, current_task)
        /\ \E u \in Reach(next', n) : next'[u] = n
    <3>1. q \in Reach(next, current_task) /\ Closed(loaded, next)
      BY <1>1, <1>2 DEF Ring, Closed
    <3>2. next' = Relinked(next, p, n)
      BY <2>1 DEF Relinked
    <3> QED BY <1>1, <1>2, <1>4, <2>2, <3>1, <3>2, ReachUnlink
  <2>5. Ring' \subseteq Ring /\ RingClosed'
    BY <2>1, <2>4 DEF Ring, RingClosed
  <2> QED BY <1>1, <2>1, <2>2, <2>3, <2>5
<1> QED BY <1>3, <1>4

-----------------------------------------------------------------------------
LEMMA InitInv == Init => Inv
<1> SUFFICES ASSUME Init PROVE Inv
  OBVIOUS
<1>1. Boot \in Task /\ Entry \in Val
  BY TaskingAssumption
<1>2. TypeOK
  BY <1>1 DEF Init, TypeOK, Context, EntryContext, Link
<1>3. RingClosed
  <2>1. Boot \in Reach(next, Boot)
    BY <1>1, <1>2, RingLoaded, ReachLeast DEF Init
  <2> QED BY <2>1, <1>1 DEF Init, Ring, RingClosed
<1> QED BY <1>2, <1>3 DEF Inv

LEMMA MemoryTyped ==
  ASSUME TypeOK, Lasts \/ Overdraw \/ OutOfMap
  PROVE  exhausted' \in BOOLEAN /\ mode' \in {"user", "overdraw", "fault"}
BY DEF TypeOK, Lasts, Overdraw, OutOfMap, memory

LEMMA StepInv == Inv /\ [Next]_vars => Inv'
<1> SUFFICES ASSUME Inv, [Next]_vars PROVE Inv'
  OBVIOUS
<1> USE DEF Inv
<1>t. TypeOK
  OBVIOUS
<1>1. CASE Run
  <2>1. regs' \in Context /\ UNCHANGED <<links, saved, cr3, hung, memory>>
    BY <1>1, <1>t DEF Run, Context, TypeOK
  <2>2. TypeOK'
    BY <2>1, <1>t DEF TypeOK, links, memory
  <2> QED BY <2>1, <2>2 DEF links, RingClosed, Ring
<1>2. CASE SysExec
  <2>1. PICK t \in Task : LoadProcess(t)
    BY <1>2 DEF SysExec
  <2>2. /\ RingClosed' /\ loaded' = loaded \cup {t}
        /\ next' \in [Task -> Link] /\ prev' \in [Task -> Link]
        /\ \A u \in loaded' : next'[u] \in loaded' /\ prev'[u] \in loaded'
    BY <2>1, LoadKeepsRing
  <2>3. saved' \in [Task -> Context]
    <3>1. EntryContext(t) \in Context
      BY TaskingAssumption DEF EntryContext, Context
    <3> QED BY <2>1, <3>1, <1>t DEF LoadProcess, TypeOK
  <2>4. UNCHANGED <<current_task, killed, cr3, regs, hung>>
    BY <1>2, <2>1 DEF SysExec, LoadProcess
  <2>5. exhausted' \in BOOLEAN /\ mode' \in {"user", "overdraw", "fault"}
    BY <1>2, <1>t, MemoryTyped DEF SysExec
  <2>6. TypeOK'
    BY <2>2, <2>3, <2>4, <2>5, <1>t DEF TypeOK
  <2> QED BY <2>2, <2>6
<1>3. CASE NewIrq0
  <2>1. SwitchTask /\ UNCHANGED <<loaded, next, prev, killed, hung, memory>>
    BY <1>3 DEF NewIrq0
  <2>2. RingClosed'
    BY <2>1, SwitchKeepsRing
  <2>3. TypeOK'
    <3>1. CASE next[current_task] = current_task
      BY <3>1, <2>1, <1>t DEF SwitchTask, TypeOK, memory
    <3>2. CASE next[current_task] # current_task
      <4> DEFINE n == next[current_task]
      <4>1. n \in loaded /\ n \in Task /\ current_task \in Task
        BY <1>t DEF TypeOK
      <4>2. /\ saved' = [saved EXCEPT ![current_task] = regs]
            /\ regs' = saved[n] /\ current_task' = n /\ cr3' = n
        BY <3>2, <2>1 DEF SwitchTask
      <4>3. saved' \in [Task -> Context] /\ regs' \in Context
        BY <4>1, <4>2, <1>t DEF TypeOK
      <4> QED BY <2>1, <4>1, <4>2, <4>3, <1>t DEF TypeOK, memory
    <3> QED BY <3>1, <3>2
  <2> QED BY <2>2, <2>3
<1>4. CASE Exception
  <2>1. KillCurrent /\ UNCHANGED <<saved, cr3, regs, memory>>
    BY <1>4 DEF Exception, Panic
  <2>2. TypeOK'
    BY <2>1, KillKeepsRing, <1>t DEF TypeOK, memory
  <2> QED BY <2>1, <2>2, KillKeepsRing
<1>5. CASE KernelPanic
  <2>1. /\ KillCurrent /\ UNCHANGED <<saved, cr3, regs, exhausted>>
        /\ mode' = IF mode = "overdraw" THEN "user" ELSE mode
    BY <1>5 DEF KernelPanic, Panic
  <2>2. TypeOK'
    BY <2>1, KillKeepsRing, <1>t DEF TypeOK
  <2> QED BY <2>1, <2>2, KillKeepsRing
<1>6. CASE PageFault
  <2>1. /\ UNCHANGED <<links, saved, regs, cr3, hung>>
        /\ exhausted' \in BOOLEAN /\ mode' \in {"user", "overdraw", "fault"}
    BY <1>6, <1>t, MemoryTyped DEF PageFault
  <2>2. TypeOK'
    BY <2>1, <1>t DEF TypeOK, links
  <2> QED BY <2>1, <2>2 DEF links, RingClosed, Ring
<1>7. CASE UNCHANGED vars
  <2>1. TypeOK'
    BY <1>7, <1>t DEF TypeOK, vars, links, memory
  <2> QED BY <1>7, <2>1 DEF vars, links, RingClosed, Ring
<1> QED BY <1>1, <1>2, <1>3, <1>4, <1>5, <1>6, <1>7 DEF Next

(* The inductive invariant of the ring: the types, and a task of the ring  *)
(* leads back to current_task.                                             *)
THEOREM InvHolds == Spec => []Inv
  BY InitInv, StepInv, PTL DEF Spec

(* Every variable keeps its type, and the links of a loaded task_t lead to *)
(* loaded ones: switch_task and KillTask never follow a pointer into an    *)
(* uninitialised structure, for any set of tasks.                          *)
THEOREM TypeCorrect == Spec => []TypeOK
<1>1. Inv => TypeOK
  BY DEF Inv
<1> QED BY <1>1, InvHolds, PTL

(* The loop of LoadProcess that looks for the last task always terminates: *)
(* the ready queue is a ring through current_task, even after kills that   *)
(* followed a stale prev.                                                  *)
THEOREM RingAlwaysClosed == Spec => []RingClosed
<1>1. Inv => RingClosed
  BY DEF Inv
<1> QED BY <1>1, InvHolds, PTL

-----------------------------------------------------------------------------
(* What every step does to the ready queue: it adds at most the task that  *)
(* is being loaded.                                                        *)
LEMMA RingStep ==
  ASSUME Inv, [Next]_vars
  PROVE  Ring' \subseteq Ring \cup (loaded' \ loaded)
<1>1. CASE SysExec
  <2>1. PICK t \in Task : LoadProcess(t)
    BY <1>1 DEF SysExec
  <2>2. Ring' = Ring \cup {t} /\ t \in loaded' \ loaded
    BY <2>1, LoadKeepsRing DEF LoadProcess
  <2> QED BY <2>2
<1>2. CASE NewIrq0
  BY <1>2, SwitchKeepsRing DEF NewIrq0
<1>3. CASE Exception \/ KernelPanic
  BY <1>3, KillKeepsRing DEF Exception, KernelPanic, Panic
<1>4. CASE Run \/ PageFault \/ UNCHANGED vars
  BY <1>4 DEF Run, PageFault, vars, links, Ring
<1> QED BY <1>1, <1>2, <1>3, <1>4 DEF Next

(* A loaded task that has left the ready queue never comes back to it.     *)
THEOREM NoTaskRequeued == Spec => NeverRequeued
<1>1. Inv /\ [Next]_vars => [\A t \in loaded \ Ring : t \notin Ring']_vars
  BY RingStep
<1> QED BY <1>1, InvHolds, PTL DEF Spec, NeverRequeued

-----------------------------------------------------------------------------
(* Until the first kill the trap contents are where the programs that can  *)
(* reach them put them, and the stack of frames has not been overdrawn     *)
(* unless the kernel is about to panic over it, or has no task to kill:    *)
(* this strengthens Coherent to an inductive formula.                      *)
TrapsAreOwn ==
  killed = {} =>
    /\ regs.val = Trap => regs.of \in Faulty
    /\ \A t \in Task : saved[t].val = Trap => t \in Faulty
    /\ exhausted => mode = "overdraw" \/ hung

CoherentInv == Inv /\ Coherent /\ TrapsAreOwn

LEMMA InitCoherent == Init => CoherentInv
<1> SUFFICES ASSUME Init PROVE CoherentInv
  OBVIOUS
<1>1. Boot \in Task /\ Entry # Trap
  BY TaskingAssumption
<1>2. Inv
  BY InitInv
<1>3. Coherent
  <2>1. Ring = {Boot}
    <3>1. Closed({Boot}, next) /\ current_task = Boot
      BY <1>1 DEF Init, Closed
    <3> QED BY <3>1, <1>1, ReachLeast DEF Ring
  <2> QED BY <2>1 DEF Init, Coherent, EntryContext
<1>4. TrapsAreOwn
  BY <1>1 DEF Init, TrapsAreOwn, EntryContext
<1> QED BY <1>2, <1>3, <1>4 DEF CoherentInv

(* A panic kills the current task, or hangs with no change to the queue.   *)
LEMMA PanicKills ==
  ASSUME Panic, killed = {}
  PROVE  /\ killed' \subseteq {current_task}
         /\ killed' = {} => hung' = TRUE /\ UNCHANGED <<links, saved, cr3>>
<1>1. CASE next[current_task] = current_task
  BY <1>1 DEF Panic, KillCurrent, links
<1>2. CASE next[current_task] # current_task
  BY <1>2 DEF Panic, KillCurrent, KillTask
<1> QED BY <1>1, <1>2

(* The first kill, and with it the end of what Coherent promises.          *)
LEMMA FaultKills ==
  ASSUME CoherentInv, Exception \/ KernelPanic, killed = {}
  PROVE  /\ killed' = {} => hung' = TRUE /\ UNCHANGED <<links, saved, regs, cr3>>
         /\ killed' \subseteq {cr3}
         /\ mode = "user" => cr3 \in Faulty
<1>1. /\ cr3 = current_task /\ regs.of = current_task
      /\ regs.val = Trap => regs.of \in Faulty
  BY DEF CoherentInv, Coherent, TrapsAreOwn
<1>2. Panic /\ UNCHANGED regs
  BY DEF Exception, KernelPanic
<1>3. mode = "user" => cr3 \in Faulty
  BY <1>1 DEF Exception, KernelPanic, Trapped, Foreign
<1> QED BY <1>1, <1>2, <1>3, PanicKills

LEMMA KilledGrows ==
  ASSUME [Next]_vars
  PROVE  killed \subseteq killed'
<1>1. CASE Exception \/ KernelPanic
  BY <1>1 DEF Exception, KernelPanic, Panic, KillCurrent, KillTask, links
<1>2. CASE ~(Exception \/ KernelPanic)
  BY <1>2 DEF Next, Run, SysExec, LoadProcess, PageFault, NewIrq0, vars, links
<1> QED BY <1>1, <1>2

LEMMA StepCoherent == CoherentInv /\ [Next]_vars => CoherentInv'
<1> SUFFICES ASSUME CoherentInv, [Next]_vars, killed' = {}
             PROVE  Coherent' /\ TrapsAreOwn'
  BY StepInv DEF CoherentInv, Coherent, TrapsAreOwn
<1>t. Inv /\ TypeOK
  BY DEF CoherentInv, Inv
<1>k. killed = {}
  BY KilledGrows
<1>c. /\ Ring = loaded /\ cr3 = current_task /\ regs.of = current_task
      /\ \A t \in Task : saved[t].of = t
      /\ regs.val = Trap => regs.of \in Faulty
      /\ \A t \in Task : saved[t].val = Trap => t \in Faulty
      /\ exhausted => mode = "overdraw" \/ hung
  BY <1>k DEF CoherentInv, Coherent, TrapsAreOwn
<1>1. CASE Run
  <2>1. PICK v \in Val : /\ v = Trap => Foreign \/ exhausted \/ cr3 \in Faulty
                         /\ regs' = [of |-> cr3, val |-> v]
    BY <1>1 DEF Run
  <2>2. UNCHANGED <<links, saved, cr3, exhausted>> /\ ~exhausted
    BY <1>1, <1>c DEF Run, InUser, memory
  <2> QED BY <2>1, <2>2, <1>c DEF Coherent, TrapsAreOwn, Foreign, links, Ring
<1>2. CASE SysExec
  <2>1. PICK t \in Task : LoadProcess(t)
    BY <1>2 DEF SysExec
  <2>2. Ring' = Ring \cup {t} /\ loaded' = loaded \cup {t}
    BY <2>1, <1>t, LoadKeepsRing
  <2>3. /\ saved' = [saved EXCEPT ![t] = EntryContext(t)]
        /\ UNCHANGED <<current_task, cr3, regs>>
    BY <1>2, <2>1 DEF SysExec, LoadProcess
  <2>5. exhausted' => mode' = "overdraw"
    <3>1. ~exhausted /\ (Lasts \/ Overdraw \/ OutOfMap)
      BY <1>2, <1>c DEF SysExec, InUser
    <3> QED BY <3>1 DEF Lasts, Overdraw, OutOfMap, memory
  <2>4. \A u \in Task : saved'[u] = IF u = t THEN EntryContext(t) ELSE saved[u]
    BY <2>3, <1>t DEF TypeOK
  <2> QED BY <2>2, <2>3, <2>4, <2>5, <1>c, TaskingAssumption
          DEF Coherent, TrapsAreOwn, EntryContext
<1>3. CASE NewIrq0
  <2>1. SwitchTask /\ UNCHANGED <<loaded, next, hung, mode, exhausted>>
    BY <1>3 DEF NewIrq0, memory
  <2>2. Ring' = Ring
    BY <2>1, <1>t, SwitchKeepsRing
  <2>3. CASE next[current_task] = current_task
    BY <2>1, <2>2, <2>3, <1>c DEF SwitchTask, Coherent, TrapsAreOwn
  <2>4. CASE next[current_task] # current_task
    <3> DEFINE n == next[current_task]
    <3>1. n \in Task /\ current_task \in Task
      BY <1>t DEF TypeOK
    <3>2. /\ saved' = [saved EXCEPT ![current_task] = regs]
          /\ regs' = saved[n] /\ current_task' = n /\ cr3' = n
      BY <2>1, <2>4 DEF SwitchTask
    <3>3. \A u \in Task : saved'[u] = IF u = current_task THEN regs ELSE saved[u]
      BY <3>2, <1>t DEF TypeOK
    <3> QED BY <2>1, <2>2, <3>1, <3>2, <3>3, <1>c DEF Coherent, TrapsAreOwn
  <2> QED BY <2>3, <2>4
<1>4. CASE Exception \/ KernelPanic
  BY <1>4, <1>k, <1>c, FaultKills DEF Coherent, TrapsAreOwn, links, Ring
<1>5. CASE PageFault
  BY <1>5, <1>c DEF PageFault, Overdraw, links, Coherent, TrapsAreOwn, Ring
<1>6. CASE UNCHANGED vars
  BY <1>6, <1>c DEF vars, links, memory, Coherent, TrapsAreOwn, Ring
<1> QED BY <1>1, <1>2, <1>3, <1>4, <1>5, <1>6 DEF Next

(* The inductive invariant of queue and registers before the first kill.   *)
THEOREM CoherentInvHolds == Spec => []CoherentInv
  BY InitCoherent, StepCoherent, PTL DEF Spec

(* Until a task is killed the queue holds all that was loaded, the         *)
(* processor runs current_task in its own address space, and every saved   *)
(* register file belongs to its owner.                                     *)
THEOREM CoherentUntilKill == Spec => []Coherent
<1>1. CoherentInv => Coherent
  BY DEF CoherentInv
<1> QED BY <1>1, CoherentInvHolds, PTL

(* The first task to be killed is the one the kernel was serving, and      *)
(* unless the kernel had run out of memory for it, its own program raised  *)
(* the exception.                                                          *)
THEOREM FirstVictim == Spec => FirstKillDeserved
<1> DEFINE Deserved == killed = {} =>
             /\ killed' \subseteq {cr3}
             /\ mode = "user" => killed' \subseteq Faulty
<1>1. CoherentInv /\ [Next]_vars => [Deserved]_vars
  <2> SUFFICES ASSUME CoherentInv, Next, killed = {} PROVE Deserved
    OBVIOUS
  <2>1. CASE Exception \/ KernelPanic
    BY <2>1, FaultKills
  <2>2. CASE ~(Exception \/ KernelPanic)
    BY <2>2 DEF Next, Run, SysExec, LoadProcess, PageFault, NewIrq0, links
  <2> QED BY <2>1, <2>2
<1> QED BY <1>1, CoherentInvHolds, PTL DEF Spec, FirstKillDeserved

-----------------------------------------------------------------------------
(***************************************************************************)
(* The refinement of Multitasking.  As long as nothing is killed, some     *)
(* sequence lists the ring from current_task on, without repetition; Queue *)
(* is that sequence.                                                       *)
(***************************************************************************)

(* Every set of numbers has a least one, since the order of the numbers is *)
(* well-founded.                                                           *)
LEMMA LeastNumber ==
  ASSUME NEW N \in SUBSET Nat, N # {}
  PROVE  \E k \in N : \A l \in N : k <= l
<1> DEFINE Below == OpToRel(<, Nat)
<1>1. IsWellFoundedOn(Below, Nat)
  BY NatLessThanWellFounded
<1>2. \A l, k \in Nat : l < k => <<l, k>> \in Below
  BY DEF OpToRel
<1> HIDE DEF Below
<1>3. PICK k \in N : \A l \in N : ~ (<<l, k>> \in Below)
  BY <1>1, WFMin
<1>4. \A l \in N : k <= l
  <2> SUFFICES ASSUME NEW l \in N PROVE k <= l
    OBVIOUS
  <2>1. k \in Nat /\ l \in Nat /\ ~ (l < k)
    BY <1>2, <1>3
  <2> QED BY <2>1
<1> QED BY <1>4, Zenon

Lists(q) ==
  /\ q \in Seq(Task) /\ q # <<>>
  /\ q[1] = current_task
  /\ \A i \in 1..Len(q) - 1 : next[q[i]] = q[i + 1]
  /\ next[q[Len(q)]] = current_task
  /\ \A i, j \in 1..Len(q) : q[i] = q[j] => i = j
  /\ Ring = {q[i] : i \in 1..Len(q)}

Listed == \E q : Lists(q)

Untouched == \A t \in Task \ loaded : saved[t] = EntryContext(t)

LEMMA QueueListed ==
  ASSUME NEW q, Lists(q)
  PROVE  Queue = q
<1> DEFINE n == Len(q)
           Def(f) == [i \in 1..n |-> IF i = 1 THEN current_task ELSE next[f[i - 1]]]
<1>1. /\ n \in Nat \ {0} /\ q \in [1..n -> Task]
      /\ \A i \in 1..n - 1 : next[q[i]] = q[i + 1]
      /\ \A i, j \in 1..n : q[i] = q[j] => i = j
      /\ q[1] = current_task
      /\ Ring = {q[i] : i \in 1..n}
  BY EmptySeq, LenProperties DEF Lists
<1>2. Cardinality(Ring) = n
  <2>1. q \in Bijection(1..n, Ring)
    BY <1>1 DEF Bijection, Injection, Surjection, IsInjective
  <2> QED BY <1>1, <2>1, FS_CountingElements DEF ExistsBijection
<1>3. Queue = CHOOSE f : f = Def(f)
  BY <1>2 DEF Queue
<1>4. q = Def(q)
  BY <1>1
<1>5. PICK f : f = Def(f) /\ Queue = f
  BY <1>3, <1>4
<1>6. \A i \in 1..n : f[i] = q[i]
  <2> SUFFICES ASSUME {i \in 1..n : f[i] # q[i]} # {} PROVE FALSE
    OBVIOUS
  <2>1. PICK i \in 1..n : f[i] # q[i] /\ \A j \in 1..n : f[j] # q[j] => i <= j
    <3>1. {k \in 1..n : f[k] # q[k]} \in SUBSET Nat
      BY <1>1
    <3> QED BY <3>1, LeastNumber
  <2>2. i # 1
    BY <1>1, <1>5, <2>1
  <2>3. i - 1 \in 1..n /\ f[i - 1] = q[i - 1]
    BY <1>1, <2>1, <2>2
  <2> QED BY <1>1, <1>5, <2>1, <2>2, <2>3
<1>7. f = [i \in 1..n |-> f[i]]
  BY <1>5
<1> QED BY <1>1, <1>5, <1>6, <1>7

QueueIsListed == \A q : Lists(q) => Queue = q

LEMMA QueueUnique == QueueIsListed
  BY QueueListed DEF QueueIsListed

LEMMA ListInit ==
  ASSUME Init
  PROVE  Lists(<<Boot>>) /\ Untouched
<1>1. Boot \in Task /\ current_task = Boot /\ next[Boot] = Boot
  BY TaskingAssumption DEF Init
<1>2. Ring = {Boot}
  <2>1. Closed({Boot}, next)
    BY <1>1 DEF Closed
  <2> QED BY <1>1, <2>1, ReachLeast DEF Ring
<1>3. /\ <<Boot>> \in Seq(Task) /\ Len(<<Boot>>) = 1
      /\ <<Boot>>[1] = Boot /\ <<Boot>> # <<>>
  BY <1>1
<1>4. Lists(<<Boot>>)
  BY <1>1, <1>2, <1>3 DEF Lists
<1>5. Untouched
  BY DEF Init, Untouched
<1> QED BY <1>4, <1>5

(* LoadProcess appends the new task to the list.                           *)
LEMMA ListLoad ==
  ASSUME CoherentInv, NEW q, Lists(q), NEW t \in Task, LoadProcess(t)
  PROVE  Lists(Append(q, t))'
<1> DEFINE n == Len(q)
           r == Append(q, t)
<1>1. /\ n \in Nat \ {0} /\ q \in [1..n -> Task]
      /\ \A i \in 1..n - 1 : next[q[i]] = q[i + 1]
      /\ next[q[n]] = current_task
      /\ \A i, j \in 1..n : q[i] = q[j] => i = j
      /\ q[1] = current_task
      /\ Ring = {q[i] : i \in 1..n}
  BY EmptySeq, LenProperties DEF Lists
<1>2. /\ r \in Seq(Task) /\ Len(r) = n + 1 /\ r # <<>>
      /\ \A i \in 1..n : r[i] = q[i]
      /\ r[n + 1] = t
  BY AppendProperties, EmptySeq DEF Lists
<1>3. Ring \subseteq loaded /\ t \notin Ring
  BY RingLoaded DEF CoherentInv, Inv, LoadProcess
<1>4. Last = q[n]
  <2>1. \A i \in 1..n - 1 : next[q[i]] # current_task
    BY <1>1
  <2>2. \A u \in Ring : next[u] = current_task => u = q[n]
    BY <1>1, <2>1
  <2> QED BY <2>2, LastTask DEF CoherentInv
<1>5. /\ \A u \in Task : next'[u] = IF u = q[n] THEN t
                                    ELSE IF u = t THEN current_task ELSE next[u]
      /\ current_task' = current_task
  <2>1. next \in [Task -> Link] /\ q[n] \in Task /\ q[n] # t
    BY <1>1, <1>3 DEF CoherentInv, Inv, TypeOK
  <2> QED BY <1>4, <2>1 DEF LoadProcess
<1>6. Ring' = Ring \cup {t}
  BY LoadKeepsRing DEF CoherentInv
<1> HIDE DEF r
<1>7. \A i \in 1..Len(r) - 1 : next'[r[i]] = r[i + 1]
  <2> SUFFICES ASSUME NEW i \in 1..n PROVE next'[r[i]] = r[i + 1]
    BY <1>1, <1>2
  <2>1. CASE i = n
    BY <2>1, <1>1, <1>2, <1>5
  <2>2. CASE i # n
    <3>1. i \in 1..n - 1 /\ i + 1 \in 1..n /\ q[i] # q[n] /\ q[i] # t /\ q[i] \in Task
      BY <2>2, <1>1, <1>3
    <3> QED BY <3>1, <1>1, <1>2, <1>5
  <2> QED BY <2>1, <2>2
<1>8. next'[r[Len(r)]] = current_task'
  <2>1. q[n] # t
    BY <1>1, <1>3
  <2> QED BY <2>1, <1>1, <1>2, <1>5
<1>9. \A i, j \in 1..Len(r) : r[i] = r[j] => i = j
  <2>1. \A i \in 1..n : q[i] # t
    BY <1>1, <1>3
  <2>2. \A i \in 1..Len(r) : i \in 1..n \/ i = n + 1
    BY <1>1, <1>2
  <2> QED BY <2>1, <2>2, <1>1, <1>2
<1>10. Ring' = {r[i] : i \in 1..Len(r)}
  <2>1. \A i \in 1..Len(r) : i \in 1..n \/ i = n + 1
    BY <1>1, <1>2
  <2>2. n + 1 \in 1..Len(r) /\ 1..n \subseteq 1..Len(r)
    BY <1>1, <1>2
  <2> QED BY <2>1, <2>2, <1>1, <1>2, <1>6
<1>11. r[1] = current_task'
  BY <1>1, <1>2, <1>5
<1> QED BY <1>2, <1>7, <1>8, <1>9, <1>10, <1>11 DEF Lists, r

(* A switch moves the first task of the list to its end.                   *)
LEMMA ListSwitch ==
  ASSUME CoherentInv, NEW q, Lists(q), SwitchTask, next' = next,
         next[current_task] # current_task
  PROVE  /\ Len(q) > 1
         /\ Lists(Append(Tail(q), Head(q)))'
<1> DEFINE n == Len(q)
           r == Append(Tail(q), Head(q))
<1>1. /\ n \in Nat \ {0} /\ q \in [1..n -> Task]
      /\ \A i \in 1..n - 1 : next[q[i]] = q[i + 1]
      /\ next[q[n]] = current_task
      /\ \A i, j \in 1..n : q[i] = q[j] => i = j
      /\ q[1] = current_task
      /\ Ring = {q[i] : i \in 1..n}
      /\ q \in Seq(Task) /\ q # <<>>
  BY EmptySeq, LenProperties DEF Lists
<1>2. n > 1
  BY <1>1
<1>n. n \in Nat /\ \A i \in 1..n : i # n => i \in 1..n - 1 /\ i + 1 \in 1..n /\ i + 1 # 1
  <2>1. n \in Nat
    BY <1>1
  <2> HIDE DEF n
  <2> QED BY <2>1
<1>3. /\ Tail(q) \in Seq(Task) /\ Len(Tail(q)) = n - 1
      /\ \A i \in 1..n - 1 : Tail(q)[i] = q[i + 1]
      /\ Head(q) = q[1] /\ Head(q) \in Task
  BY <1>1, HeadTailProperties
<1>4. /\ r \in Seq(Task) /\ Len(r) = n /\ r # <<>>
      /\ \A i \in 1..n - 1 : r[i] = q[i + 1]
      /\ r[n] = q[1]
  <2>1. /\ r \in Seq(Task) /\ Len(r) = (n - 1) + 1
        /\ \A i \in 1..n - 1 : r[i] = Tail(q)[i]
        /\ r[(n - 1) + 1] = Head(q)
    BY <1>3, AppendProperties
  <2> QED BY <1>1, <1>3, <2>1, EmptySeq
<1> HIDE DEF r
<1>5. current_task' = next[current_task]
  BY DEF SwitchTask
<1>6. Ring' = Ring
  BY SwitchKeepsRing DEF CoherentInv
<1>7. r[1] = current_task'
  BY <1>1, <1>2, <1>4, <1>5
<1>8. \A i \in 1..n - 1 : next'[r[i]] = r[i + 1]
  <2> SUFFICES ASSUME NEW i \in 1..n - 1 PROVE next[r[i]] = r[i + 1]
    OBVIOUS
  <2>1. CASE i = n - 1
    BY <2>1, <1>1, <1>2, <1>4
  <2>2. CASE i # n - 1
    <3>1. i + 1 \in 1..n - 1
      <4>1. n \in Nat
        BY <1>1
      <4> HIDE DEF n
      <4> QED BY <2>2, <4>1
    <3> QED BY <3>1, <1>1, <1>4
  <2> QED BY <2>1, <2>2
<1>9. next'[r[n]] = current_task'
  BY <1>1, <1>4, <1>5
<1>10. \A i, j \in 1..n : r[i] = r[j] => i = j
  <2> SUFFICES ASSUME NEW i \in 1..n, NEW j \in 1..n, r[i] = r[j] PROVE i = j
    OBVIOUS
  <2>1. CASE i = n /\ j # n
    BY <2>1, <1>n, <1>1, <1>4
  <2>2. CASE i # n /\ j = n
    BY <2>2, <1>n, <1>1, <1>4
  <2>3. CASE i # n /\ j # n
    <3>1. q[i + 1] = q[j + 1] /\ i + 1 \in 1..n /\ j + 1 \in 1..n
      BY <2>3, <1>n, <1>4
    <3>2. i + 1 = j + 1
      BY <3>1, <1>1
    <3> QED BY <3>2
  <2> QED BY <2>1, <2>2, <2>3
<1>11. Ring = {r[i] : i \in 1..n}
  <2>1. \A i \in 1..n : \E j \in 1..n : r[i] = q[j]
    <3> SUFFICES ASSUME NEW i \in 1..n PROVE \E j \in 1..n : r[i] = q[j]
      OBVIOUS
    <3>1. CASE i = n
      <4>1. r[i] = q[1] /\ 1 \in 1..n
        BY <3>1, <1>2, <1>n, <1>4
      <4> QED BY <4>1
    <3>2. CASE i # n
      BY <3>2, <1>n, <1>4
    <3> QED BY <3>1, <3>2
  <2>2. \A j \in 1..n : \E i \in 1..n : q[j] = r[i]
    <3> SUFFICES ASSUME NEW j \in 1..n PROVE \E i \in 1..n : q[j] = r[i]
      OBVIOUS
    <3>1. CASE j = 1
      BY <3>1, <1>1, <1>4
    <3>2. CASE j # 1
      <4>1. j - 1 \in 1..n - 1 /\ j - 1 \in 1..n /\ (j - 1) + 1 = j
        BY <3>2, <1>1
      <4> QED BY <4>1, <1>4
    <3> QED BY <3>1, <3>2
  <2>3. \A x : x \in {q[j] : j \in 1..n} <=> x \in {r[i] : i \in 1..n}
    BY <2>1, <2>2
  <2>4. {q[j] : j \in 1..n} = {r[i] : i \in 1..n}
    BY <2>3
  <2> QED BY <2>4, <1>1
<1> QED BY <1>2, <1>4, <1>6, <1>7, <1>8, <1>9, <1>10, <1>11 DEF Lists, r

-----------------------------------------------------------------------------
(* A task_t that no LoadProcess has filled in is as it was; the abstract   *)
(* registers of a process not yet started are therefore its initial ones.  *)
QueueInv == CoherentInv /\ Untouched /\ (killed = {} => Listed)

(* A step of Tasking and the step of Multitasking it stands for.           *)
Simulated == Listed' /\ (Promise!Next \/ UNCHANGED Promise!vars)

LEMMA ListedQueue ==
  ASSUME NEW q, Lists(q)
  PROVE  /\ Queue = q /\ Len(Queue) = Len(q)
         /\ Head(Queue) = current_task
         /\ Promise!Queued = Ring
<1>1. Queue = q
  BY QueueListed
<1>2. q \in Seq(Task) /\ q # <<>> /\ q[1] = current_task
  BY DEF Lists
<1>3. Head(q) = current_task /\ DOMAIN q = 1..Len(q)
  BY <1>2, HeadTailProperties, LenProperties
<1> QED BY <1>1, <1>3 DEF Promise!Queued, Lists

LEMMA RunSimulated ==
  ASSUME QueueInv, killed = {}, Run
  PROVE  Simulated
<1>1. PICK q : Lists(q)
  BY DEF QueueInv, Listed
<1>2. PICK v \in Val : regs' = [of |-> cr3, val |-> v]
  BY DEF Run
<1>3. UNCHANGED <<links, saved, cr3, hung, memory>>
  BY DEF Run
<1>4. Lists(q)'
  BY <1>1, <1>3 DEF Lists, links, Ring
<1>5. Queue' = Queue
  BY <1>1, <1>3, QueueListed DEF Queue, links, Ring
<1>6. /\ regs' \in Context /\ current_task \in Task
      /\ current_task' = current_task /\ saved' = saved
  BY <1>2, <1>3 DEF QueueInv, CoherentInv, Inv, TypeOK, Context, links
<1>7. Registers' = [Registers EXCEPT ![current_task] = regs']
  BY <1>6, Zenon DEF Registers
<1>8. Promise!Run
  BY <1>1, <1>5, <1>6, <1>7, ListedQueue DEF Promise!Run
<1> QED BY <1>4, <1>8 DEF Simulated, Listed, Promise!Next

LEMMA ExecSimulated ==
  ASSUME QueueInv, killed = {}, SysExec
  PROVE  Simulated
<1>1. PICK q : Lists(q)
  BY DEF QueueInv, Listed
<1>2. PICK t \in Task : LoadProcess(t)
  BY DEF SysExec
<1>3. Lists(Append(q, t))'
  BY <1>1, <1>2, ListLoad DEF QueueInv
<1>4. Queue' = Append(Queue, t)
  <2>1. QueueIsListed'
    BY QueueUnique, PTL
  <2> QED BY <2>1, <1>1, <1>3, QueueListed DEF QueueIsListed
<1>5. saved' = saved /\ t \notin Ring
  <2>1. t \notin loaded /\ saved' = [saved EXCEPT ![t] = EntryContext(t)]
    BY <1>2 DEF LoadProcess
  <2>2. saved[t] = EntryContext(t) /\ saved \in [Task -> Context]
    BY <2>1 DEF QueueInv, Untouched, CoherentInv, Inv, TypeOK
  <2>3. Ring \subseteq loaded
    BY RingLoaded DEF QueueInv, CoherentInv, Inv
  <2> QED BY <2>1, <2>2, <2>3
<1>6. Registers' = Registers
  BY <1>2, <1>5 DEF SysExec, LoadProcess, Registers
<1>7. Promise!Exec
  BY <1>1, <1>4, <1>5, <1>6, ListedQueue DEF Promise!Exec
<1> QED BY <1>3, <1>7 DEF Simulated, Listed, Promise!Next

LEMMA TimerSimulated ==
  ASSUME QueueInv, killed = {}, NewIrq0
  PROVE  Simulated
<1>1. PICK q : Lists(q)
  BY DEF QueueInv, Listed
<1>2. SwitchTask /\ UNCHANGED <<loaded, next, prev, killed, hung, memory>>
  BY DEF NewIrq0
<1>3. CASE next[current_task] = current_task
  <2>1. UNCHANGED <<saved, regs, cr3, current_task, next>>
    BY <1>2, <1>3 DEF SwitchTask
  <2>2. Lists(q)'
    BY <1>1, <2>1 DEF Lists, Ring
  <2>3. Queue' = Queue /\ Registers' = Registers
    BY <2>1 DEF Queue, Ring, Registers
  <2> QED BY <2>2, <2>3 DEF Simulated, Listed, Promise!vars
<1>4. CASE next[current_task] # current_task
  <2>1. Len(q) > 1 /\ Lists(Append(Tail(q), Head(q)))'
    BY <1>1, <1>2, <1>4, ListSwitch DEF QueueInv
  <2>2. Queue' = Append(Tail(Queue), Head(Queue)) /\ Len(Queue) > 1
    <3>1. QueueIsListed'
      BY QueueUnique, PTL
    <3>2. Queue = q
      BY <1>1, QueueListed
    <3> QED BY <2>1, <3>1, <3>2 DEF QueueIsListed
  <2>3. Registers' = Registers
    <3> DEFINE n == next[current_task]
    <3>1. saved \in [Task -> Context] /\ current_task \in Task /\ n \in Task
      BY DEF QueueInv, CoherentInv, Inv, TypeOK
    <3>2. /\ saved' = [saved EXCEPT ![current_task] = regs]
          /\ regs' = saved[n] /\ current_task' = n
      BY <1>2, <1>4 DEF SwitchTask
    <3>3. \A t \in Task : Registers'[t] = Registers[t]
      BY <3>1, <3>2, <1>4 DEF Registers
    <3> QED BY <3>3 DEF Registers
  <2>4. Promise!Preempt
    BY <2>2, <2>3 DEF Promise!Preempt
  <2> QED BY <2>1, <2>4 DEF Simulated, Listed, Promise!Next
<1> QED BY <1>3, <1>4

LEMMA StepSimulated ==
  ASSUME QueueInv, [Next]_vars, killed' = {}
  PROVE  Simulated
<1>k. killed = {}
  BY KilledGrows
<1>1. PICK q : Lists(q)
  BY <1>k DEF QueueInv, Listed
<1>2. CASE UNCHANGED <<links, saved, regs, cr3>>
  <2>1. Lists(q)'
    BY <1>1, <1>2 DEF Lists, links, Ring
  <2>2. Queue' = Queue /\ Registers' = Registers
    BY <1>2 DEF Queue, Ring, Registers, links
  <2> QED BY <2>1, <2>2 DEF Simulated, Listed, Promise!vars
<1>3. CASE Exception \/ KernelPanic
  BY <1>2, <1>3, <1>k, FaultKills DEF QueueInv
<1>4. CASE PageFault \/ UNCHANGED vars
  BY <1>2, <1>4 DEF PageFault, vars
<1> QED BY <1>3, <1>4, <1>k, RunSimulated, ExecSimulated, TimerSimulated DEF Next

LEMMA InitQueue == Init => QueueInv
  BY InitCoherent, ListInit DEF QueueInv, Listed

LEMMA StepQueue == QueueInv /\ [Next]_vars => QueueInv'
<1> SUFFICES ASSUME QueueInv, [Next]_vars PROVE QueueInv'
  OBVIOUS
<1>1. CoherentInv'
  BY StepCoherent DEF QueueInv
<1>2. killed' = {} => Listed'
  BY StepSimulated DEF Simulated
<1>3. Untouched'
  <2>1. /\ saved \in [Task -> Context] /\ current_task \in loaded
        /\ \A t \in Task \ loaded : saved[t] = EntryContext(t)
    BY DEF QueueInv, CoherentInv, Inv, TypeOK, Untouched
  <2>2. CASE SysExec
    BY <2>1, <2>2 DEF SysExec, LoadProcess, Untouched, EntryContext
  <2>3. CASE NewIrq0
    BY <2>1, <2>3 DEF NewIrq0, SwitchTask, Untouched, EntryContext
  <2>4. CASE Run \/ PageFault \/ Exception \/ KernelPanic \/ UNCHANGED vars
    BY <2>1, <2>4 DEF Run, PageFault, Exception, KernelPanic, Panic, KillCurrent, vars, links,
                      Untouched, EntryContext
  <2> QED BY <2>2, <2>3, <2>4 DEF Next
<1> QED BY <1>1, <1>2, <1>3 DEF QueueInv

(* The invariant of the refinement: until the first kill there is a        *)
(* sequence that lists the ring, and a task_t not yet loaded is unwritten. *)
THEOREM QueueInvHolds == Spec => []QueueInv
  BY InitQueue, StepQueue, PTL DEF Spec

(* The kernel starts as Multitasking does.                                 *)
LEMMA InitSimulated == Init => Promise!Init
<1> SUFFICES ASSUME Init PROVE Promise!Init
  OBVIOUS
<1>1. Queue = <<Boot>>
  BY ListInit, QueueListed
<1>2. Registers = [t \in Task |-> EntryContext(t)]
  BY TaskingAssumption DEF Init, Registers
<1> QED BY <1>1, <1>2 DEF Promise!Init

(* As long as no task has been killed, each step of the kernel is a step   *)
(* of preemptive multitasking or changes nothing there: the ring of task_t *)
(* structures is a first-come first-served queue, and no step changes the  *)
(* registers of a process that does not have the processor.                *)
MultitaskingUntilKill ==
  Promise!Init /\ [][killed' = {} => Promise!Next \/ UNCHANGED Promise!vars]_vars

(* For any set of tasks, and of faulty ones among them, tasking.c is       *)
(* preemptive multitasking until it first kills a task.                    *)
THEOREM ImplementsUntilKill == Spec => MultitaskingUntilKill
<1>1. QueueInv /\ [Next]_vars
        => [killed' = {} => Promise!Next \/ UNCHANGED Promise!vars]_vars
  BY StepSimulated DEF Simulated
<1> QED BY <1>1, InitSimulated, QueueInvHolds, PTL DEF Spec, MultitaskingUntilKill

(* When no program can reach a faulting instruction and the memory         *)
(* suffices, the kernel implements the safety part of                      *)
(* PreemptiveMultitasking for any number of tasks.                         *)
THEOREM ImplementsMultitasking ==
  ASSUME Faulty = {}, Plenty
  PROVE  Spec => Promise!Init /\ [][Promise!Next]_(Promise!vars)
<1> DEFINE Unharmed == QueueInv /\ killed = {} /\ mode = "user"
<1>1. Init => Unharmed
  BY InitQueue DEF Init
<1>2. Unharmed /\ [Next]_vars => Unharmed' /\ [Promise!Next]_(Promise!vars)
  <2> SUFFICES ASSUME Unharmed, [Next]_vars
               PROVE  Unharmed' /\ [Promise!Next]_(Promise!vars)
    OBVIOUS
  <2>1. killed' = {} /\ mode' = "user"
    <3>1. CASE Exception \/ KernelPanic
      <4>1. cr3 \in Faulty
        BY <3>1, FaultKills DEF QueueInv
      <4> QED BY <4>1
    <3>2. CASE ~(Exception \/ KernelPanic)
      BY <3>2 DEF Next, Run, SysExec, LoadProcess, PageFault, NewIrq0, Lasts, Overdraw,
                  OutOfMap, vars, links, memory
    <3> QED BY <3>1, <3>2
  <2> QED BY <2>1, StepQueue, StepSimulated DEF Simulated
<1> HIDE DEF Unharmed
<1> QED BY <1>1, <1>2, InitSimulated, PTL DEF Spec
=============================================================================

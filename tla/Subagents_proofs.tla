---------------------------- MODULE Subagents_proofs ----------------------------
(***************************************************************************)
(* Theorems of Subagents, for any roots, children, ceilings, budgets and    *)
(* bounds.                                                                  *)
(*                                                                         *)
(* First the inductive invariant IInv, and what the scheduler's recursive   *)
(* functions do, by induction over finite sets; then one lemma per action,  *)
(* with one step per conjunct of IInv; then the steps that move children    *)
(* between queues and slots, and those of recovery.  The theorems follow.   *)
(***************************************************************************)
EXTENDS Subagents, FiniteSetTheorems, WellFoundedInduction, SequenceTheorems, TLAPS

\* What the scheduler keeps: queues of the roots' own children, each once and none of
\* them active, an order of roots, and the ceilings.
Sound(s) ==
    /\ s.queue \in [Roots -> Seq(Children)] /\ s.order \in Seq(Roots)
    /\ s.active \subseteq Children
    /\ \A r \in Roots : /\ IsInjective(s.queue[r])
                        /\ ToSet(s.queue[r]) \subseteq Of(r) \ s.active
                        /\ Cardinality(Of(r) \cap s.active) <= MaxRoot
    /\ Cardinality(s.active) <= MaxWorkspace

Budgets == [reserved : Nat, adopted : Nat, used : Nat]
LedgerTypes == ledger \in [Roots -> Budgets] /\ checkpoint \in [Roots -> Budgets]
TaskTypes ==
    /\ sched \in [queue : [Roots -> Seq(Children)], order : Seq(Roots), active : SUBSET Children]
    /\ signalled \in [Children -> BOOLEAN]
    /\ outcome \in [Children -> {"none", "error", "completed", "failed", "cancelled"}]
Cancels == [todo : SUBSET Children, child : Children \cup {None}, at : {"none", "marked", "finish"}]
ServiceTypes ==
    /\ cancel \in [Roots -> Cancels]
    /\ tool \in [op : {"none", "spawn", "cancel", "wait"}, root : Roots \cup {None},
                 child : Children \cup {None},
                 at : {"none", "reserved", "persisted", "raised", "counted", "read", "asleep"}, seen : Nat]
    /\ statusGeneration \in Nat
OtherTypes ==
    /\ scopeCancelled \in [Roots -> BOOLEAN] /\ unscanned \subseteq Children
    /\ crashes \in Nat /\ faults \in Nat
TypesOK == TypeOK /\ LedgerTypes /\ TaskTypes /\ ServiceTypes /\ OtherTypes

SchedulerInv == Sound(sched) /\ sched.active = {c \in Children : InTask(c)}

\* Of a child that has no record yet, or is being spawned, nobody knows.
Untouched(c) ==
    /\ ~Queued(c) /\ ~InTask(c)
    /\ \A r \in Roots : c \notin cancel[r].todo /\ cancel[r].child # c
SpawnInv ==
    /\ \A c \in Children : status[c] = "none" => Untouched(c)
    /\ tool.op = "spawn" =>
         /\ tool.child \in Children /\ tool.root = parent[tool.child] /\ lock = "spawn"
         /\ root[tool.root] = "running" /\ tool.at \in {"reserved", "persisted", "raised"}
         /\ status[tool.child] = IF tool.at = "reserved" THEN "none" ELSE "queued"
         /\ tool.at = "persisted" => held[tool.child] # "none"
         /\ IF tool.at = "raised" THEN pc[tool.child] # "running" ELSE Untouched(tool.child)
    /\ \A c \in Children : pc[c] = "committed" => lock = c

CancelInv ==
    /\ tool.op = "cancel" => root[tool.root] = "running"
    /\ \A r \in Roots :
        /\ cancel[r].todo \subseteq Of(r)
        /\ cancel[r].child # None => parent[cancel[r].child] = r
        /\ cancel[r].at = "finish" => cancel[r].child # None
        /\ \A c \in Children :
              cancel[r].child = c /\ cancel[r].at = "finish" => ~Queued(c) /\ ~InTask(c)

\* No record is decided behind the back of who still works on it, and who does has
\* the child's reservation to settle.
AtWork(c) ==
    \/ Queued(c) \/ pc[c] \in {"dispatched", "running", "finishing"}
    \/ \E r \in Roots : cancel[r].child = c /\ cancel[r].at = "finish"
RecordOf(c) ==
    /\ status[c] \in Terminal => result[c] = status[c]
    /\ AtWork(c) => status[c] \in Terminal \/ held[c] # "none"
    /\ pc[c] = "running" => status[c] \in Leased /\ leased[c]
RecordInv == \A c \in Children : RecordOf(c)

RecoveryInv ==
    startup # "up" =>
        /\ crashes > 0 /\ tool = NoTool /\ \A r \in Roots : cancel[r] = Idle
        /\ \A c \in Children : pc[c] \in {"none", "dispatched"} /\ held[c] # "fresh"
        /\ \A c \in unscanned : /\ ~Queued(c) /\ ~InTask(c) /\ held[c] = "none"
                                /\ status[c] \in {"queued", "orphaned"} \cup Leased
        /\ \A r \in Roots : ledger[r].adopted <= ledger[r].reserved

Holders(r, how) == Cardinality({c \in Of(r) : held[c] \in how})
Pending(r) == IF tool.op = "spawn" /\ tool.at = "reserved" /\ tool.root = r THEN 1 ELSE 0
BudgetInv ==
    \A r \in Roots :
        /\ Holders(r, {"fresh", "adopted"}) + Pending(r) <= ledger[r].reserved
        /\ Holders(r, {"adopted"}) <= ledger[r].adopted

\* A wait over a decided child is told, unless the commit that decided it was taken
\* for a failed one.
Heard(c) ==
    \/ tool.seen # statusGeneration
    \/ \E d \in Children : pc[d] = "committed"
    \/ held[c] # "none" /\ faults > 0
WaitInv ==
    tool.op = "wait" =>
        /\ tool.seen <= statusGeneration /\ tool.at \in {"counted", "read", "asleep"}
        /\ tool.at # "counted" => \A c \in Of(tool.root) : status[c] \in Terminal => Heard(c)

\* While nothing fails, nothing is lost.
Calm == faults = 0 /\ crashes = 0
CalmOf(c) ==
    /\ Undecided(c) /\ ~scopeCancelled[parent[c]] =>
         \/ Queued(c) \/ InTask(c)
         \/ cancel[parent[c]].child = c /\ cancel[parent[c]].at = "finish"
         \/ tool.op = "spawn" /\ tool.child = c
    /\ pc[c] \in {"committed", "closing"} => status[c] \in Terminal
    /\ Queued(c) /\ Undecided(c) =>
         /\ root[parent[c]] # "ended"
         /\ root[parent[c]] = "ending" =>
              \/ c \in cancel[parent[c]].todo
              \/ cancel[parent[c]].child = c /\ cancel[parent[c]].at = "marked"
CalmInv == Calm => \A c \in Children : CalmOf(c)

IInv == TypesOK /\ SchedulerInv /\ SpawnInv /\ CancelInv /\ RecordInv /\ RecoveryInv
        /\ BudgetInv /\ WaitInv /\ CalmInv

-----------------------------------------------------------------------------
(* Induction.  The library's theorem takes a predicate; this one takes a set,  *)
(* and follows from the well-founded order of the finite sets.                *)

LEMMA Least ==
  ASSUME NEW T, T \subseteq Nat, T # {}
  PROVE  \E m \in T : \A k \in T : m <= k
<1> DEFINE below == {0..n : n \in T}
<1>1. below \subseteq FiniteSubsetsOf(Nat)
  <2> SUFFICES ASSUME NEW n \in T PROVE 0..n \in FiniteSubsetsOf(Nat)  OBVIOUS
  <2>1. IsFiniteSet(0..n)  BY FS_Interval
  <2> QED  BY <2>1 DEF FiniteSubsetsOf
<1>2. PICK x \in below : \A y \in below : ~ (<<y, x>> \in StrictSubsetOrdering(Nat))
  <2> HIDE DEF below
  <2> below # {}  BY DEF below
  <2> QED  BY <1>1, FS_StrictSubsetOrderingWellFounded, WFMin
<1>3. PICK m \in T : x = 0..m  OBVIOUS
<1>4. ASSUME NEW k \in T, k < m PROVE FALSE
  <2>1. 0..k \subseteq 0..m /\ 0..k # 0..m  BY <1>4
  <2>2. <<0..k, x>> \in StrictSubsetOrdering(Nat)  BY <1>3, <2>1 DEF StrictSubsetOrdering
  <2> QED  BY <1>2, <2>2
<1> QED  BY <1>4

LEMMA Induction ==
  ASSUME NEW S, 0 \in S, \A n \in Nat : n \in S => n + 1 \in S
  PROVE  Nat \subseteq S
<1> SUFFICES ASSUME NEW n \in Nat, n \notin S PROVE FALSE  OBVIOUS
<1>1. PICK m \in Nat \ S : \A k \in Nat \ S : m <= k
  <2> DEFINE T == Nat \ S
  <2> HIDE DEF T
  <2> T \subseteq Nat /\ T # {}  BY DEF T
  <2> PICK m \in T : \A k \in T : m <= k  BY Least
  <2> QED  BY DEF T
<1>2. m # 0 /\ m - 1 \in Nat /\ m - 1 < m  OBVIOUS
<1>3. m - 1 \in S  BY <1>1, <1>2
<1> QED  BY <1>2, <1>3

\* A step on a set can be iterated: what a recursive function stands for exists ...
Iterates(g, n, c, step) == \A i \in 0..n : g[i] = IF i = 0 THEN c ELSE step[i][g[i - 1]]

LEMMA IterationExists ==
  ASSUME NEW N \in Nat, NEW S, NEW c \in S, NEW step \in [Nat -> [S -> S]]
  PROVE  \E g \in [0..N -> S] : Iterates(g, N, c, step)
<1> DEFINE Some(n) == \E g \in [0..n -> S] : Iterates(g, n, c, step)
           good == {n \in Nat : Some(n)}
<1>1. Some(0)
  <2> DEFINE g == [i \in 0..0 |-> c]
  <2> g \in [0..0 -> S] /\ Iterates(g, 0, c, step)  BY DEF Iterates
  <2> QED  OBVIOUS
<1>2. ASSUME NEW n \in Nat, Some(n) PROVE Some(n + 1)
  <2>1. PICK g \in [0..n -> S] : Iterates(g, n, c, step)  BY <1>2
  <2> DEFINE last == step[n + 1][g[n]]
             h == [i \in 0..(n + 1) |-> IF i <= n THEN g[i] ELSE last]
  <2>2. last \in S
    <3> g[n] \in S /\ n + 1 \in Nat  OBVIOUS
    <3> step[n + 1] \in [S -> S]  OBVIOUS
    <3> QED  OBVIOUS
  <2>3. h \in [0..(n + 1) -> S]  BY <2>2
  <2>4. ASSUME NEW i \in 0..(n + 1) PROVE h[i] = IF i = 0 THEN c ELSE step[i][h[i - 1]]
    <3>1. CASE i \in 0..n
      <4>1. i # 0 => i - 1 \in 0..n  BY <3>1
      <4>2. h[i] = g[i] /\ (i # 0 => h[i - 1] = g[i - 1])  BY <3>1, <4>1
      <4> QED  BY <2>1, <3>1, <4>2 DEF Iterates
    <3>2. CASE i = n + 1
      <4> h[i] = last /\ i # 0 /\ h[i - 1] = g[n]  BY <3>2
      <4> QED  BY <3>2
    <3> QED  BY <3>1, <3>2
  <2> HIDE DEF h
  <2>5. Iterates(h, n + 1, c, step)  BY <2>4 DEF Iterates
  <2> QED  BY <2>3, <2>5
<1> HIDE DEF Some
<1>3. 0 \in good /\ \A n \in Nat : n \in good => n + 1 \in good  BY <1>1, <1>2
<1> HIDE DEF good
<1>4. Nat \subseteq good  BY <1>3, Induction
<1>5. Some(N)  BY <1>4 DEF good
<1> QED  BY <1>5 DEF Some

\* ... and stays in the set.
LEMMA IterationStays ==
  ASSUME NEW N \in Nat, NEW S, NEW f, f[0] \in S,
         \A i \in 1..N : f[i - 1] \in S => f[i] \in S
  PROVE  \A i \in 0..N : f[i] \in S
<1> DEFINE good == {n \in Nat : n <= N => f[n] \in S}
<1>1. 0 \in good  OBVIOUS
<1>2. ASSUME NEW n \in Nat, n \in good PROVE n + 1 \in good
  <2> SUFFICES ASSUME n + 1 <= N PROVE f[n + 1] \in S  OBVIOUS
  <2>1. f[n] \in S  BY <1>2
  <2>2. n + 1 \in 1..N /\ (n + 1) - 1 = n  OBVIOUS
  <2> QED  BY <2>1, <2>2
<1> HIDE DEF good
<1>3. Nat \subseteq good  BY <1>1, <1>2, Induction
<1> QED  BY <1>3 DEF good

-----------------------------------------------------------------------------
(* Sequences                                                                *)

\* The filter of an order is an order of the same things.
LEMMA OnlyOfType ==
  ASSUME NEW T, NEW order \in Seq(T), NEW some PROVE OnlyOf(some, order) \in Seq(T)
<1> DEFINE n == Len(order)
           step == [i \in Nat |-> [q \in Seq(T) |->
                      IF i \in 1..n /\ order[i] \in some THEN Append(q, order[i]) ELSE q]]
           Body(h) == [i \in 0..n |-> IF i = 0 THEN <<>>
                                      ELSE IF order[i] \in some THEN Append(h[i - 1], order[i])
                                      ELSE h[i - 1]]
           f == CHOOSE h : h = Body(h)
<1>0. n \in Nat /\ <<>> \in Seq(T)  OBVIOUS
<1>1. step \in [Nat -> [Seq(T) -> Seq(T)]]
  <2> SUFFICES ASSUME NEW i \in Nat, NEW q \in Seq(T) PROVE step[i][q] \in Seq(T)  OBVIOUS
  <2>1. i \in 1..n => order[i] \in T  OBVIOUS
  <2> QED  BY <2>1
<1>2. \A q \in Seq(T), i \in 1..n : step[i][q] = IF order[i] \in some THEN Append(q, order[i]) ELSE q
  OBVIOUS
<1> HIDE DEF step, n
<1>3. PICK g \in [0..n -> Seq(T)] : Iterates(g, n, <<>>, step)  BY <1>0, <1>1, IterationExists
<1>4. g = Body(g)
  <2>1. \A i \in 0..n : g[i] = Body(g)[i]
    <3> SUFFICES ASSUME NEW i \in 0..n PROVE g[i] = Body(g)[i]  OBVIOUS
    <3>1. CASE i = 0  BY <1>3, <3>1 DEF Iterates
    <3>2. CASE i # 0
      <4> i \in 1..n /\ g[i - 1] \in Seq(T)  BY <1>0, <3>2
      <4> QED  BY <1>2, <1>3, <3>2 DEF Iterates
    <3> QED  BY <3>1, <3>2
  <2> QED  BY <2>1
<1>5. f = Body(f)  BY <1>4
<1>6. \A i \in 0..n : f[i] \in Seq(T)
  <2> HIDE DEF f
  <2>1. ASSUME NEW i \in 0..n
        PROVE  f[i] = IF i = 0 THEN <<>>
                      ELSE IF order[i] \in some THEN Append(f[i - 1], order[i]) ELSE f[i - 1]
    BY <1>5
  <2>2. f[0] \in Seq(T)
    <3> 0 \in 0..n  BY <1>0
    <3> QED  BY <1>0, <2>1
  <2>3. ASSUME NEW i \in 1..n, f[i - 1] \in Seq(T) PROVE f[i] \in Seq(T)
    <3>1. order[i] \in T /\ i \in 0..n /\ i # 0  BY <1>0 DEF n
    <3>2. f[i] = IF order[i] \in some THEN Append(f[i - 1], order[i]) ELSE f[i - 1]
      BY <2>1, <3>1
    <3>3. \A x \in Seq(T), y \in T : Append(x, y) \in Seq(T)  OBVIOUS
    <3>4. Append(f[i - 1], order[i]) \in Seq(T)  BY <2>3, <3>1, <3>3
    <3> QED  BY <2>3, <3>2, <3>4
  <2> QED  BY <1>0, <2>2, <2>3, IterationStays
<1>7. OnlyOf(some, order) = f[n]  BY DEF OnlyOf, n
<1> HIDE DEF f
<1> QED  BY <1>0, <1>6, <1>7

\* Queues that hold a child once: taking the first, another, and adding one.
LEMMA TailOfQueue ==
  ASSUME NEW q \in Seq(Children), q # <<>>, IsInjective(q)
  PROVE  /\ Tail(q) \in Seq(Children) /\ IsInjective(Tail(q)) /\ Head(q) \in ToSet(q)
         /\ Head(q) \in Children /\ ToSet(Tail(q)) = ToSet(q) \ {Head(q)}
<1>1. Len(q) \in Nat \ {0}  OBVIOUS
<1>2. /\ Tail(q) \in Seq(Children) /\ Len(Tail(q)) = Len(q) - 1
      /\ \A i \in 1..(Len(q) - 1) : Tail(q)[i] = q[i + 1]
  OBVIOUS
<1>3. Head(q) = q[1] /\ 1 \in 1..Len(q) /\ \A i \in 1..Len(q) : q[i] \in Children  BY <1>1
<1>4. IsInjective(Tail(q))  BY <1>1, <1>2 DEF IsInjective
<1>5. ASSUME NEW c \in ToSet(Tail(q)) PROVE c \in ToSet(q) /\ c # Head(q)
  <2>1. PICK i \in 1..(Len(q) - 1) : c = q[i + 1]  BY <1>1, <1>2 DEF ToSet
  <2>2. i + 1 \in 1..Len(q) /\ i + 1 # 1  BY <1>1
  <2> QED  BY <1>3, <2>1, <2>2 DEF ToSet, IsInjective
<1>6. ASSUME NEW c \in ToSet(q), c # Head(q) PROVE c \in ToSet(Tail(q))
  <2>1. PICK i \in 1..Len(q) : c = q[i]  BY DEF ToSet
  <2>2. i # 1 /\ i - 1 \in 1..(Len(q) - 1) /\ (i - 1) + 1 = i  BY <1>1, <1>3, <1>6, <2>1
  <2>3. c = Tail(q)[i - 1] /\ i - 1 \in DOMAIN Tail(q)  BY <1>2, <2>1, <2>2
  <2> QED  BY <2>3 DEF ToSet
<1>7. Head(q) \in ToSet(q)  BY <1>3 DEF ToSet
<1> QED  BY <1>2, <1>3, <1>4, <1>5, <1>6, <1>7

LEMMA AppendToQueue ==
  ASSUME NEW q \in Seq(Children), IsInjective(q), NEW c \in Children, c \notin ToSet(q)
  PROVE  /\ Append(q, c) \in Seq(Children) /\ IsInjective(Append(q, c))
         /\ ToSet(Append(q, c)) = ToSet(q) \cup {c}
<1>1. /\ Len(q) \in Nat /\ Len(Append(q, c)) = Len(q) + 1 /\ Append(q, c)[Len(q) + 1] = c
      /\ \A i \in 1..Len(q) : Append(q, c)[i] = q[i]
      /\ Append(q, c) \in Seq(Children)
  OBVIOUS
<1>2. \A i \in 1..Len(q) : q[i] # c  BY DEF ToSet
<1>3. DOMAIN Append(q, c) = 1..(Len(q) + 1) /\ DOMAIN q = 1..Len(q)  BY <1>1
<1> HIDE DEF IsInjective
<1>4. IsInjective(Append(q, c))
  <2> SUFFICES ASSUME NEW i \in 1..(Len(q) + 1), NEW j \in 1..(Len(q) + 1),
                      Append(q, c)[i] = Append(q, c)[j] PROVE i = j
    BY <1>3 DEF IsInjective
  <2> QED  BY <1>1, <1>2, <1>3 DEF IsInjective
<1>5. ASSUME NEW d \in ToSet(Append(q, c)) PROVE d \in ToSet(q) \cup {c}  BY <1>1, <1>3 DEF ToSet
<1>6. ASSUME NEW d \in ToSet(q) PROVE d \in ToSet(Append(q, c))
  <2>1. PICK i \in 1..Len(q) : d = q[i]  BY <1>3 DEF ToSet
  <2>2. i \in 1..(Len(q) + 1) /\ d = Append(q, c)[i]  BY <1>1, <2>1
  <2> QED  BY <1>3, <2>2 DEF ToSet
<1>7. c \in ToSet(Append(q, c))
  <2> Len(q) + 1 \in 1..(Len(q) + 1)  BY <1>1
  <2> QED  BY <1>1, <1>3 DEF ToSet
<1> QED  BY <1>1, <1>4, <1>5, <1>6, <1>7

LEMMA RemoveFromQueue ==
  ASSUME NEW q \in Seq(Children), IsInjective(q), NEW k \in 1..Len(q)
  PROVE  /\ RemoveAt(q, k) \in Seq(Children) /\ IsInjective(RemoveAt(q, k))
         /\ ToSet(RemoveAt(q, k)) = ToSet(q) \ {q[k]}
<1> DEFINE n == Len(q)
           rest == RemoveAt(q, k)
           from(i) == IF i < k THEN i ELSE i + 1
<1>1. n \in Nat /\ k \in Nat /\ 1 <= k /\ k <= n /\ \A i \in 1..n : q[i] \in Children
  OBVIOUS
<1>2. /\ rest \in Seq(Children) /\ Len(rest) = n - 1
      /\ \A i \in 1..(n - 1) : rest[i] = q[from(i)]
  <2> DEFINE a == SubSeq(q, 1, k - 1)
             b == SubSeq(q, k + 1, n)
  <2>1. /\ a \in Seq(Children) /\ Len(a) = k - 1 /\ \A i \in 1..(k - 1) : a[i] = q[i]
    BY <1>1
  <2>2. /\ b \in Seq(Children) /\ Len(b) = n - k /\ \A i \in 1..(n - k) : b[i] = q[k + i]
    BY <1>1
  <2>3. rest = a \o b  BY DEF RemoveAt
  <2> HIDE DEF a, b, rest, n
  <2>4. /\ rest \in Seq(Children) /\ Len(rest) = n - 1
        /\ \A i \in 1..(n - 1) : rest[i] = IF i <= k - 1 THEN a[i] ELSE b[i - (k - 1)]
    <3>1. /\ a \o b \in Seq(Children) /\ Len(a \o b) = Len(a) + Len(b)
          /\ \A i \in 1..(Len(a) + Len(b)) :
                (a \o b)[i] = IF i <= Len(a) THEN a[i] ELSE b[i - Len(a)]
      BY <2>1, <2>2, ConcatProperties
    <3>2. Len(a) + Len(b) = n - 1  BY <1>1, <2>1, <2>2
    <3> QED  BY <2>1, <2>3, <3>1, <3>2
  <2>5. ASSUME NEW i \in 1..(n - 1) PROVE rest[i] = q[from(i)]
    <3>1. CASE i < k  BY <1>1, <2>1, <2>4, <3>1
    <3>2. CASE ~(i < k)
      <4> i - (k - 1) \in 1..(n - k) /\ k + (i - (k - 1)) = i + 1 /\ ~(i <= k - 1)  BY <1>1, <3>2
      <4> QED  BY <2>2, <2>4, <3>2
    <3> QED  BY <3>1, <3>2
  <2> QED  BY <2>4, <2>5
<1>3. DOMAIN rest = 1..(n - 1) /\ DOMAIN q = 1..n  BY <1>1, <1>2
<1> HIDE DEF rest
<1>4. \A i \in 1..(n - 1) : from(i) \in 1..n /\ from(i) # k  BY <1>1
<1>5. \A i, j \in 1..(n - 1) : from(i) = from(j) => i = j  BY <1>1
<1>6. \A j \in 1..n : j # k => \E i \in 1..(n - 1) : from(i) = j
  <2> SUFFICES ASSUME NEW j \in 1..n, j # k PROVE \E i \in 1..(n - 1) : from(i) = j  OBVIOUS
  <2>1. CASE j < k  BY <1>1, <2>1
  <2>2. CASE j > k
    <3> j - 1 \in 1..(n - 1) /\ ~(j - 1 < k) /\ (j - 1) + 1 = j  BY <1>1, <2>2
    <3> QED  OBVIOUS
  <2> QED  BY <1>1, <2>1, <2>2
<1> HIDE DEF from, n
<1>7. IsInjective(rest)
  <2> SUFFICES ASSUME NEW i \in 1..(n - 1), NEW j \in 1..(n - 1), rest[i] = rest[j] PROVE i = j
    BY <1>3 DEF IsInjective
  <2>1. from(i) = from(j)  BY <1>2, <1>3, <1>4 DEF IsInjective
  <2> QED  BY <1>5, <2>1
<1>8. ToSet(rest) = ToSet(q) \ {q[k]}
  <2>1. ASSUME NEW c \in ToSet(rest) PROVE c \in ToSet(q) \ {q[k]}
    <3>1. PICK i \in 1..(n - 1) : c = q[from(i)]  BY <1>2, <1>3 DEF ToSet
    <3>2. k \in 1..n  BY DEF n
    <3> QED  BY <1>3, <1>4, <3>1, <3>2 DEF ToSet, IsInjective
  <2>2. ASSUME NEW c \in ToSet(q) \ {q[k]} PROVE c \in ToSet(rest)
    <3>1. PICK j \in 1..n : c = q[j]  BY <1>3 DEF ToSet
    <3>2. PICK i \in 1..(n - 1) : from(i) = j  BY <1>6, <3>1
    <3> QED  BY <1>2, <1>3, <3>1, <3>2 DEF ToSet
  <2> QED  BY <2>1, <2>2
<1> QED  BY <1>2, <1>7, <1>8 DEF rest

-----------------------------------------------------------------------------
(* The scheduler.                                                           *)

USE SubagentsAssumption

Schedules == [queue : [Roots -> Seq(Children)], order : Seq(Roots), active : SUBSET Children,
              broken : BOOLEAN]

\* A dispatch moves children from queues to slots, and drops none whose root is there.
Takes(s, t) ==
    /\ s.active \subseteq t.active
    /\ \A c \in t.active \ s.active : \E r \in Roots : c \in ToSet(s.queue[r])
    /\ \A r \in Roots :
          /\ ToSet(t.queue[r]) \subseteq ToSet(s.queue[r])
          /\ \A c \in ToSet(s.queue[r]) : \/ c \in ToSet(t.queue[r]) \cup t.active
                                       \/ root[r] \notin {"running", "ending"}

LEMMA FiniteActive ==
  ASSUME NEW active \in SUBSET Children PROVE IsFiniteSet(active) /\ \A r : IsFiniteSet(Of(r) \cap active)
<1>1. IsFiniteSet(active)  BY FS_Subset
<1>2. \A r : Of(r) \cap active \subseteq active  OBVIOUS
<1> QED  BY <1>1, <1>2, FS_Subset

LEMMA TakesTransitive ==
  ASSUME NEW s, NEW t, NEW u, Takes(s, t), Takes(t, u) PROVE Takes(s, u)
<1>1. s.active \subseteq u.active  BY DEF Takes
<1>2. ASSUME NEW c \in u.active \ s.active PROVE \E r \in Roots : c \in ToSet(s.queue[r])
  <2>1. CASE c \in t.active  BY <1>2, <2>1 DEF Takes
  <2>2. CASE c \notin t.active  BY <1>2, <2>2 DEF Takes
  <2> QED  BY <2>1, <2>2
<1>3. ASSUME NEW r \in Roots
      PROVE  /\ ToSet(u.queue[r]) \subseteq ToSet(s.queue[r])
             /\ \A c \in ToSet(s.queue[r]) : \/ c \in ToSet(u.queue[r]) \cup u.active
                                          \/ root[r] \notin {"running", "ending"}
  BY DEF Takes
<1> QED  BY <1>1, <1>2, <1>3 DEF Takes

LEMMA TakesNothing == \A s, t : t.queue = s.queue /\ t.active = s.active => Takes(s, t)
  BY DEF Takes

\* The slot a job takes is free, and the job had none.
LEMMA OneMoreActive ==
  ASSUME NEW s \in Schedules, Sound(s), NEW r \in Roots, NEW c \in Of(r), c \notin s.active,
         SlotFree(s), Cardinality(Of(r) \cap s.active) < MaxRoot
  PROVE  LET active == s.active \cup {c}
         IN /\ active \subseteq Children /\ Cardinality(active) <= MaxWorkspace
            /\ \A p \in Roots : Cardinality(Of(p) \cap active) <= MaxRoot
<1> DEFINE active == s.active \cup {c}
<1>1. c \in Children /\ parent[c] = r /\ s.active \in SUBSET Children  BY DEF Of, Schedules
<1>2. Cardinality(active) = Cardinality(s.active) + 1 /\ Cardinality(s.active) \in Nat
  BY <1>1, FiniteActive, FS_AddElement, FS_CardinalityType
<1>3. ASSUME NEW p \in Roots PROVE Cardinality(Of(p) \cap active) <= MaxRoot
  <2>1. CASE p = r
    <3>1. Of(p) \cap active = (Of(p) \cap s.active) \cup {c}  BY <2>1
    <3>2. c \notin Of(p) \cap s.active /\ IsFiniteSet(Of(p) \cap s.active)  BY <1>1, FiniteActive
    <3>3. Cardinality(Of(p) \cap active) = Cardinality(Of(p) \cap s.active) + 1
      BY ZenonT(40), <3>1, <3>2, FS_AddElement
    <3>4. Cardinality(Of(p) \cap s.active) \in Nat  BY <3>2, FS_CardinalityType
    <3> QED  BY <2>1, <3>3, <3>4
  <2>2. CASE p # r
    <3>1. Of(p) \cap active = Of(p) \cap s.active  BY <1>1, <2>2 DEF Of
    <3> QED  BY <3>1 DEF Sound
  <2> QED  BY <2>1, <2>2
<1> QED  BY <1>1, <1>2, <1>3 DEF SlotFree

LEMMA DispatchOneSound ==
  ASSUME NEW s \in Schedules, Sound(s)
  PROVE  DispatchOne(s) \in Schedules /\ Sound(DispatchOne(s)) /\ Takes(s, DispatchOne(s))
<1> DEFINE ready == {i \in 1..Len(s.order) : Startable(s, i)}
           idle == [s EXCEPT !.order = NonEmpty(s, @)]
           first == CHOOSE i \in ready : \A j \in ready : i <= j
           r == s.order[first]
           rest == Tail(s.queue[r])
           next == SubSeq(s.order, first + 1, Len(s.order)) \o NonEmpty(s, SubSeq(s.order, 1, first - 1))
           c == Head(s.queue[r])
           gone == Registered(r, s.active)
           t == [queue |-> [s.queue EXCEPT ![r] = rest],
                 order |-> IF rest = <<>> THEN next ELSE Append(next, r),
                 active |-> IF gone THEN s.active \cup {c} ELSE s.active,
                 broken |-> ~gone]
<1>0. DispatchOne(s) = IF s.broken \/ ~SlotFree(s) THEN s ELSE IF ready = {} THEN idle ELSE t
  BY DEF DispatchOne
<1>1. CASE s.broken \/ ~SlotFree(s)  BY <1>0, <1>1, TakesNothing
<1>2. CASE ~(s.broken \/ ~SlotFree(s)) /\ ready = {}
  <2>1. NonEmpty(s, s.order) \in Seq(Roots)  BY OnlyOfType DEF NonEmpty, Schedules
  <2>2. idle \in Schedules /\ idle.queue = s.queue /\ idle.active = s.active /\ idle.order \in Seq(Roots)
    BY <2>1 DEF Schedules
  <2>3. Sound(idle)  BY <2>2 DEF Sound
  <2> QED  BY <1>0, <1>2, <2>2, <2>3, TakesNothing
<1>3. CASE ~(s.broken \/ ~SlotFree(s)) /\ ready # {}
  <2>1. first \in ready
    <3> HIDE DEF ready
    <3>1. \E i \in ready : \A j \in ready : i <= j
      <4> ready \subseteq Nat  BY DEF ready
      <4> QED  BY <1>3, Least
    <3> QED  BY <3>1
  <2>2. /\ first \in 1..Len(s.order) /\ r \in Roots /\ s.queue[r] # <<>>
        /\ Cardinality(Of(r) \cap s.active) < MaxRoot
    <3> HIDE DEF first
    <3>1. first \in 1..Len(s.order) /\ Startable(s, first)  BY <2>1
    <3>2. s.order \in Seq(Roots)  BY DEF Schedules
    <3> QED  BY <3>1, <3>2 DEF Startable
  <2> HIDE DEF first, ready
  <2>3. next \in Seq(Roots)
    <3>1. s.order \in Seq(Roots) /\ Len(s.order) \in Nat /\ first \in Nat /\ first >= 1
      BY <2>2 DEF Schedules
    <3>2. SubSeq(s.order, first + 1, Len(s.order)) \in Seq(Roots)  BY <2>2, <3>1
    <3>3. SubSeq(s.order, 1, first - 1) \in Seq(Roots)  BY <2>2, <3>1
    <3>4. NonEmpty(s, SubSeq(s.order, 1, first - 1)) \in Seq(Roots)  BY <3>3, OnlyOfType
                                                                        DEF NonEmpty
    <3> QED  BY <3>2, <3>4
  <2> HIDE DEF next, r
  <2>4. /\ rest \in Seq(Children) /\ IsInjective(rest) /\ c \in ToSet(s.queue[r])
        /\ ToSet(rest) = ToSet(s.queue[r]) \ {c}
    <3> s.queue[r] \in Seq(Children) /\ IsInjective(s.queue[r])  BY <2>2 DEF Sound
    <3> QED  BY <2>2, TailOfQueue
  <2>5. c \in Of(r) /\ c \notin s.active /\ c \in Children /\ parent[c] = r
    <3>1. ToSet(s.queue[r]) \subseteq Of(r) \ s.active  BY <2>2 DEF Sound
    <3> HIDE DEF c
    <3> QED  BY <2>4, <3>1 DEF Of
  <2> HIDE DEF rest, c
  <2>6. /\ t.queue = [s.queue EXCEPT ![r] = rest] /\ t.order \in Seq(Roots)
        /\ t.active = (IF gone THEN s.active \cup {c} ELSE s.active) /\ t.broken \in BOOLEAN
    BY <2>2, <2>3 DEF Registered
  <2>7. t.active \subseteq Children /\ Cardinality(t.active) <= MaxWorkspace
        /\ \A p \in Roots : Cardinality(Of(p) \cap t.active) <= MaxRoot
    <3>1. CASE gone  BY <1>3, <2>2, <2>5, <2>6, <3>1, OneMoreActive
    <3>2. CASE ~gone  BY <2>6, <3>2 DEF Sound
    <3> QED  BY <3>1, <3>2
  <2>8. t.queue \in [Roots -> Seq(Children)]  BY <2>2, <2>4, <2>6 DEF Schedules
  <2>9. t \in Schedules  BY <2>6, <2>7, <2>8 DEF Schedules
  <2>10. ~gone => root[r] \notin {"running", "ending"}  BY DEF Registered
  <2> HIDE DEF t
  <2>11. ASSUME NEW p \in Roots
         PROVE  /\ IsInjective(t.queue[p]) /\ ToSet(t.queue[p]) \subseteq ToSet(s.queue[p])
                /\ ToSet(t.queue[p]) \subseteq Of(p) \ t.active
                /\ \A d \in ToSet(s.queue[p]) : d \in ToSet(t.queue[p]) \/ (d = c /\ p = r)
    <3>1. CASE p = r
      <4>1. t.queue[p] = rest  BY <2>2, <2>6, <3>1 DEF Schedules
      <4> QED  BY <2>4, <2>6, <3>1, <4>1 DEF Sound
    <3>2. CASE p # r
      <4>1. t.queue[p] = s.queue[p]  BY <2>6, <3>2 DEF Schedules
      <4>2. c \notin ToSet(s.queue[p])  BY <2>5, <3>2 DEF Sound, Of
      <4> QED  BY <2>6, <4>1, <4>2 DEF Sound
    <3> QED  BY <3>1, <3>2
  <2>12. Sound(t)  BY <2>6, <2>7, <2>8, <2>11 DEF Sound
  <2>13. Takes(s, t)
    <3>1. s.active \subseteq t.active /\ \A d \in t.active \ s.active : d = c  BY <2>6
    <3>2. ASSUME NEW p \in Roots, NEW d \in ToSet(s.queue[p])
          PROVE  d \in ToSet(t.queue[p]) \cup t.active \/ root[p] \notin {"running", "ending"}
      <4>1. CASE d \in ToSet(t.queue[p])  BY <4>1
      <4>2. CASE d = c /\ p = r  BY <2>6, <2>10, <4>2
      <4> QED  BY <2>11, <4>1, <4>2
    <3> HIDE DEF gone
    <3> QED  BY <2>2, <2>4, <2>11, <3>1, <3>2 DEF Takes
  <2> QED  BY <1>0, <1>3, <2>9, <2>12, <2>13
<1> QED  BY <1>1, <1>2, <1>3

\* A dispatch is so many of these steps.
LEMMA DispatchSound ==
  ASSUME NEW s, s.queue \in [Roots -> Seq(Children)], s.order \in Seq(Roots),
         s.active \subseteq Children, Sound(s)
  PROVE  Dispatch(s) \in Schedules /\ Sound(Dispatch(s)) /\ Takes(s, Dispatch(s))
<1> DEFINE N == MaxWorkspace
           c == [queue |-> s.queue, order |-> s.order, active |-> s.active, broken |-> FALSE]
           reached == {t \in Schedules : Sound(t) /\ Takes(s, t)}
           step == [i \in Nat |-> [t \in reached |-> DispatchOne(t)]]
           Body(h) == [n \in 0..N |-> IF n = 0 THEN c ELSE DispatchOne(h[n - 1])]
           f == CHOOSE h : h = Body(h)
<1>0. N \in Nat  OBVIOUS
<1>1. c \in reached
  <2>1. c \in Schedules  BY DEF Schedules
  <2>2. c.queue = s.queue /\ c.order = s.order /\ c.active = s.active  OBVIOUS
  <2> HIDE DEF c
  <2>3. Sound(c)  BY <2>2 DEF Sound
  <2> QED  BY <2>1, <2>2, <2>3, TakesNothing
<1>2. \A t \in reached : DispatchOne(t) \in reached  BY DispatchOneSound, TakesTransitive
<1> HIDE DEF reached, c
<1>3. step \in [Nat -> [reached -> reached]] /\ \A i \in Nat, t \in reached : step[i][t] = DispatchOne(t)
  BY <1>2
<1> HIDE DEF step, N
<1>4. PICK g \in [0..N -> reached] : Iterates(g, N, c, step)  BY <1>0, <1>1, <1>3, IterationExists
<1>5. g = Body(g)
  <2>1. ASSUME NEW n \in 0..N PROVE g[n] = Body(g)[n]
    <3>1. CASE n = 0  BY <1>4, <3>1 DEF Iterates
    <3>2. CASE n # 0
      <4> n \in Nat /\ n - 1 \in 0..N  BY <1>0, <3>2
      <4> g[n - 1] \in reached  OBVIOUS
      <4> QED  BY <1>3, <1>4, <3>2 DEF Iterates
    <3> QED  BY <3>1, <3>2
  <2> QED  BY <2>1
<1>6. f = Body(f)  BY <1>5
<1>7. \A n \in 0..N : f[n] \in reached
  <2> HIDE DEF f
  <2>1. ASSUME NEW n \in 0..N PROVE f[n] = IF n = 0 THEN c ELSE DispatchOne(f[n - 1])  BY <1>6
  <2>2. f[0] \in reached
    <3> 0 \in 0..N  BY <1>0
    <3> QED  BY <1>1, <2>1
  <2>3. ASSUME NEW n \in 1..N, f[n - 1] \in reached PROVE f[n] \in reached
    <3> n \in 0..N /\ n # 0  BY <1>0
    <3> QED  BY <1>2, <2>1, <2>3
  <2> QED  BY <1>0, <2>2, <2>3, IterationStays
<1>8. Dispatch(s) = f[N]  BY DEF Dispatch, N, c
<1> HIDE DEF f
<1>9. f[N] \in reached  BY <1>0, <1>7
<1> QED  BY <1>8, <1>9 DEF reached

-----------------------------------------------------------------------------
(* What a step that leaves a part of the state alone keeps of the invariant. *)

USE DEF durable, tasks, service, roots, startupVars, bounds

LEMMA ParentType == IInv => parent \in [Children -> Roots]
  BY DEF IInv, TypesOK, TypeOK

LEMMA SchedulerStays ==
  ASSUME IInv, UNCHANGED <<parent, sched>>, \A c \in Children : InTask(c)' = InTask(c)
  PROVE  SchedulerInv'
<1>1. Sound(sched)' = Sound(sched)  BY DEF Sound, Of
<1>2. {c \in Children : InTask(c)}' = {c \in Children : InTask(c)}  OBVIOUS
<1> QED  BY <1>1, <1>2 DEF IInv, SchedulerInv

LEMMA HoldersStay ==
  ASSUME UNCHANGED <<parent, held>> PROVE \A r, how : Holders(r, how)' = Holders(r, how)
  BY DEF Holders, Of

LEMMA HoldersType == \A r, how : IsFiniteSet({c \in Of(r) : held[c] \in how}) /\ Holders(r, how) \in Nat
<1> SUFFICES ASSUME NEW r, NEW how
             PROVE  IsFiniteSet({c \in Of(r) : held[c] \in how}) /\ Holders(r, how) \in Nat
  OBVIOUS
<1>1. {c \in Of(r) : held[c] \in how} \subseteq Children  BY DEF Of
<1> QED  BY <1>1, FS_Subset, FS_CardinalityType DEF Holders

LEMMA OneMore ==
  ASSUME NEW S, IsFiniteSet(S), NEW x
  PROVE  IsFiniteSet(S \cup {x}) /\ Cardinality(S \cup {x}) <= Cardinality(S) + 1
<1>1. Cardinality(S) \in Nat  BY FS_CardinalityType
<1>2. /\ IsFiniteSet(S \cup {x})
      /\ Cardinality(S \cup {x}) = IF x \in S THEN Cardinality(S) ELSE Cardinality(S) + 1
  BY FS_AddElement, Zenon
<1> DEFINE n == Cardinality(S)
           m == Cardinality(S \cup {x})
<1>3. m = n \/ m = n + 1  BY <1>2
<1> HIDE DEF n, m
<1>4. n \in Nat  BY <1>1 DEF n
<1>5. m <= n + 1  BY <1>3, <1>4
<1> QED  BY <1>2, <1>5 DEF n, m

LEMMA HoldersNat == \A r, how : Holders(r, how) \in Nat
  BY HoldersType

LEMMA HoldersTypePrime == \A r, how : Holders(r, how)' \in Nat
<1>1. (\A r, how : Holders(r, how) \in Nat)'  BY HoldersNat, PTL
<1> QED  BY <1>1

\* One more holder, or one less.
LEMMA HoldersGrow ==
  ASSUME IInv, UNCHANGED parent, NEW c \in Children, NEW how \in {"fresh", "adopted"},
         held' = [held EXCEPT ![c] = how], NEW r \in Roots, NEW some
  PROVE  Holders(r, some)' <= Holders(r, some) + (IF r = parent[c] /\ how \in some THEN 1 ELSE 0)
<1> DEFINE old == {d \in Of(r) : held[d] \in some}
           new == {d \in Of(r) : held'[d] \in some}
<1>1. Holders(r, some) = Cardinality(old) /\ Holders(r, some)' = Cardinality(new)  BY
DEF Holders, Of
<1>2. held \in [Children -> {"none", "fresh", "adopted"}]  BY DEF IInv, TypesOK, TypeOK
<1>3. IsFiniteSet(old) /\ Cardinality(old) \in Nat  BY HoldersType DEF Holders
<1>4. CASE r = parent[c] /\ how \in some
  <2>1. new \subseteq old \cup {c}  BY <1>2 DEF Of
  <2>2. IsFiniteSet(old \cup {c}) /\ Cardinality(old \cup {c}) <= Cardinality(old) + 1
    <3> HIDE DEF old
    <3> QED  BY <1>3, OneMore
  <2>3. Cardinality(old \cup {c}) \in Nat /\ Cardinality(new) \in Nat
    BY <2>1, <2>2, FS_CardinalityType, FS_Subset
  <2>4. Cardinality(new) <= Cardinality(old \cup {c})  BY <2>1, <2>2, FS_Subset
  <2> QED  BY <1>1, <1>3, <1>4, <2>2, <2>3, <2>4
<1>5. CASE ~(r = parent[c] /\ how \in some)
  <2>1. new \subseteq old  BY <1>2, <1>5 DEF Of
  <2>2. Cardinality(new) <= Cardinality(old)  BY <1>3, <2>1, FS_Subset
  <2> QED  BY <1>1, <1>3, <1>5, <2>2
<1> QED  BY <1>4, <1>5

LEMMA HoldersShrink ==
  ASSUME IInv, UNCHANGED parent, NEW c \in Children, held' = [held EXCEPT ![c] = "none"],
         NEW r \in Roots, NEW some, "none" \notin some
  PROVE  Holders(r, some)' = Holders(r, some) - (IF r = parent[c] /\ held[c] \in some THEN 1 ELSE 0)
<1> DEFINE old == {d \in Of(r) : held[d] \in some}
           new == {d \in Of(r) : held'[d] \in some}
<1>1. Holders(r, some) = Cardinality(old) /\ Holders(r, some)' = Cardinality(new)  BY
DEF Holders, Of
<1>2. held \in [Children -> {"none", "fresh", "adopted"}]  BY DEF IInv, TypesOK, TypeOK
<1>3. IsFiniteSet(old) /\ Cardinality(old) \in Nat  BY HoldersType DEF Holders
<1>4. new = old \ {c}  BY <1>2 DEF Of
<1>5. c \in old <=> r = parent[c] /\ held[c] \in some  BY DEF Of
<1> HIDE DEF old, new
<1>6. Cardinality(old \ {c}) = IF c \in old THEN Cardinality(old) - 1 ELSE Cardinality(old)
  BY <1>3, FS_RemoveElement
<1> QED  BY <1>1, <1>3, <1>4, <1>5, <1>6

LEMMA BudgetStays ==
  ASSUME IInv, UNCHANGED <<parent, held, ledger>>, \A r \in Roots : Pending(r)' <= Pending(r)
  PROVE  BudgetInv'
<1> SUFFICES ASSUME NEW r \in Roots
             PROVE  /\ Holders(r, {"fresh", "adopted"})' + Pending(r)' <= ledger[r].reserved
                    /\ Holders(r, {"adopted"})' <= ledger[r].adopted
  BY DEF BudgetInv
<1>1. ledger[r].reserved \in Nat  BY DEF IInv, TypesOK, TypeOK
<1>2. Pending(r) \in Nat /\ Pending(r)' \in Nat  BY DEF Pending
<1>3. \A some : Holders(r, some)' = Holders(r, some) /\ Holders(r, some) \in Nat
  BY HoldersStay, HoldersType
<1>4. /\ Holders(r, {"fresh", "adopted"}) + Pending(r) <= ledger[r].reserved
      /\ Holders(r, {"adopted"}) <= ledger[r].adopted
  BY DEF IInv, BudgetInv
<1>5. Pending(r)' <= Pending(r)  OBVIOUS
<1> QED  BY <1>1, <1>2, <1>3, <1>4, <1>5

\* What is reserved, adopted and settled.
LEMMA LedgerSteps ==
  ASSUME NEW b \in Budgets
  PROVE  /\ Reserve(b) \in Budgets /\ Adopt(b) \in Budgets /\ Settle(b, "none", 1) = b
         /\ \A how \in {"fresh", "adopted"}, spent \in Nat :
               b.reserved > 0 /\ (how = "adopted" => b.adopted > 0) =>
                 /\ Settle(b, how, spent) \in Budgets
                 /\ Settle(b, how, spent).reserved = b.reserved - 1
                 /\ Settle(b, how, spent).adopted = b.adopted - IF how = "adopted" THEN 1 ELSE 0
<1>1. Reserve(b) \in Budgets /\ Adopt(b) \in Budgets /\ Settle(b, "none", 1) = b
  BY DEF Reserve, Adopt, Settle, Budgets
<1>2. ASSUME NEW how \in {"fresh", "adopted"}, NEW spent \in Nat, b.reserved > 0,
             how = "adopted" => b.adopted > 0
      PROVE  /\ Settle(b, how, spent) \in Budgets
             /\ Settle(b, how, spent).reserved = b.reserved - 1
             /\ Settle(b, how, spent).adopted = b.adopted - IF how = "adopted" THEN 1 ELSE 0
  <2>1. b.reserved \in Nat /\ b.adopted \in Nat /\ b.used \in Nat  BY DEF Budgets
  <2>2. b.reserved - 1 \in Nat /\ b.used + spent \in Nat /\ (how = "adopted" => b.adopted - 1 \in Nat)
    BY <1>2, <2>1
  <2>3. CASE how = "adopted"  BY <2>1, <2>2, <2>3 DEF Settle, Budgets
  <2>4. CASE how = "fresh"
    <3>1. Settle(b, how, spent) = [b EXCEPT !.reserved = @ - 1, !.used = @ + spent, !.adopted = @]
      BY <2>4 DEF Settle
    <3>2. b.adopted - 0 = b.adopted  BY <2>1
    <3> QED  BY <2>1, <2>2, <2>4, <3>1, <3>2 DEF Budgets
  <2> QED  BY <2>3, <2>4
<1> QED  BY <1>1, <1>2

LEMMA DecidedIsTerminal == \A c : Decided(c) \in Terminal
  BY DEF Decided, Terminal

\* In the invariant a child that has a task is not queued, and one without record is neither.
LEMMA QueuedMeans ==
  ASSUME IInv, NEW c \in Children
  PROVE  /\ Queued(c) <=> c \in ToSet(sched.queue[parent[c]])
         /\ c \in sched.active <=> InTask(c)
         /\ InTask(c) => ~Queued(c)
<1>1. Queued(c) <=> c \in ToSet(sched.queue[parent[c]])
  <2>1. sched.queue[parent[c]] \in Seq(Children)  BY ParentType DEF IInv, TypesOK, TaskTypes
  <2> HIDE DEF Queued
  <2>2. \A q \in Seq(Children) : Contains(q, c) <=> c \in ToSet(q)
    BY DEF Contains, ToSet
  <2> QED  BY <2>1, <2>2 DEF Queued
<1>2. c \in sched.active <=> InTask(c)  BY DEF IInv, SchedulerInv
<1>3. parent[c] \in Roots  BY ParentType
<1> QED  BY <1>1, <1>2, <1>3 DEF IInv, SchedulerInv, Sound

LEMMA NobodyQueued == \A c : ~Contains(<<>>, c)
  BY DEF Contains

\* Of the child that is being spawned.
LEMMA SpawnKnows ==
  ASSUME IInv, tool.op = "spawn", tool.at # "raised"
  PROVE  /\ tool.child \in Children /\ tool.root \in Roots /\ tool.root = parent[tool.child]
         /\ ~Queued(tool.child) /\ ~InTask(tool.child) /\ pc[tool.child] \in {"none", "gone"}
<1>1. tool.child \in Children /\ tool.root = parent[tool.child] /\ Untouched(tool.child)
  BY DEF IInv, SpawnInv
<1> QED  BY <1>1, ParentType DEF IInv, TypesOK, TypeOK, Untouched, InTask

\* Whoever is counted holds a unit that is reserved, and gives back no other.
LEMMA HolderIsCounted ==
  ASSUME IInv, NEW c \in Children, NEW some, held[c] \in some
  PROVE  Holders(parent[c], some) >= 1
<1> DEFINE S == {d \in Of(parent[c]) : held[d] \in some}
<1>1. c \in S  BY DEF Of
<1>2. IsFiniteSet(S) /\ Cardinality(S) \in Nat  BY HoldersType DEF Holders
<1> HIDE DEF S
<1>3. IsFiniteSet(S \ {c}) /\ Cardinality(S \ {c}) = Cardinality(S) - 1
  BY <1>1, <1>2, FS_RemoveElement
<1>4. Cardinality(S \ {c}) \in Nat  BY <1>3, FS_CardinalityType
<1>5. Cardinality(S) >= 1  BY <1>2, <1>3, <1>4
<1> QED  BY <1>5 DEF Holders, S

LEMMA HeldIsReserved ==
  ASSUME IInv, NEW c \in Children
  PROVE  LET b == ledger[parent[c]]
             t == Settle(b, held[c], 1)
         IN /\ parent[c] \in Roots /\ b \in Budgets /\ t \in Budgets
            /\ t.reserved = b.reserved - (IF held[c] \in {"fresh", "adopted"} THEN 1 ELSE 0)
            /\ t.adopted = b.adopted - (IF held[c] \in {"adopted"} THEN 1 ELSE 0)
<1> DEFINE r == parent[c]
           b == ledger[r]
<1>1. r \in Roots /\ b \in Budgets /\ held[c] \in {"none", "fresh", "adopted"}
  BY ParentType DEF IInv, TypesOK, TypeOK, LedgerTypes
<1>2. b.reserved \in Nat /\ b.adopted \in Nat  BY <1>1 DEF Budgets
<1>3. /\ Holders(r, {"fresh", "adopted"}) <= b.reserved /\ Holders(r, {"adopted"}) <= b.adopted
  <2>1. Holders(r, {"fresh", "adopted"}) \in Nat /\ Pending(r) \in Nat  BY HoldersType DEF Pending
  <2>2. /\ Holders(r, {"fresh", "adopted"}) + Pending(r) <= b.reserved
        /\ Holders(r, {"adopted"}) <= b.adopted
    BY <1>1 DEF IInv, BudgetInv
  <2> QED  BY <1>2, <2>1, <2>2
<1>4. CASE held[c] = "none"  BY <1>1, <1>2, <1>4, LedgerSteps
<1>5. CASE held[c] = "fresh"
  <2>1. b.reserved > 0
    <3>1. Holders(r, {"fresh", "adopted"}) >= 1  BY <1>5, HolderIsCounted
    <3>2. Holders(r, {"fresh", "adopted"}) \in Nat /\ Holders(r, {"adopted"}) \in Nat  BY HoldersType
    <3> HIDE DEF b, r
    <3> QED  BY <1>2, <1>3, <3>1, <3>2
  <2>2. 1 \in Nat /\ held[c] # "adopted"  BY <1>5
  <2> QED  BY <1>1, <1>2, <1>5, <2>1, <2>2, LedgerSteps
<1>6. CASE held[c] = "adopted"
  <2>1. b.reserved > 0 /\ b.adopted > 0
    <3>1. Holders(r, {"fresh", "adopted"}) >= 1 /\ Holders(r, {"adopted"}) >= 1  BY <1>6,
                                                                                    HolderIsCounted
    <3>2. Holders(r, {"fresh", "adopted"}) \in Nat /\ Holders(r, {"adopted"}) \in Nat  BY HoldersType
    <3> HIDE DEF b, r
    <3> QED  BY <1>2, <1>3, <3>1, <3>2
  <2> QED  BY <1>1, <1>2, <1>6, <2>1, LedgerSteps
<1> QED  BY <1>1, <1>4, <1>5, <1>6

\* Settling a child returns its unit, and no more.
LEMMA SettleKeeps ==
  ASSUME IInv, UNCHANGED <<parent, checkpoint>>, NEW c \in Children, SettleOf(c),
         \A r \in Roots : Pending(r)' <= Pending(r)
  PROVE  LedgerTypes' /\ BudgetInv'
<1> DEFINE t == Settle(ledger[parent[c]], held[c], 1)
<1>1. ledger' = [ledger EXCEPT ![parent[c]] = t] /\ held' = [held EXCEPT ![c] = "none"]
  BY DEF SettleOf
<1>2. /\ parent[c] \in Roots /\ ledger[parent[c]] \in Budgets /\ t \in Budgets
      /\ t.reserved = ledger[parent[c]].reserved - (IF held[c] \in {"fresh", "adopted"} THEN 1 ELSE 0)
      /\ t.adopted = ledger[parent[c]].adopted - (IF held[c] \in {"adopted"} THEN 1 ELSE 0)
  BY HeldIsReserved
<1> HIDE DEF t
<1>3. LedgerTypes'  BY <1>1, <1>2 DEF IInv, TypesOK, LedgerTypes
<1>4. ASSUME NEW r \in Roots
      PROVE  /\ Holders(r, {"fresh", "adopted"})' + Pending(r)' <= ledger'[r].reserved
             /\ Holders(r, {"adopted"})' <= ledger'[r].adopted
  <2> DEFINE all == Holders(r, {"fresh", "adopted"})
             ads == Holders(r, {"adopted"})
             now == ledger[r]
  <2>1. /\ all' = all - (IF r = parent[c] /\ held[c] \in {"fresh", "adopted"} THEN 1 ELSE 0)
        /\ ads' = ads - (IF r = parent[c] /\ held[c] \in {"adopted"} THEN 1 ELSE 0)
    BY <1>1, HoldersShrink
  <2>2. now \in Budgets /\ ledger'[r] = IF r = parent[c] THEN t ELSE now
    BY <1>1 DEF IInv, TypesOK, LedgerTypes
  <2>3. all + Pending(r) <= now.reserved /\ ads <= now.adopted  BY DEF IInv, BudgetInv
  <2>4. all \in Nat /\ ads \in Nat /\ Pending(r) \in Nat /\ Pending(r)' \in Nat /\ Pending(r)' <= Pending(r)
    BY HoldersType DEF Pending
  <2>5. now.reserved \in Nat /\ now.adopted \in Nat  BY <2>2 DEF Budgets
  <2> HIDE DEF all, ads, now
  <2>6. CASE r # parent[c]
    <3>1. all' = all /\ ads' = ads /\ ledger'[r] = now  BY <2>1, <2>2, <2>4, <2>6
    <3> QED  BY <2>3, <2>4, <2>5, <3>1 DEF all, ads
  <2>7. CASE r = parent[c]
    <3>1. now = ledger[parent[c]] /\ ledger'[r] = t  BY <2>2, <2>7 DEF now
    <3>2. CASE held[c] \in {"fresh", "adopted"} /\ held[c] \in {"adopted"}
      <4> all' = all - 1 /\ ads' = ads - 1 /\ ledger'[r].reserved = now.reserved - 1
          /\ ledger'[r].adopted = now.adopted - 1
        BY <1>2, <2>1, <2>7, <3>1, <3>2
      <4> QED  BY <2>3, <2>4, <2>5 DEF all, ads
    <3>3. CASE held[c] \in {"fresh", "adopted"} /\ held[c] \notin {"adopted"}
      <4> all' = all - 1 /\ ads' = ads /\ ledger'[r].reserved = now.reserved - 1
          /\ ledger'[r].adopted = now.adopted
        BY <1>2, <2>1, <2>4, <2>5, <2>7, <3>1, <3>3
      <4> QED  BY <2>3, <2>4, <2>5 DEF all, ads
    <3>4. CASE held[c] \notin {"fresh", "adopted"}
      <4> all' = all /\ ads' = ads /\ ledger'[r].reserved = now.reserved
          /\ ledger'[r].adopted = now.adopted
        BY <1>2, <2>1, <2>4, <2>5, <2>7, <3>1, <3>4
      <4> QED  BY <2>3, <2>4, <2>5 DEF all, ads
    <3> QED  BY <3>2, <3>3, <3>4
  <2> QED  BY <2>6, <2>7
<1>5. BudgetInv'  BY <1>4 DEF BudgetInv
<1> QED  BY <1>3, <1>5

LEMMA SpawnPays ==
  ASSUME IInv, tool.op = "spawn", tool.at = "reserved"
  PROVE  LET b == ledger[tool.root]
             t == Settle(b, "fresh", 0)
         IN t \in Budgets /\ t.reserved = b.reserved - 1 /\ t.adopted = b.adopted
<1> DEFINE b == ledger[tool.root]
           n == Holders(tool.root, {"fresh", "adopted"})
<1>1. tool.root \in Roots /\ b \in Budgets /\ n + Pending(tool.root) <= b.reserved
  BY SpawnKnows DEF IInv, TypesOK, LedgerTypes, BudgetInv
<1>2. Pending(tool.root) = 1 /\ n \in Nat  BY HoldersType DEF Pending
<1>3. b.reserved \in Nat /\ b.adopted \in Nat  BY <1>1 DEF Budgets
<1> HIDE DEF b, n
<1>4. b.reserved > 0  BY <1>1, <1>2, <1>3
<1>5. /\ Settle(b, "fresh", 0) \in Budgets /\ Settle(b, "fresh", 0).reserved = b.reserved - 1
      /\ Settle(b, "fresh", 0).adopted = b.adopted - 0
  BY <1>1, <1>4, LedgerSteps
<1> QED  BY <1>3, <1>5 DEF b

\* A scheduler that starts.
LEMMA EmptySound ==
  Sound(EmptyScheduler) /\ EmptyScheduler \in [queue : [Roots -> Seq(Children)], order : Seq(Roots),
                                               active : SUBSET Children]
<1>1. <<>> \in Seq(Children) /\ <<>> \in Seq(Roots) /\ IsInjective(<<>>) /\ ToSet(<<>>) = {}
  BY DEF IsInjective, ToSet
<1>2. \A r : Of(r) \cap {} = {}  OBVIOUS
<1>3. Cardinality({}) = 0  BY FS_EmptySet
<1>4. 0 <= MaxRoot /\ 0 <= MaxWorkspace  OBVIOUS
<1> QED  BY <1>1, <1>2, <1>3, <1>4 DEF Sound, EmptyScheduler

\* In recovery everything held is adopted.
LEMMA AdoptedOnly ==
  ASSUME IInv, startup # "up", NEW r \in Roots
  PROVE  Holders(r, {"fresh", "adopted"}) = Holders(r, {"adopted"})
<1>1. {c \in Of(r) : held[c] \in {"fresh", "adopted"}} = {c \in Of(r) : held[c] \in {"adopted"}}
  BY DEF IInv, RecoveryInv, Of
<1> QED  BY <1>1 DEF Holders

\* An orphan's unit is adopted and settled at once.
LEMMA InterruptPays ==
  ASSUME IInv, NEW c \in Children, Interrupt(c)
  PROVE  LedgerTypes' /\ BudgetInv' /\ \A r \in Roots : ledger'[r].adopted <= ledger'[r].reserved
<1>1. /\ startup # "up" /\ UNCHANGED <<parent, held, tool, checkpoint>>
      /\ ledger' = ledger \/ (/\ Recoverable(c)
                             /\ ledger' = [ledger EXCEPT ![parent[c]] = Settle(Adopt(@), "adopted", 1)])
  BY DEF Interrupt, Scanning, Record, Blocked
<1>2. parent[c] \in Roots  BY ParentType
<1>3. \A r \in Roots : ledger[r].adopted <= ledger[r].reserved /\ ledger[r] \in Budgets
  BY <1>1 DEF IInv, RecoveryInv, TypesOK, LedgerTypes
<1>4. CASE ledger' = ledger
  BY <1>1, <1>3, <1>4, BudgetStays DEF IInv, TypesOK, LedgerTypes, Pending
<1>5. CASE /\ Recoverable(c)
           /\ ledger' = [ledger EXCEPT ![parent[c]] = Settle(Adopt(@), "adopted", 1)]
  <2> DEFINE b == ledger[parent[c]]
             t == Settle(Adopt(b), "adopted", 1)
  <2>1. b \in Budgets /\ b.reserved \in Nat /\ b.adopted \in Nat  BY <1>2, <1>3 DEF Budgets
  <2>2. b.reserved > b.adopted  BY <1>5 DEF Recoverable, Adoptable
  <2>3. Adopt(b) \in Budgets /\ Adopt(b).reserved = b.reserved /\ Adopt(b).adopted = b.adopted + 1
    BY <2>1 DEF Adopt, Budgets
  <2>4. t \in Budgets /\ t.reserved = b.reserved - 1 /\ t.adopted = b.adopted
    <3>1. Adopt(b).reserved > 0 /\ Adopt(b).adopted > 0  BY <2>1, <2>2, <2>3
    <3>2. t \in Budgets /\ t.reserved = Adopt(b).reserved - 1 /\ t.adopted = Adopt(b).adopted - 1
      BY <2>3, <3>1, LedgerSteps
    <3> QED  BY <2>1, <2>3, <3>2
  <2> HIDE DEF t
  <2>5. LedgerTypes'  BY <1>1, <1>5, <2>4 DEF IInv, TypesOK, LedgerTypes, t
  <2>6. ASSUME NEW r \in Roots
        PROVE  /\ Holders(r, {"fresh", "adopted"})' + Pending(r)' <= ledger'[r].reserved
               /\ Holders(r, {"adopted"})' <= ledger'[r].adopted
               /\ ledger'[r].adopted <= ledger'[r].reserved
    <3>1. /\ Holders(r, {"fresh", "adopted"})' = Holders(r, {"adopted"})
          /\ Holders(r, {"adopted"})' = Holders(r, {"adopted"})
      BY <1>1, HoldersStay, AdoptedOnly
    <3>2. Pending(r)' = 0  BY <1>1 DEF IInv, RecoveryInv, Pending, NoTool
    <3>3. Holders(r, {"adopted"}) <= ledger[r].adopted /\ Holders(r, {"adopted"}) \in Nat
      BY HoldersType DEF IInv, BudgetInv
    <3>4. ledger[r].adopted <= ledger[r].reserved /\ ledger[r].adopted \in Nat /\ ledger[r].reserved \in Nat
      BY <1>3 DEF Budgets
    <3>5. ledger'[r] = IF r = parent[c] THEN t ELSE ledger[r]
      BY <1>5 DEF IInv, TypesOK, LedgerTypes, t
    <3>6. CASE r = parent[c]
      <4>1. ledger'[r].reserved = ledger[r].reserved - 1 /\ ledger'[r].adopted = ledger[r].adopted
            /\ ledger[r].reserved > ledger[r].adopted
        BY <2>2, <2>4, <3>5, <3>6
      <4> QED  BY <3>1, <3>2, <3>3, <3>4, <4>1
    <3>7. CASE r # parent[c]
      <4>1. ledger'[r] = ledger[r]  BY <3>5, <3>7
      <4> QED  BY <3>1, <3>2, <3>3, <3>4, <4>1
    <3> QED  BY <3>6, <3>7
  <2> QED  BY <2>5, <2>6 DEF BudgetInv
<1> QED  BY <1>1, <1>4, <1>5

\* What deciding a record comes to: nothing; a terminal commit whose success nobody knows;
\* or one that is settled, and, unless it is cut short, told.
DecidesOrNot(c, decided) ==
    \/ NothingRecorded /\ UNCHANGED <<ledger, held, statusGeneration>>
    \/ /\ status[c] \notin Terminal /\ Record(c, decided)
       /\ \/ UNCHANGED <<ledger, held, statusGeneration>>
          \/ SettleOf(c) /\ statusGeneration' \in {statusGeneration, statusGeneration + 1}

\* Whichever it is, types and budget are kept, only the child's own record changes, from an
\* undecided one to one that its result repeats, and only a decided child loses its unit.
LEMMA DecidingKeeps ==
  ASSUME IInv, UNCHANGED <<parent, checkpoint>>, NEW c \in Children, NEW decided \in Terminal,
         DecidesOrNot(c, decided), \A r \in Roots : Pending(r)' <= Pending(r)
  PROVE  /\ status' \in [Children -> Statuses] /\ leased' \in [Children -> BOOLEAN]
         /\ result' \in [Children -> Terminal \cup {"none"}]
         /\ held' \in [Children -> {"none", "fresh", "adopted"}] /\ statusGeneration' \in Nat
         /\ LedgerTypes' /\ BudgetInv'
         /\ \A d \in Children :
               /\ status'[d] = status[d] \/ (/\ d = c /\ status[d] \notin Terminal
                                            /\ status'[d] = decided)
               /\ d # c => leased'[d] = leased[d] /\ result'[d] = result[d] /\ held'[d] = held[d]
               /\ status'[d] \in Terminal => result'[d] = status'[d]
               /\ held'[d] = held[d] \/ status'[d] \in Terminal
<1>1. /\ status \in [Children -> Statuses] /\ leased \in [Children -> BOOLEAN]
      /\ result \in [Children -> Terminal \cup {"none"}]
      /\ held \in [Children -> {"none", "fresh", "adopted"}] /\ statusGeneration \in Nat
      /\ \A d \in Children : status[d] \in Terminal => result[d] = status[d]
  BY DEF IInv, TypesOK, TypeOK, ServiceTypes, RecordInv, RecordOf
<1>2. CASE NothingRecorded /\ UNCHANGED <<ledger, held, statusGeneration>>
  <2>1. LedgerTypes'  BY <1>2 DEF IInv, TypesOK, LedgerTypes
  <2>2. BudgetInv'  BY <1>2, BudgetStays
  <2> QED  BY <1>1, <1>2, <2>1, <2>2 DEF NothingRecorded
<1>3. CASE status[c] \notin Terminal /\ Record(c, decided)
  <2>1. /\ status' = [status EXCEPT ![c] = decided] /\ leased' = [leased EXCEPT ![c] = FALSE]
        /\ result' = [result EXCEPT ![c] = decided]
        /\ decided \in Statuses /\ decided \in Terminal \cup {"none"}
    BY <1>3 DEF Record, Statuses
  <2> HIDE DEF Terminal, Statuses
  <2>2. /\ status' \in [Children -> Statuses] /\ leased' \in [Children -> BOOLEAN]
        /\ result' \in [Children -> Terminal \cup {"none"}]
    BY <1>1, <2>1
  <2>3. \A d \in Children :
          /\ status'[d] = IF d = c THEN decided ELSE status[d]
          /\ result'[d] = IF d = c THEN decided ELSE result[d]
          /\ d # c => leased'[d] = leased[d]
    BY <1>1, <2>1
  <2>4. CASE UNCHANGED <<ledger, held, statusGeneration>>
    <3>1. LedgerTypes'  BY <2>4 DEF IInv, TypesOK, LedgerTypes
    <3>2. BudgetInv'  BY <2>4, BudgetStays
    <3> QED  BY <1>1, <1>3, <2>2, <2>3, <2>4, <3>1, <3>2
  <2>5. CASE SettleOf(c) /\ statusGeneration' \in {statusGeneration, statusGeneration + 1}
    <3>1. LedgerTypes' /\ BudgetInv'  BY <2>5, SettleKeeps
    <3>2. held' = [held EXCEPT ![c] = "none"]  BY <2>5 DEF SettleOf
    <3>3. held' \in [Children -> {"none", "fresh", "adopted"}] /\ statusGeneration' \in Nat
      BY <1>1, <2>5, <3>2
    <3>4. \A d \in Children : d # c => held'[d] = held[d]  BY <1>1, <3>2
    <3> QED  BY <1>1, <1>3, <2>2, <2>3, <3>1, <3>3, <3>4
  <2> QED  BY <1>2, <1>3, <2>4, <2>5 DEF DecidesOrNot, NothingRecorded
<1> QED  BY <1>2, <1>3 DEF DecidesOrNot

-----------------------------------------------------------------------------
(* Every action that moves no child between a queue and a slot preserves    *)
(* the invariant: one lemma for each.                                       *)

LEMMA SpawnReserveKeeps ==
  ASSUME IInv, NEW r \in Roots, NEW c \in Children, SpawnReserve(r,c) PROVE IInv'
<1>1. LedgerTypes'  BY DEF Budgets, LedgerTypes, TypesOK, NoTool, Reserve, Affordable, Up,
                           SpawnReserve, IInv
<1>2. TypeOK'  BY <1>1 DEF TypeOK, TypesOK, Reserve, SpawnReserve, IInv
<1>3. TaskTypes'  BY DEF TaskTypes, TypesOK, SpawnReserve, IInv
<1>4. ServiceTypes'  BY DEF ServiceTypes, TypesOK, SpawnReserve, IInv
<1>5. OtherTypes'  BY DEF OtherTypes, TypesOK, SpawnReserve, IInv
<1>6. SchedulerInv'
  <2>1. \A d \in Children : InTask(d)' = InTask(d)  BY DEF SpawnReserve, InTask
  <2> QED  BY <2>1, SchedulerStays DEF SpawnReserve
<1>7. SpawnInv'  BY DEF InTask, Queued, Untouched, SpawnInv, SpawnReserve, IInv
<1>8. CancelInv'  BY DEF InTask, Queued, Of, CancelInv, SpawnReserve, IInv
<1>9. RecordInv'
  <2> SUFFICES ASSUME NEW d \in Children PROVE RecordOf(d)'  BY DEF RecordInv
  <2> QED  BY DEF Queued, AtWork, RecordOf, RecordInv, SpawnReserve, IInv
<1>10. RecoveryInv'  BY DEF RecoveryInv, Up, SpawnReserve
<1>11. BudgetInv'
  <2>1. /\ ledger' = [ledger EXCEPT ![r] = Reserve(@)] /\ UNCHANGED <<parent, held>>
        /\ tool = NoTool /\ tool'.op = "spawn" /\ tool'.at = "reserved" /\ tool'.root = r
    BY DEF SpawnReserve
  <2> SUFFICES ASSUME NEW p \in Roots
               PROVE  /\ Holders(p, {"fresh", "adopted"})' + Pending(p)' <= ledger'[p].reserved
                      /\ Holders(p, {"adopted"})' <= ledger'[p].adopted
    BY DEF BudgetInv
  <2>2. /\ Holders(p, {"fresh", "adopted"})' = Holders(p, {"fresh", "adopted"})
        /\ Holders(p, {"adopted"})' = Holders(p, {"adopted"})
    BY <2>1, HoldersStay
  <2>3. Pending(p) = 0 /\ Pending(p)' = IF p = r THEN 1 ELSE 0  BY <2>1 DEF NoTool, Pending
  <2>4. /\ Holders(p, {"fresh", "adopted"}) + Pending(p) <= ledger[p].reserved
        /\ Holders(p, {"adopted"}) <= ledger[p].adopted /\ ledger[p] \in Budgets
    BY DEF LedgerTypes, TypesOK, BudgetInv, IInv
  <2>5. Holders(p, {"fresh", "adopted"}) \in Nat /\ Holders(p, {"adopted"}) \in Nat  BY HoldersType
  <2>6. ledger[p].reserved \in Nat /\ ledger[p].adopted \in Nat  BY <2>4 DEF Budgets
  <2>7. CASE p = r
    <3>1. ledger'[p].reserved = ledger[p].reserved + 1 /\ ledger'[p].adopted = ledger[p].adopted
      BY <2>1, <2>4, <2>7 DEF Reserve, LedgerTypes, TypesOK, IInv
    <3>2. Pending(p)' = 1  BY <2>3, <2>7
    <3> QED  BY <2>2, <2>3, <2>4, <2>5, <2>6, <3>1, <3>2
  <2>8. CASE p # r
    <3>1. ledger'[p] = ledger[p] /\ Pending(p)' = 0  BY <2>1, <2>3, <2>8
    <3> QED  BY <2>2, <2>3, <2>4, <2>5, <2>6, <3>1
  <2> QED  BY <2>7, <2>8
<1>12. WaitInv'  BY DEF Heard, WaitInv, SpawnReserve
<1>13. CalmInv'
  <2> SUFFICES ASSUME Calm', NEW d \in Children PROVE CalmOf(d)'  BY DEF CalmInv
  <2> QED  BY DEF InTask, Queued, Undecided, CalmOf, Calm, CalmInv, NoTool, SpawnReserve, IInv
<1> QED  BY <1>1, <1>2, <1>3, <1>4, <1>5, <1>6, <1>7, <1>8, <1>9, <1>10, <1>11, <1>12, <1>13
            DEF TypesOK, IInv

LEMMA SpawnPersistKeeps ==
  ASSUME IInv, SpawnPersist PROVE IInv'
<1>1. LedgerTypes'  BY DEF LedgerTypes, TypesOK, SpawnPersist, IInv
<1>2. TypeOK'  BY <1>1 DEF Statuses, TypeOK, TypesOK, SpawnPersist, IInv
<1>3. TaskTypes'  BY DEF TaskTypes, TypesOK, SpawnPersist, IInv
<1>4. ServiceTypes'  BY DEF ServiceTypes, TypesOK, SpawnPersist, IInv
<1>5. OtherTypes'  BY DEF OtherTypes, TypesOK, SpawnPersist, IInv
<1>6. SchedulerInv'
  <2>1. \A d \in Children : InTask(d)' = InTask(d)  BY DEF SpawnPersist, InTask
  <2> QED  BY <2>1, SchedulerStays DEF SpawnPersist
<1>7. SpawnInv'
  <2>1. /\ tool' = [tool EXCEPT !.at = "persisted"] /\ tool.op = "spawn" /\ tool.at = "reserved"
        /\ status' = [status EXCEPT ![tool.child] = "queued"]
        /\ held' = [held EXCEPT ![tool.child] = "fresh"]
        /\ UNCHANGED <<parent, root, sched, pc, cancel, lock>>
    BY DEF SpawnPersist, Spawning
  <2>2. /\ status \in [Children -> Statuses] /\ held \in [Children -> {"none", "fresh", "adopted"}]
        /\ tool'.op = "spawn" /\ tool'.at = "persisted" /\ tool'.child = tool.child
        /\ tool'.root = tool.root
    BY <2>1 DEF TypeOK, ServiceTypes, TypesOK, IInv
  <2>3. \A d \in Children : (Untouched(d)' <=> Untouched(d)) /\ (pc'[d] = "committed" => lock' = d)
    BY <2>1 DEF Untouched, InTask, Queued, SpawnInv, IInv
  <2>4. /\ tool.child \in Children /\ tool.root = parent[tool.child] /\ lock = "spawn"
        /\ root[tool.root] = "running" /\ Untouched(tool.child)
    BY <2>1 DEF SpawnInv, IInv
  <2>5. \A d \in Children : status'[d] = "none" => Untouched(d)'
    BY <2>1, <2>2, <2>3 DEF SpawnInv, IInv
  <2>6. status'[tool.child] = "queued" /\ held'[tool.child] = "fresh"  BY <2>1, <2>2, <2>4
  <2> QED  BY <2>1, <2>2, <2>3, <2>4, <2>5, <2>6 DEF SpawnInv
<1>8. CancelInv'  BY DEF InTask, Queued, Of, CancelInv, SpawnPersist, IInv
<1>9. RecordInv'
  <2> SUFFICES ASSUME NEW d \in Children PROVE RecordOf(d)'  BY DEF RecordInv
  <2>1. /\ tool.op = "spawn" /\ tool.at = "reserved" /\ tool.child \in Children
        /\ status' = [status EXCEPT ![tool.child] = "queued"]
        /\ UNCHANGED <<parent, leased, result, sched, pc, cancel>>
    BY DEF SpawnInv, SpawnPersist, Spawning, IInv
  <2>2. RecordOf(d) /\ Untouched(tool.child)  BY <2>1 DEF RecordInv, SpawnInv, IInv
  <2>3. /\ status \in [Children -> Statuses] /\ held \in [Children -> {"none", "fresh", "adopted"}]
        /\ status'[d] = IF d = tool.child THEN "queued" ELSE status[d]
        /\ d # tool.child => held'[d] = held[d]
    BY <2>1 DEF SpawnPersist, TypeOK, TypesOK, IInv
  <2>4. AtWork(d)' => AtWork(d) /\ d # tool.child
    BY <2>1, <2>2 DEF AtWork, Untouched, Queued, InTask
  <2>5. pc[tool.child] # "running"  BY <2>2 DEF Untouched, InTask
  <2> QED  BY <2>1, <2>2, <2>3, <2>4, <2>5 DEF RecordOf, Terminal
<1>10. RecoveryInv'  BY DEF RecoveryInv, Up, Spawning, SpawnPersist
<1>11. BudgetInv'
  <2>1. /\ held' = [held EXCEPT ![tool.child] = "fresh"] /\ UNCHANGED <<parent, ledger>>
        /\ tool.op = "spawn" /\ tool.at = "reserved" /\ tool' = [tool EXCEPT !.at = "persisted"]
    BY DEF Spawning, SpawnPersist
  <2>2. tool.child \in Children /\ tool.root = parent[tool.child]  BY <2>1, SpawnKnows
  <2> SUFFICES ASSUME NEW r \in Roots
               PROVE  /\ Holders(r, {"fresh", "adopted"})' + Pending(r)' <= ledger[r].reserved
                      /\ Holders(r, {"adopted"})' <= ledger[r].adopted
    BY <2>1 DEF BudgetInv
  <2>3. /\ Holders(r, {"fresh", "adopted"})' <= Holders(r, {"fresh", "adopted"})
                                                 + (IF r = parent[tool.child] /\ "fresh" \in {"fresh", "adopted"} THEN 1 ELSE 0)
        /\ Holders(r, {"adopted"})' <= Holders(r, {"adopted"})
                                        + (IF r = parent[tool.child] /\ "fresh" \in {"adopted"} THEN 1 ELSE 0)
    BY <2>1, <2>2, HoldersGrow
  <2>4. Pending(r)' = 0 /\ Pending(r) = IF r = tool.root THEN 1 ELSE 0
    BY <2>1 DEF Pending
  <2>5. /\ Holders(r, {"fresh", "adopted"}) + Pending(r) <= ledger[r].reserved
        /\ Holders(r, {"adopted"}) <= ledger[r].adopted /\ ledger[r] \in Budgets
    BY DEF LedgerTypes, TypesOK, BudgetInv, IInv
  <2>6. /\ Holders(r, {"fresh", "adopted"}) \in Nat /\ Holders(r, {"adopted"}) \in Nat
        /\ Holders(r, {"fresh", "adopted"})' \in Nat /\ Holders(r, {"adopted"})' \in Nat
    BY <2>1, HoldersType, HoldersTypePrime
  <2>7. ledger[r].reserved \in Nat /\ ledger[r].adopted \in Nat  BY <2>5 DEF Budgets
  <2>8. CASE r = tool.root
    <3>1. /\ Holders(r, {"fresh", "adopted"})' <= Holders(r, {"fresh", "adopted"}) + 1
          /\ Holders(r, {"adopted"})' <= Holders(r, {"adopted"}) + 0 /\ Pending(r) = 1
      BY <2>2, <2>3, <2>4, <2>8
    <3> QED  BY <2>4, <2>5, <2>6, <2>7, <3>1
  <2>9. CASE r # tool.root
    <3>1. /\ Holders(r, {"fresh", "adopted"})' <= Holders(r, {"fresh", "adopted"}) + 0
          /\ Holders(r, {"adopted"})' <= Holders(r, {"adopted"}) + 0 /\ Pending(r) = 0
      BY <2>2, <2>3, <2>4, <2>9
    <3> QED  BY <2>4, <2>5, <2>6, <2>7, <3>1
  <2> QED  BY <2>8, <2>9
<1>12. WaitInv'  BY DEF Heard, WaitInv, Spawning, SpawnPersist
<1>13. CalmInv'
  <2> SUFFICES ASSUME Calm', NEW d \in Children PROVE CalmOf(d)'  BY DEF CalmInv
  <2>1. CalmOf(d) /\ ~Queued(tool.child) /\ pc[tool.child] \in {"none", "gone"}
    BY SpawnKnows DEF Spawning, SpawnPersist, Calm, CalmInv, IInv
  <2> QED  BY <2>1 DEF InTask, Queued, Undecided, CalmOf, Spawning, SpawnPersist
<1> QED  BY <1>1, <1>2, <1>3, <1>4, <1>5, <1>6, <1>7, <1>8, <1>9, <1>10, <1>11, <1>12, <1>13
            DEF TypesOK, IInv

LEMMA SpawnRefusedKeeps ==
  ASSUME IInv, SpawnRefused PROVE IInv'
<1>1. LedgerTypes'  BY SpawnPays DEF Spawning, SpawnRefused, LedgerTypes, TypesOK, IInv
<1>2. TypeOK'  BY <1>1 DEF TypeOK, TypesOK, Budgets, LedgerTypes, SpawnRefused, IInv
<1>3. TaskTypes'  BY DEF TaskTypes, TypesOK, SpawnRefused, IInv
<1>4. ServiceTypes'  BY DEF ServiceTypes, TypesOK, NoTool, SpawnRefused, IInv
<1>5. OtherTypes'  BY DEF OtherTypes, TypesOK, Fault, SpawnRefused, IInv
<1>6. SchedulerInv'
  <2>1. \A d \in Children : InTask(d)' = InTask(d)  BY DEF SpawnRefused, InTask
  <2> QED  BY <2>1, SchedulerStays DEF SpawnRefused
<1>7. SpawnInv'  BY DEF InTask, Queued, Untouched, SpawnInv, NoTool, Spawning, SpawnRefused, IInv
<1>8. CancelInv'  BY DEF InTask, Queued, Of, CancelInv, NoTool, SpawnRefused, IInv
<1>9. RecordInv'
  <2> SUFFICES ASSUME NEW d \in Children PROVE RecordOf(d)'  BY DEF RecordInv
  <2> QED  BY DEF Queued, AtWork, RecordOf, RecordInv, SpawnRefused, IInv
<1>10. RecoveryInv'  BY DEF RecoveryInv, Up, Spawning, SpawnRefused
<1>11. BudgetInv'
  <2>1. /\ ledger' = [ledger EXCEPT ![tool.root] = Settle(@, "fresh", 0)] /\ tool' = NoTool
        /\ UNCHANGED <<parent, held>> /\ tool.op = "spawn" /\ tool.at = "reserved"
    BY DEF Spawning, SpawnRefused
  <2> SUFFICES ASSUME NEW r \in Roots
               PROVE  /\ Holders(r, {"fresh", "adopted"})' + Pending(r)' <= ledger'[r].reserved
                      /\ Holders(r, {"adopted"})' <= ledger'[r].adopted
    BY DEF BudgetInv
  <2>2. /\ Holders(r, {"fresh", "adopted"})' = Holders(r, {"fresh", "adopted"})
        /\ Holders(r, {"adopted"})' = Holders(r, {"adopted"})
    BY <2>1, HoldersStay
  <2>3. Pending(r)' = 0 /\ Pending(r) = IF r = tool.root THEN 1 ELSE 0  BY <2>1 DEF NoTool, Pending
  <2>4. /\ Holders(r, {"fresh", "adopted"}) + Pending(r) <= ledger[r].reserved
        /\ Holders(r, {"adopted"}) <= ledger[r].adopted /\ ledger[r] \in Budgets
    BY DEF LedgerTypes, TypesOK, BudgetInv, IInv
  <2>5. Holders(r, {"fresh", "adopted"}) \in Nat /\ Holders(r, {"adopted"}) \in Nat  BY HoldersType
  <2>6. ledger[r].reserved \in Nat /\ ledger[r].adopted \in Nat  BY <2>4 DEF Budgets
  <2>7. CASE r = tool.root
    <3>1. ledger'[r] = Settle(ledger[r], "fresh", 0)  BY <2>1, <2>7 DEF LedgerTypes, TypesOK, IInv
    <3>2. ledger'[r].reserved = ledger[r].reserved - 1 /\ ledger'[r].adopted = ledger[r].adopted
      BY <2>1, <2>7, <3>1, SpawnPays
    <3>3. Pending(r) = 1  BY <2>3, <2>7
    <3> QED  BY <2>2, <2>3, <2>4, <2>5, <2>6, <3>2, <3>3
  <2>8. CASE r # tool.root
    <3>1. ledger'[r] = ledger[r] /\ Pending(r) = 0  BY <2>1, <2>3, <2>8
    <3> QED  BY <2>2, <2>3, <2>4, <2>5, <2>6, <3>1
  <2> QED  BY <2>7, <2>8
<1>12. WaitInv'  BY DEF Heard, WaitInv, NoTool, SpawnRefused
<1>13. CalmInv'
  <2> SUFFICES ASSUME Calm', NEW d \in Children PROVE CalmOf(d)'  BY DEF CalmInv
  <2> QED  BY DEF OtherTypes, TypesOK, Calm, Fault, SpawnRefused, IInv
<1> QED  BY <1>1, <1>2, <1>3, <1>4, <1>5, <1>6, <1>7, <1>8, <1>9, <1>10, <1>11, <1>12, <1>13
            DEF TypesOK, IInv

LEMMA SpawnLostKeeps ==
  ASSUME IInv, SpawnLost PROVE IInv'
<1>1. LedgerTypes'  BY DEF LedgerTypes, TypesOK, SpawnLost, IInv
<1>2. TypeOK'  BY <1>1 DEF Statuses, TypeOK, TypesOK, SpawnLost, IInv
<1>3. TaskTypes'  BY DEF TaskTypes, TypesOK, SpawnLost, IInv
<1>4. ServiceTypes'  BY DEF ServiceTypes, TypesOK, NoTool, SpawnLost, IInv
<1>5. OtherTypes'  BY DEF OtherTypes, TypesOK, Fault, SpawnLost, IInv
<1>6. SchedulerInv'
  <2>1. \A d \in Children : InTask(d)' = InTask(d)  BY DEF SpawnLost, InTask
  <2> QED  BY <2>1, SchedulerStays DEF SpawnLost
<1>7. SpawnInv'  BY DEF InTask, Queued, Untouched, SpawnInv, NoTool, Spawning, SpawnLost, IInv
<1>8. CancelInv'  BY DEF InTask, Queued, Of, CancelInv, NoTool, SpawnLost, IInv
<1>9. RecordInv'
  <2> SUFFICES ASSUME NEW d \in Children PROVE RecordOf(d)'  BY DEF RecordInv
  <2>1. /\ tool.op = "spawn" /\ tool.at = "reserved" /\ tool.child \in Children
        /\ status' = [status EXCEPT ![tool.child] = "queued"]
        /\ UNCHANGED <<parent, leased, result, sched, pc, cancel>>
    BY DEF SpawnInv, SpawnLost, Spawning, IInv
  <2>2. RecordOf(d) /\ Untouched(tool.child)  BY <2>1 DEF RecordInv, SpawnInv, IInv
  <2>3. /\ status \in [Children -> Statuses] /\ held \in [Children -> {"none", "fresh", "adopted"}]
        /\ status'[d] = IF d = tool.child THEN "queued" ELSE status[d]
        /\ d # tool.child => held'[d] = held[d]
    BY <2>1 DEF SpawnLost, TypeOK, TypesOK, IInv
  <2>4. AtWork(d)' => AtWork(d) /\ d # tool.child
    BY <2>1, <2>2 DEF AtWork, Untouched, Queued, InTask
  <2>5. pc[tool.child] # "running"  BY <2>2 DEF Untouched, InTask
  <2> QED  BY <2>1, <2>2, <2>3, <2>4, <2>5 DEF RecordOf, Terminal
<1>10. RecoveryInv'  BY DEF RecoveryInv, Up, Spawning, SpawnLost
<1>11. BudgetInv'  BY BudgetStays DEF NoTool, Pending, SpawnLost
<1>12. WaitInv'  BY DEF Heard, WaitInv, NoTool, SpawnLost
<1>13. CalmInv'
  <2> SUFFICES ASSUME Calm', NEW d \in Children PROVE CalmOf(d)'  BY DEF CalmInv
  <2> QED  BY DEF OtherTypes, TypesOK, Calm, Fault, SpawnLost, IInv
<1> QED  BY <1>1, <1>2, <1>3, <1>4, <1>5, <1>6, <1>7, <1>8, <1>9, <1>10, <1>11, <1>12, <1>13
            DEF TypesOK, IInv

LEMMA SpawnFailedKeeps ==
  ASSUME IInv, SpawnFailed PROVE IInv'
<1> DEFINE c == tool.child
<1>a. /\ "failed" \in Terminal /\ DecidesOrNot(c, "failed")
      /\ UNCHANGED <<parent, rootDone, checkpoint, tasks, cancel, roots, startupVars, crashes>>
      /\ startup = "up" /\ tool.op = "spawn" /\ tool.at = "raised" /\ tool' = NoTool /\ lock' = "free"
      /\ \/ Decide(c, "failed") /\ UNCHANGED faults
         \/ faults' = faults + 1
  BY DEF SpawnFailed, Spawning, Decide, DecideFails, DecidesOrNot, Fault, NoFault, Terminal, Up
<1>b. /\ c \in Children /\ pc[c] # "running" /\ lock = "spawn" /\ "spawn" \notin Children
      /\ \A r \in Roots : Pending(r)' <= Pending(r)
  BY <1>a DEF SpawnInv, IInv, Pending, NoTool
<1> HIDE DEF c
<1>c. /\ status' \in [Children -> Statuses] /\ leased' \in [Children -> BOOLEAN]
      /\ result' \in [Children -> Terminal \cup {"none"}]
      /\ held' \in [Children -> {"none", "fresh", "adopted"}] /\ statusGeneration' \in Nat
      /\ LedgerTypes' /\ BudgetInv'
      /\ \A d \in Children :
            /\ status'[d] = status[d] \/ (/\ d = c /\ status[d] \notin Terminal
                                         /\ status'[d] \in Terminal)
            /\ d # c => leased'[d] = leased[d] /\ held'[d] = held[d]
            /\ status'[d] \in Terminal => result'[d] = status'[d]
            /\ held'[d] = held[d] \/ status'[d] \in Terminal
  BY <1>a, <1>b, DecidingKeeps
<1>d. \A d \in Children : InTask(d)' = InTask(d) /\ Queued(d)' = Queued(d)  BY <1>a DEF InTask,
                                                                               Queued
<1>1. LedgerTypes'  BY <1>c
<1>2. TypeOK'
  <2>1. \A q \in Roots : ledger'[q].reserved \in Nat /\ checkpoint'[q].reserved \in Nat
    BY <1>c DEF Budgets, LedgerTypes
  <2> QED  BY <1>a, <1>c, <2>1 DEF TypeOK, TypesOK, IInv
<1>3. TaskTypes'  BY <1>a DEF TaskTypes, TypesOK, IInv
<1>4. ServiceTypes'  BY <1>a, <1>c DEF ServiceTypes, TypesOK, NoTool, IInv
<1>5. OtherTypes'  BY <1>a DEF OtherTypes, TypesOK, IInv
<1>6. SchedulerInv'  BY <1>a, <1>d, SchedulerStays
<1>7. SpawnInv'
  <2>1. \A d \in Children : status'[d] = "none" => status[d] = "none"  BY <1>c DEF Terminal
  <2>2. \A d \in Children : pc'[d] # "committed"  BY <1>a, <1>b DEF SpawnInv, IInv
  <2> QED  BY <1>a, <1>d, <2>1, <2>2 DEF Untouched, SpawnInv, NoTool, IInv
<1>8. CancelInv'  BY <1>a, <1>d DEF Of, CancelInv, NoTool, IInv
<1>9. RecordInv'
  <2> SUFFICES ASSUME NEW d \in Children PROVE RecordOf(d)'  BY DEF RecordInv
  <2>1. RecordOf(d)  BY DEF RecordInv, IInv
  <2> QED  BY <1>a, <1>b, <1>c, <1>d, <2>1 DEF AtWork, RecordOf
<1>10. RecoveryInv'  BY <1>a DEF RecoveryInv
<1>11. BudgetInv'  BY <1>c
<1>12. WaitInv'  BY <1>a DEF WaitInv, NoTool
<1>13. CalmInv'
  <2> SUFFICES ASSUME Calm', NEW d \in Children PROVE CalmOf(d)'  BY DEF CalmInv
  <2>1. UNCHANGED faults /\ Decide(c, "failed")
    BY <1>a DEF Calm, IInv, TypesOK, OtherTypes
  <2>2. CalmOf(d)  BY <1>a, <2>1 DEF Calm, CalmInv, IInv
  <2>3. Undecided(d)' => Undecided(d) /\ d # c
    <3>1. status'[c] \in Terminal
      BY <1>a, <1>b, <2>1 DEF Decide, Record, NothingRecorded, TypesOK, TypeOK, IInv
    <3> QED  BY <1>c, <3>1 DEF Undecided
  <2>4. status[d] \in Terminal => status'[d] \in Terminal  BY <1>c
  <2> QED  BY <1>a, <1>d, <2>2, <2>3, <2>4 DEF CalmOf, c
<1> QED  BY <1>1, <1>2, <1>3, <1>4, <1>5, <1>6, <1>7, <1>8, <1>9, <1>10, <1>11, <1>12, <1>13
            DEF TypesOK, IInv

LEMMA SpawnAbandonedKeeps ==
  ASSUME IInv, SpawnAbandoned PROVE IInv'
<1>1. LedgerTypes'  BY DEF LedgerTypes, TypesOK, SpawnAbandoned, IInv
<1>2. TypeOK'  BY <1>1 DEF TypeOK, TypesOK, SpawnAbandoned, IInv
<1>3. TaskTypes'  BY DEF TaskTypes, TypesOK, SpawnAbandoned, IInv
<1>4. ServiceTypes'  BY DEF ServiceTypes, TypesOK, NoTool, SpawnAbandoned, IInv
<1>5. OtherTypes'  BY DEF OtherTypes, TypesOK, SpawnAbandoned, IInv
<1>6. SchedulerInv'
  <2>1. \A d \in Children : InTask(d)' = InTask(d)  BY DEF SpawnAbandoned, InTask
  <2> QED  BY <2>1, SchedulerStays DEF SpawnAbandoned
<1>7. SpawnInv'  BY DEF InTask, Queued, Untouched, SpawnInv, NoTool, Spawning, SpawnAbandoned, IInv
<1>8. CancelInv'  BY DEF InTask, Queued, Of, CancelInv, NoTool, SpawnAbandoned, IInv
<1>9. RecordInv'
  <2> SUFFICES ASSUME NEW d \in Children PROVE RecordOf(d)'  BY DEF RecordInv
  <2> QED  BY DEF Queued, AtWork, RecordOf, RecordInv, SpawnAbandoned, IInv
<1>10. RecoveryInv'  BY DEF RecoveryInv, Up, Spawning, SpawnAbandoned
<1>11. BudgetInv'  BY BudgetStays DEF NoTool, SpawnAbandoned, Pending
<1>12. WaitInv'  BY DEF Heard, WaitInv, NoTool, SpawnAbandoned
<1>13. CalmInv'
  <2> SUFFICES ASSUME Calm', NEW d \in Children PROVE CalmOf(d)'  BY DEF CalmInv
  <2>1. CalmOf(d) /\ (tool.op = "spawn" => tool.root = parent[tool.child])
    BY DEF SpawnInv, SpawnAbandoned, Calm, CalmInv, IInv
  <2> QED  BY <2>1 DEF InTask, Queued, Undecided, CalmOf, SpawnAbandoned
<1> QED  BY <1>1, <1>2, <1>3, <1>4, <1>5, <1>6, <1>7, <1>8, <1>9, <1>10, <1>11, <1>12, <1>13
            DEF TypesOK, IInv

LEMMA StartedKeeps ==
  ASSUME IInv, NEW c \in Children, Started(c) PROVE IInv'
<1>1. LedgerTypes'  BY DEF LedgerTypes, TypesOK, Started, IInv
<1>2. TypeOK'  BY <1>1 DEF Statuses, TypeOK, TypesOK, Started, IInv
<1>3. TaskTypes'  BY DEF TaskTypes, TypesOK, Started, IInv
<1>4. ServiceTypes'  BY DEF ServiceTypes, TypesOK, Started, IInv
<1>5. OtherTypes'  BY DEF OtherTypes, TypesOK, Started, IInv
<1>6. SchedulerInv'
  <2>1. \A d \in Children : InTask(d)' = InTask(d)  BY DEF Started, InTask
  <2> QED  BY <2>1, SchedulerStays DEF Started
<1>7. SpawnInv'  BY DEF InTask, Queued, Untouched, SpawnInv, Started, IInv
<1>8. CancelInv'  BY DEF InTask, Queued, Of, CancelInv, Started, IInv
<1>9. RecordInv'
  <2> SUFFICES ASSUME NEW d \in Children PROVE RecordOf(d)'  BY DEF RecordInv
  <2>1. RecordOf(d) /\ pc[c] = "dispatched" /\ status[c] \notin Terminal
    BY DEF Started, MayStart, RecordInv, IInv
  <2>2. AtWork(d)' => AtWork(d)  BY <2>1 DEF AtWork, Queued, Started, TypeOK, TypesOK, IInv
  <2>3. "running" \in Leased \ Terminal  BY DEF Leased, Terminal
  <2> QED  BY <2>1, <2>2, <2>3 DEF TypeOK, TypesOK, AtWork, RecordOf, Started, IInv
<1>10. RecoveryInv'  BY DEF RecoveryInv, Up, Started
<1>11. BudgetInv'  BY BudgetStays DEF Started, Pending
<1>12. WaitInv'  BY DEF Terminal, Of, Heard, WaitInv, Started, IInv
<1>13. CalmInv'
  <2> SUFFICES ASSUME Calm', NEW d \in Children PROVE CalmOf(d)'  BY DEF CalmInv
  <2>1. CalmOf(d) /\ ~Queued(c)
    BY QueuedMeans DEF InTask, Started, Calm, CalmInv, IInv
  <2> QED  BY <2>1 DEF TypeOK, TypesOK, InTask, Queued, Undecided, CalmOf, Started, IInv
<1> QED  BY <1>1, <1>2, <1>3, <1>4, <1>5, <1>6, <1>7, <1>8, <1>9, <1>10, <1>11, <1>12, <1>13
            DEF TypesOK, IInv

LEMMA NotStartedKeeps ==
  ASSUME IInv, NEW c \in Children, NotStarted(c) PROVE IInv'
<1>1. LedgerTypes'  BY DEF LedgerTypes, TypesOK, NotStarted, IInv
<1>2. TypeOK'  BY <1>1 DEF TypeOK, TypesOK, NotStarted, IInv
<1>3. TaskTypes'  BY DEF TaskTypes, TypesOK, NotStarted, IInv
<1>4. ServiceTypes'  BY DEF ServiceTypes, TypesOK, NotStarted, IInv
<1>5. OtherTypes'  BY DEF OtherTypes, TypesOK, NoFault, Fault, NotStarted, IInv
<1>6. SchedulerInv'
  <2>1. \A d \in Children : InTask(d)' = InTask(d)  BY DEF NotStarted, InTask
  <2> QED  BY <2>1, SchedulerStays DEF NotStarted
<1>7. SpawnInv'  BY DEF InTask, Queued, Untouched, SpawnInv, NotStarted, IInv
<1>8. CancelInv'  BY DEF InTask, Queued, Of, CancelInv, NotStarted, IInv
<1>9. RecordInv'
  <2> SUFFICES ASSUME NEW d \in Children PROVE RecordOf(d)'  BY DEF RecordInv
  <2> QED  BY DEF Queued, AtWork, RecordOf, RecordInv, NotStarted, IInv
<1>10. RecoveryInv'  BY DEF RecoveryInv, Up, NotStarted
<1>11. BudgetInv'  BY BudgetStays DEF NotStarted, Pending
<1>12. WaitInv'
  <2>1. faults \in Nat /\ (faults' = faults \/ faults' = faults + 1)
    BY DEF OtherTypes, TypesOK, NotStarted, NoFault, Fault, IInv
  <2>2. \A d \in Children : pc[d] = "committed" => pc'[d] = "committed"
    BY DEF NotStarted, TypeOK, TypesOK, IInv
  <2> QED  BY <2>1, <2>2 DEF Of, Heard, WaitInv, NotStarted, IInv
<1>13. CalmInv'
  <2> SUFFICES ASSUME Calm', NEW d \in Children PROVE CalmOf(d)'  BY DEF CalmInv
  <2> QED  BY DEF OtherTypes, TypesOK, InTask, Queued, Undecided, CalmOf, Calm, CalmInv, NoFault,
                  Fault, NotStarted, IInv
<1> QED  BY <1>1, <1>2, <1>3, <1>4, <1>5, <1>6, <1>7, <1>8, <1>9, <1>10, <1>11, <1>12, <1>13
            DEF TypesOK, IInv

LEMMA RunEndsKeeps ==
  ASSUME IInv, NEW c \in Children, NEW phase \in {"completed", "failed", "cancelled"}, RunEnds(c,phase) PROVE IInv'
<1>1. LedgerTypes'  BY DEF LedgerTypes, TypesOK, RunEnds, IInv
<1>2. TypeOK'  BY <1>1 DEF TypeOK, TypesOK, RunEnds, IInv
<1>3. TaskTypes'  BY DEF TaskTypes, TypesOK, RunEnds, IInv
<1>4. ServiceTypes'  BY DEF ServiceTypes, TypesOK, RunEnds, IInv
<1>5. OtherTypes'  BY DEF OtherTypes, TypesOK, RunEnds, IInv
<1>6. SchedulerInv'
  <2>1. \A d \in Children : InTask(d)' = InTask(d)  BY DEF RunEnds, InTask
  <2> QED  BY <2>1, SchedulerStays DEF RunEnds
<1>7. SpawnInv'  BY DEF InTask, Queued, Untouched, SpawnInv, RunEnds, IInv
<1>8. CancelInv'  BY DEF InTask, Queued, Of, CancelInv, RunEnds, IInv
<1>9. RecordInv'
  <2> SUFFICES ASSUME NEW d \in Children PROVE RecordOf(d)'  BY DEF RecordInv
  <2> QED  BY DEF Queued, AtWork, RecordOf, RecordInv, RunEnds, IInv
<1>10. RecoveryInv'  BY DEF RecoveryInv, RunEnds, IInv
<1>11. BudgetInv'  BY BudgetStays DEF RunEnds, Pending
<1>12. WaitInv'  BY DEF Of, Heard, WaitInv, RunEnds, IInv
<1>13. CalmInv'
  <2> SUFFICES ASSUME Calm', NEW d \in Children PROVE CalmOf(d)'  BY DEF CalmInv
  <2> QED  BY DEF InTask, Queued, Undecided, CalmOf, Calm, CalmInv, RunEnds, IInv
<1> QED  BY <1>1, <1>2, <1>3, <1>4, <1>5, <1>6, <1>7, <1>8, <1>9, <1>10, <1>11, <1>12, <1>13
            DEF TypesOK, IInv

LEMMA FinishKeeps ==
  ASSUME IInv, NEW c \in Children, Finish(c) PROVE IInv'
<1> DEFINE decided == Decided(c)
<1>a. /\ decided \in Terminal /\ DecidesOrNot(c, decided) /\ status' = [status EXCEPT ![c] = decided]
      /\ UNCHANGED <<parent, rootDone, checkpoint, sched, signalled, tool, cancel,
                     statusGeneration, roots, ledger, held, startupVars, bounds>>
      /\ startup = "up" /\ lock = "free" /\ lock' = c
      /\ pc[c] = "finishing" /\ pc' = [pc EXCEPT ![c] = "committed"]
      /\ outcome' = [outcome EXCEPT ![c] = "none"]
  BY DecidedIsTerminal DEF Finish, DecidesOrNot, Record, Up
<1> HIDE DEF decided
<1>b. \A r \in Roots : Pending(r)' <= Pending(r)  BY <1>a DEF Pending
<1>c. /\ status' \in [Children -> Statuses] /\ leased' \in [Children -> BOOLEAN]
      /\ result' \in [Children -> Terminal \cup {"none"}] /\ LedgerTypes' /\ BudgetInv'
      /\ \A d \in Children :
            /\ status'[d] = status[d] \/ (/\ d = c /\ status[d] \notin Terminal
                                         /\ status'[d] = decided)
            /\ d # c => leased'[d] = leased[d]
            /\ status'[d] \in Terminal => result'[d] = status'[d]
  BY <1>a, <1>b, DecidingKeeps
<1>d. /\ pc \in [Children -> {"none", "dispatched", "running", "finishing", "committed",
                               "closing", "gone"}]
      /\ status'[c] \in Terminal /\ ~Queued(c)
      /\ \A d \in Children : /\ pc'[d] = IF d = c THEN "committed" ELSE pc[d]
                             /\ InTask(d)' = InTask(d) /\ Queued(d)' = Queued(d)
  BY <1>a, QueuedMeans DEF InTask, Queued, IInv, TypesOK, TypeOK
<1>1. LedgerTypes'  BY <1>c
<1>2. TypeOK'  BY <1>a, <1>c DEF TypeOK, TypesOK, IInv
<1>3. TaskTypes'  BY <1>a DEF TaskTypes, TypesOK, IInv
<1>4. ServiceTypes'  BY <1>a DEF ServiceTypes, TypesOK, IInv
<1>5. OtherTypes'  BY <1>a DEF OtherTypes, TypesOK, IInv
<1>6. SchedulerInv'  BY <1>a, <1>d, SchedulerStays
<1>7. SpawnInv'
  <2>1. \A d \in Children : status'[d] = "none" => status[d] = "none"
    BY <1>a, <1>c DEF Terminal
  <2> QED  BY <1>a, <1>d, <2>1 DEF Untouched, SpawnInv, IInv
<1>8. CancelInv'  BY <1>a, <1>d DEF Of, CancelInv, IInv
<1>9. RecordInv'
  <2> SUFFICES ASSUME NEW d \in Children PROVE RecordOf(d)'  BY DEF RecordInv
  <2>1. RecordOf(d)  BY DEF RecordInv, IInv
  <2> QED  BY <1>a, <1>c, <1>d, <2>1 DEF AtWork, RecordOf
<1>10. RecoveryInv'  BY <1>a DEF RecoveryInv
<1>11. BudgetInv'  BY <1>c
<1>12. WaitInv'  BY <1>a, <1>d DEF Of, Heard, WaitInv, IInv
<1>13. CalmInv'
  <2> SUFFICES ASSUME Calm', NEW d \in Children PROVE CalmOf(d)'  BY DEF CalmInv
  <2>1. CalmOf(d)  BY <1>a DEF Calm, CalmInv, IInv
  <2> QED  BY <1>a, <1>c, <1>d, <2>1 DEF Undecided, CalmOf
<1> QED  BY <1>1, <1>2, <1>3, <1>4, <1>5, <1>6, <1>7, <1>8, <1>9, <1>10, <1>11, <1>12, <1>13
            DEF TypesOK, IInv

LEMMA FinishFailsKeeps ==
  ASSUME IInv, NEW c \in Children, FinishFails(c) PROVE IInv'
<1> DEFINE decided == Decided(c)
<1>a. /\ decided \in Terminal /\ DecidesOrNot(c, decided)
      /\ UNCHANGED <<parent, rootDone, checkpoint, sched, outcome, signalled, lock, tool, cancel,
                     statusGeneration, roots, ledger, held, startupVars, crashes>>
      /\ startup = "up" /\ lock = "free" /\ faults' = faults + 1
      /\ pc[c] = "finishing" /\ pc' = [pc EXCEPT ![c] = "closing"]
  BY DecidedIsTerminal DEF FinishFails, DecideFails, DecidesOrNot, Fault, Up
<1> HIDE DEF decided
<1>b. \A r \in Roots : Pending(r)' <= Pending(r)  BY <1>a DEF Pending
<1>c. /\ status' \in [Children -> Statuses] /\ leased' \in [Children -> BOOLEAN]
      /\ result' \in [Children -> Terminal \cup {"none"}]
      /\ held' \in [Children -> {"none", "fresh", "adopted"}] /\ statusGeneration' \in Nat
      /\ LedgerTypes' /\ BudgetInv'
      /\ \A d \in Children :
            /\ status'[d] = status[d] \/ (/\ d = c /\ status[d] \notin Terminal
                                         /\ status'[d] \in Terminal)
            /\ d # c => leased'[d] = leased[d] /\ held'[d] = held[d]
            /\ status'[d] \in Terminal => result'[d] = status'[d]
            /\ held'[d] = held[d] \/ status'[d] \in Terminal
  BY <1>a, <1>b, DecidingKeeps
<1>d. /\ pc \in [Children -> {"none", "dispatched", "running", "finishing", "committed",
                               "closing", "gone"}]
      /\ ~Queued(c) /\ faults \in Nat
      /\ \A d \in Children : /\ pc'[d] = IF d = c THEN "closing" ELSE pc[d]
                             /\ InTask(d)' = InTask(d) /\ Queued(d)' = Queued(d)
  BY <1>a, QueuedMeans DEF InTask, Queued, IInv, TypesOK, TypeOK, OtherTypes
<1>1. LedgerTypes'  BY <1>c
<1>2. TypeOK'
  <2>1. \A q \in Roots : ledger'[q].reserved \in Nat /\ checkpoint'[q].reserved \in Nat
    BY <1>c DEF Budgets, LedgerTypes
  <2> QED  BY <1>a, <1>c, <2>1 DEF TypeOK, TypesOK, IInv
<1>3. TaskTypes'  BY <1>a DEF TaskTypes, TypesOK, IInv
<1>4. ServiceTypes'  BY <1>a DEF ServiceTypes, TypesOK, IInv
<1>5. OtherTypes'  BY <1>a DEF OtherTypes, TypesOK, IInv
<1>6. SchedulerInv'  BY <1>a, <1>d, SchedulerStays
<1>7. SpawnInv'
  <2>1. \A d \in Children : status'[d] = "none" => status[d] = "none"  BY <1>c DEF Terminal
  <2> QED  BY <1>a, <1>d, <2>1 DEF Untouched, SpawnInv, IInv
<1>8. CancelInv'  BY <1>a, <1>d DEF Of, CancelInv, IInv
<1>9. RecordInv'
  <2> SUFFICES ASSUME NEW d \in Children PROVE RecordOf(d)'  BY DEF RecordInv
  <2>1. RecordOf(d)  BY DEF RecordInv, IInv
  <2> QED  BY <1>a, <1>c, <1>d, <2>1 DEF AtWork, RecordOf
<1>10. RecoveryInv'  BY <1>a DEF RecoveryInv
<1>11. BudgetInv'  BY <1>c
<1>12. WaitInv'
  <2> SUFFICES ASSUME tool.op = "wait"
               PROVE  /\ tool.seen <= statusGeneration /\ tool.at \in {"counted", "read", "asleep"}
                      /\ tool.at # "counted" => \A d \in Of(tool.root) : status'[d] \in Terminal => Heard(d)'
    BY <1>a DEF WaitInv, Of
  <2>1. /\ tool.seen <= statusGeneration /\ tool.at \in {"counted", "read", "asleep"}
        /\ tool.at # "counted" => \A d \in Of(tool.root) : status[d] \in Terminal => Heard(d)
    BY DEF WaitInv, IInv
  <2>2. ASSUME NEW d \in Children, status'[d] \in Terminal, status[d] \in Terminal => Heard(d)
        PROVE  Heard(d)'
    <3>1. CASE status[d] \in Terminal
      <4>1. (\E e \in Children : pc[e] = "committed") => \E e \in Children : pc'[e] = "committed"
        BY <1>a, <1>d
      <4> QED  BY <1>a, <1>d, <2>2, <3>1, <4>1 DEF Heard
    <3>2. CASE status[d] \notin Terminal
      <4>1. d = c  BY <1>c, <2>2, <3>2
      <4>2. held[c] # "none"  BY <1>a, <3>2, <4>1 DEF AtWork, RecordOf, RecordInv, IInv
      <4> QED  BY <1>a, <1>d, <4>1, <4>2 DEF Heard
    <3> QED  BY <3>1, <3>2
  <2> QED  BY <2>1, <2>2 DEF Of
<1>13. CalmInv'
  <2> SUFFICES ASSUME Calm' PROVE FALSE  BY DEF CalmInv
  <2> QED  BY <1>a, <1>d DEF Calm
<1> QED  BY <1>1, <1>2, <1>3, <1>4, <1>5, <1>6, <1>7, <1>8, <1>9, <1>10, <1>11, <1>12, <1>13
            DEF TypesOK, IInv

LEMMA FinishDecidedKeeps ==
  ASSUME IInv, NEW c \in Children, FinishDecided(c) PROVE IInv'
<1>1. LedgerTypes'  BY DEF LedgerTypes, TypesOK, FinishDecided, IInv
<1>2. TypeOK'  BY <1>1 DEF TypeOK, TypesOK, FinishDecided, IInv
<1>3. TaskTypes'  BY DEF TaskTypes, TypesOK, FinishDecided, IInv
<1>4. ServiceTypes'  BY DEF ServiceTypes, TypesOK, FinishDecided, IInv
<1>5. OtherTypes'  BY DEF OtherTypes, TypesOK, FinishDecided, IInv
<1>6. SchedulerInv'
  <2>1. \A d \in Children : InTask(d)' = InTask(d)  BY DEF FinishDecided, InTask
  <2> QED  BY <2>1, SchedulerStays DEF FinishDecided
<1>7. SpawnInv'  BY DEF InTask, Queued, Untouched, SpawnInv, FinishDecided, IInv
<1>8. CancelInv'  BY DEF InTask, Queued, Of, CancelInv, FinishDecided, IInv
<1>9. RecordInv'
  <2> SUFFICES ASSUME NEW d \in Children PROVE RecordOf(d)'  BY DEF RecordInv
  <2> QED  BY DEF Queued, AtWork, RecordOf, RecordInv, FinishDecided, IInv
<1>10. RecoveryInv'  BY DEF RecoveryInv, Up, FinishDecided
<1>11. BudgetInv'  BY BudgetStays DEF FinishDecided, Pending
<1>12. WaitInv'  BY DEF Of, Heard, WaitInv, FinishDecided, IInv
<1>13. CalmInv'
  <2> SUFFICES ASSUME Calm', NEW d \in Children PROVE CalmOf(d)'  BY DEF CalmInv
  <2> QED  BY DEF InTask, Queued, Undecided, CalmOf, Calm, CalmInv, FinishDecided, IInv
<1> QED  BY <1>1, <1>2, <1>3, <1>4, <1>5, <1>6, <1>7, <1>8, <1>9, <1>10, <1>11, <1>12, <1>13
            DEF TypesOK, IInv

LEMMA NotifyKeeps ==
  ASSUME IInv, NEW c \in Children, Notify(c) PROVE IInv'
<1>1. LedgerTypes'  BY SettleKeeps DEF Pending, Notify
<1>2. TypeOK'  BY <1>1 DEF TypeOK, TypesOK, Budgets, LedgerTypes, SettleOf, Notify, IInv
<1>3. TaskTypes'  BY DEF TaskTypes, TypesOK, Notify, IInv
<1>4. ServiceTypes'  BY DEF ServiceTypes, TypesOK, Notify, IInv
<1>5. OtherTypes'  BY DEF OtherTypes, TypesOK, Notify, IInv
<1>6. SchedulerInv'
  <2>1. \A d \in Children : InTask(d)' = InTask(d)  BY DEF Notify, InTask
  <2> QED  BY <2>1, SchedulerStays DEF Notify
<1>7. SpawnInv'  BY DEF TypeOK, TypesOK, InTask, Queued, Untouched, SpawnInv, Notify, IInv
<1>8. CancelInv'  BY DEF InTask, Queued, Of, CancelInv, Notify, IInv
<1>9. RecordInv'
  <2> SUFFICES ASSUME NEW d \in Children PROVE RecordOf(d)'  BY DEF RecordInv
  <2>1. RecordOf(d) /\ pc[c] = "committed" /\ InTask(c)  BY DEF InTask, Notify, RecordInv, IInv
  <2>2. ~AtWork(c)  BY <2>1, QueuedMeans DEF AtWork, CancelInv, IInv
  <2>3. AtWork(d)' => AtWork(d) /\ (d # c => held'[d] = held[d])
    BY DEF AtWork, Queued, SettleOf, Notify, TypeOK, TypesOK, IInv
  <2> QED  BY <2>1, <2>2, <2>3 DEF RecordOf, Notify, TypeOK, TypesOK, IInv
<1>10. RecoveryInv'  BY DEF RecoveryInv, Notify, IInv
<1>11. BudgetInv'  BY SettleKeeps DEF Pending, Notify
<1>12. WaitInv'  BY DEF ServiceTypes, TypesOK, Heard, WaitInv, Notify, IInv
<1>13. CalmInv'
  <2> SUFFICES ASSUME Calm', NEW d \in Children PROVE CalmOf(d)'  BY DEF CalmInv
  <2> QED  BY DEF InTask, Queued, Undecided, CalmOf, Calm, CalmInv, Notify, IInv
<1> QED  BY <1>1, <1>2, <1>3, <1>4, <1>5, <1>6, <1>7, <1>8, <1>9, <1>10, <1>11, <1>12, <1>13
            DEF TypesOK, IInv

LEMMA AgentCancelKeeps ==
  ASSUME IInv, NEW r \in Roots, NEW c \in Children, AgentCancel(r,c) PROVE IInv'
<1>1. LedgerTypes'  BY DEF LedgerTypes, TypesOK, AgentCancel, IInv
<1>2. TypeOK'  BY <1>1 DEF TypeOK, TypesOK, AgentCancel, IInv
<1>3. TaskTypes'  BY DEF TaskTypes, TypesOK, AgentCancel, IInv
<1>4. ServiceTypes'
  <2>1. [cancel[r] EXCEPT !.todo = {c}] \in Cancels  BY DEF Cancels, ServiceTypes, TypesOK, IInv
  <2> QED  BY <2>1 DEF ServiceTypes, TypesOK, AgentCancel, IInv
<1>5. OtherTypes'  BY DEF OtherTypes, TypesOK, AgentCancel, IInv
<1>6. SchedulerInv'
  <2>1. \A d \in Children : InTask(d)' = InTask(d)  BY DEF AgentCancel, InTask
  <2> QED  BY <2>1, SchedulerStays DEF AgentCancel
<1>7. SpawnInv'  BY DEF InTask, Queued, Untouched, SpawnInv, AgentCancel, IInv
<1>8. CancelInv'  BY DEF InTask, Queued, Of, CancelInv, AgentCancel, IInv
<1>9. RecordInv'
  <2> SUFFICES ASSUME NEW d \in Children PROVE RecordOf(d)'  BY DEF RecordInv
  <2> QED  BY DEF Queued, AtWork, RecordOf, RecordInv, AgentCancel, IInv
<1>10. RecoveryInv'  BY DEF RecoveryInv, Up, AgentCancel
<1>11. BudgetInv'  BY BudgetStays DEF AgentCancel, Pending
<1>12. WaitInv'  BY DEF Heard, WaitInv, AgentCancel
<1>13. CalmInv'
  <2> SUFFICES ASSUME Calm', NEW d \in Children PROVE CalmOf(d)'  BY DEF CalmInv
  <2> QED  BY DEF InTask, Queued, Undecided, CalmOf, Calm, CalmInv, NoTool, AgentCancel, IInv
<1> QED  BY <1>1, <1>2, <1>3, <1>4, <1>5, <1>6, <1>7, <1>8, <1>9, <1>10, <1>11, <1>12, <1>13
            DEF TypesOK, IInv

LEMMA AgentCancelReturnsKeeps ==
  ASSUME IInv, AgentCancelReturns PROVE IInv'
<1>1. LedgerTypes'  BY DEF LedgerTypes, TypesOK, AgentCancelReturns, IInv
<1>2. TypeOK'  BY <1>1 DEF TypeOK, TypesOK, AgentCancelReturns, IInv
<1>3. TaskTypes'  BY DEF TaskTypes, TypesOK, AgentCancelReturns, IInv
<1>4. ServiceTypes'  BY DEF ServiceTypes, TypesOK, NoTool, AgentCancelReturns, IInv
<1>5. OtherTypes'  BY DEF OtherTypes, TypesOK, AgentCancelReturns, IInv
<1>6. SchedulerInv'
  <2>1. \A d \in Children : InTask(d)' = InTask(d)  BY DEF AgentCancelReturns, InTask
  <2> QED  BY <2>1, SchedulerStays DEF AgentCancelReturns
<1>7. SpawnInv'  BY DEF InTask, Queued, Untouched, SpawnInv, NoTool, AgentCancelReturns, IInv
<1>8. CancelInv'  BY DEF InTask, Queued, Of, CancelInv, NoTool, AgentCancelReturns, IInv
<1>9. RecordInv'
  <2> SUFFICES ASSUME NEW d \in Children PROVE RecordOf(d)'  BY DEF RecordInv
  <2> QED  BY DEF Queued, AtWork, RecordOf, RecordInv, AgentCancelReturns, IInv
<1>10. RecoveryInv'  BY DEF RecoveryInv, Up, AgentCancelReturns
<1>11. BudgetInv'  BY BudgetStays DEF NoTool, AgentCancelReturns, Pending
<1>12. WaitInv'  BY DEF Heard, WaitInv, NoTool, AgentCancelReturns
<1>13. CalmInv'
  <2> SUFFICES ASSUME Calm', NEW d \in Children PROVE CalmOf(d)'  BY DEF CalmInv
  <2> QED  BY DEF InTask, Queued, Undecided, CalmOf, Calm, CalmInv, AgentCancelReturns, IInv
<1> QED  BY <1>1, <1>2, <1>3, <1>4, <1>5, <1>6, <1>7, <1>8, <1>9, <1>10, <1>11, <1>12, <1>13
            DEF TypesOK, IInv

LEMMA CancelMarkKeeps ==
  ASSUME IInv, NEW r \in Roots, NEW c \in Children, CancelMark(r,c) PROVE IInv'
<1>1. LedgerTypes'  BY DEF LedgerTypes, TypesOK, CancelMark, IInv
<1>2. TypeOK'  BY <1>1 DEF Statuses, TypeOK, TypesOK, Marked, CancelMark, IInv
<1>3. TaskTypes'  BY DEF TaskTypes, TypesOK, CancelMark, IInv
<1>4. ServiceTypes'  BY DEF Cancels, ServiceTypes, TypesOK, CancelMark, IInv
<1>5. OtherTypes'  BY DEF OtherTypes, TypesOK, CancelMark, IInv
<1>6. SchedulerInv'
  <2>1. \A d \in Children : InTask(d)' = InTask(d)  BY DEF CancelMark, InTask
  <2> QED  BY <2>1, SchedulerStays DEF CancelMark
<1>7. SpawnInv'  BY DEF InTask, Queued, Untouched, SpawnInv, Marked, CancelMark, IInv
<1>8. CancelInv'  BY DEF InTask, Queued, Of, CancelInv, CancelMark, IInv
<1>9. RecordInv'
  <2> SUFFICES ASSUME NEW d \in Children PROVE RecordOf(d)'  BY DEF RecordInv
  <2> QED  BY DEF Leased, Terminal, Queued, AtWork, RecordOf, RecordInv, Marked, CancelMark, IInv
<1>10. RecoveryInv'  BY DEF RecoveryInv, Up, CancelMark
<1>11. BudgetInv'  BY BudgetStays DEF CancelMark, Pending
<1>12. WaitInv'  BY DEF Terminal, Of, Heard, WaitInv, Marked, CancelMark, IInv
<1>13. CalmInv'
  <2> SUFFICES ASSUME Calm', NEW d \in Children PROVE CalmOf(d)'  BY DEF CalmInv
  <2>1. CalmOf(d) /\ status[c] # "none"
    BY DEF Untouched, SpawnInv, CancelMark, Calm, CalmInv, IInv
  <2>2. \A e \in Children : e # None  OBVIOUS
  <2> QED  BY <2>1, <2>2 DEF InTask, Queued, Undecided, CalmOf, Marked, CancelMark
<1> QED  BY <1>1, <1>2, <1>3, <1>4, <1>5, <1>6, <1>7, <1>8, <1>9, <1>10, <1>11, <1>12, <1>13
            DEF TypesOK, IInv

LEMMA CancelMarkFailsKeeps ==
  ASSUME IInv, NEW r \in Roots, NEW c \in Children, CancelMarkFails(r,c) PROVE IInv'
<1>a. /\ UNCHANGED <<parent, leased, result, rootDone, checkpoint, tasks, lock, tool,
                     statusGeneration, roots, ledger, held, startupVars, crashes>>
      /\ startup = "up" /\ lock = "free" /\ c \in cancel[r].todo /\ CancelBreaks(r)
      /\ cancel' = [cancel EXCEPT ![r] = Idle]
      /\ status' \in {status, [status EXCEPT ![c] = Marked(c)]}
  BY DEF CancelMarkFails, Up
<1>b. /\ status \in [Children -> Statuses] /\ status' \in [Children -> Statuses]
      /\ status[c] # "none"
      /\ \A d \in Children : status'[d] = status[d]
                            \/ (/\ d = c /\ status[d] \notin Terminal
                                /\ status'[d] = "cancel_requested")
  BY <1>a DEF Marked, Statuses, Untouched, SpawnInv, TypesOK, TypeOK, IInv
<1>c. \A d \in Children : InTask(d)' = InTask(d) /\ Queued(d)' = Queued(d)  BY <1>a DEF InTask,
                                                                               Queued
<1>e. /\ cancel \in [Roots -> Cancels] /\ cancel' \in [Roots -> Cancels]
      /\ \A q \in Roots : /\ cancel'[q].todo \subseteq cancel[q].todo
                          /\ q # r => cancel'[q] = cancel[q]
                          /\ cancel'[r].child = None /\ cancel'[r].at = "none"
      /\ None \notin Children
  BY <1>a DEF Cancels, Idle, ServiceTypes, TypesOK, IInv
<1>1. LedgerTypes'  BY <1>a DEF LedgerTypes, TypesOK, IInv
<1>2. TypeOK'  BY <1>a, <1>b DEF TypeOK, TypesOK, IInv
<1>3. TaskTypes'  BY <1>a DEF TaskTypes, TypesOK, IInv
<1>4. ServiceTypes'  BY <1>a, <1>e DEF ServiceTypes, TypesOK, IInv
<1>5. OtherTypes'  BY <1>a DEF OtherTypes, TypesOK, Fault, NoFault, CancelBreaks, IInv
<1>6. SchedulerInv'  BY <1>a, <1>c, SchedulerStays
<1>7. SpawnInv'
  <2>1. \A d \in Children : status'[d] = "none" => status[d] = "none"  BY <1>b
  <2>2. \A d \in Children : Untouched(d) => Untouched(d)'  BY <1>c, <1>e DEF Untouched
  <2> QED  BY <1>a, <2>1, <2>2 DEF SpawnInv, IInv
<1>8. CancelInv'
  <2>1. UNCHANGED <<root, tool>> /\ \A q \in Roots : Of(q)' = Of(q)  BY <1>a DEF Of
  <2> QED  BY <1>a, <1>c, <1>e, <2>1 DEF CancelInv, IInv
<1>9. RecordInv'
  <2> SUFFICES ASSUME NEW d \in Children PROVE RecordOf(d)'  BY DEF RecordInv
  <2>1. RecordOf(d)  BY DEF RecordInv, IInv
  <2>2. AtWork(d)' => AtWork(d)  BY <1>a, <1>c, <1>e DEF AtWork
  <2>3. "cancel_requested" \in Leased \ Terminal  BY DEF Leased, Terminal
  <2> QED  BY <1>a, <1>b, <2>1, <2>2, <2>3 DEF RecordOf
<1>10. RecoveryInv'  BY <1>a DEF RecoveryInv
<1>11. BudgetInv'  BY <1>a, BudgetStays DEF Pending
<1>12. WaitInv'
  <2>1. \A d \in Children : /\ status'[d] \in Terminal => status[d] \in Terminal
                            /\ Heard(d) => Heard(d)'
    BY <1>a, <1>b DEF Terminal, Heard, CancelBreaks, Fault, NoFault, IInv, TypesOK, OtherTypes
  <2> QED  BY <1>a, <2>1 DEF Of, WaitInv, IInv
<1>13. CalmInv'
  <2> SUFFICES ASSUME Calm', NEW d \in Children PROVE CalmOf(d)'  BY DEF CalmInv
  <2>1. UNCHANGED faults /\ CallOf(r) /\ scopeCancelled[r]
    BY <1>a DEF Calm, CancelBreaks, Fault, NoFault, IInv, TypesOK, OtherTypes
  <2>2. CalmOf(d)  BY <1>a, <2>1 DEF Calm, CalmInv, IInv
  <2>3. UNCHANGED <<parent, pc, root, scopeCancelled, tool>> /\ parent[d] \in Roots  BY <1>a,
                                                                                        ParentType
  <2>4. root[r] = "running"  BY <2>1 DEF CallOf, CancelInv, IInv
  <2>5. /\ status[d] \in Terminal => status'[d] \in Terminal
        /\ Undecided(d)' => Undecided(d)
    BY <1>b DEF Undecided
  <2>6. CASE parent[d] = r  BY <1>c, <2>1, <2>2, <2>3, <2>4, <2>5, <2>6 DEF CalmOf
  <2>7. CASE parent[d] # r
    <3>1. cancel'[parent[d]] = cancel[parent[d]]  BY <1>e, <2>3, <2>7
    <3> QED  BY <1>c, <2>2, <2>3, <2>5, <3>1 DEF CalmOf
  <2> QED  BY <2>6, <2>7
<1> QED  BY <1>1, <1>2, <1>3, <1>4, <1>5, <1>6, <1>7, <1>8, <1>9, <1>10, <1>11, <1>12, <1>13
            DEF TypesOK, IInv

LEMMA SignalActiveKeeps ==
  ASSUME IInv, NEW r \in Roots, NEW c \in Children, SignalActive(r,c) PROVE IInv'
<1>1. LedgerTypes'  BY DEF LedgerTypes, TypesOK, SignalActive, IInv
<1>2. TypeOK'  BY <1>1 DEF TypeOK, TypesOK, SignalActive, IInv
<1>3. TaskTypes'  BY DEF TaskTypes, TypesOK, SignalActive, IInv
<1>4. ServiceTypes'
  <2>1. [cancel[r] EXCEPT !.child = None, !.at = "none"] \in Cancels
    <3>1. cancel[r] \in Cancels  BY DEF ServiceTypes, TypesOK, IInv
    <3> QED  BY <3>1 DEF Cancels
  <2> QED  BY <2>1 DEF ServiceTypes, TypesOK, Forget, SignalActive, IInv
<1>5. OtherTypes'  BY DEF OtherTypes, TypesOK, SignalActive, IInv
<1>6. SchedulerInv'
  <2>1. \A d \in Children : InTask(d)' = InTask(d)  BY DEF SignalActive, InTask
  <2> QED  BY <2>1, SchedulerStays DEF SignalActive
<1>7. SpawnInv'  BY DEF InTask, Queued, Untouched, SpawnInv, Forget, SignalActive, IInv
<1>8. CancelInv'  BY DEF InTask, Queued, Of, CancelInv, Forget, SignalActive, IInv
<1>9. RecordInv'
  <2> SUFFICES ASSUME NEW d \in Children PROVE RecordOf(d)'  BY DEF RecordInv
  <2>1. RecordOf(d) /\ cancel \in [Roots -> Cancels]
    BY DEF RecordInv, ServiceTypes, TypesOK, IInv
  <2>2. AtWork(d)' => AtWork(d)
    BY <2>1 DEF Cancels, AtWork, Queued, Forget, Signalling, SignalActive
  <2> QED  BY <2>1, <2>2 DEF RecordOf, SignalActive
<1>10. RecoveryInv'  BY DEF RecoveryInv, Up, Signalling, SignalActive
<1>11. BudgetInv'  BY BudgetStays DEF SignalActive, Pending
<1>12. WaitInv'  BY DEF Of, Heard, WaitInv, SignalActive, IInv
<1>13. CalmInv'
  <2> SUFFICES ASSUME Calm', NEW d \in Children PROVE CalmOf(d)'  BY DEF CalmInv
  <2>1. CalmOf(d) /\ InTask(c) /\ ~Queued(c)
    BY QueuedMeans DEF SignalActive, Calm, CalmInv, IInv
  <2> QED  BY <2>1 DEF InTask, Queued, Undecided, CalmOf, Forget, Signalling, SignalActive
<1> QED  BY <1>1, <1>2, <1>3, <1>4, <1>5, <1>6, <1>7, <1>8, <1>9, <1>10, <1>11, <1>12, <1>13
            DEF TypesOK, IInv

LEMMA SignalNoneKeeps ==
  ASSUME IInv, NEW r \in Roots, NEW c \in Children, SignalNone(r,c) PROVE IInv'
<1>1. LedgerTypes'  BY DEF LedgerTypes, TypesOK, SignalNone, IInv
<1>2. TypeOK'  BY <1>1 DEF TypeOK, TypesOK, SignalNone, IInv
<1>3. TaskTypes'  BY DEF TaskTypes, TypesOK, SignalNone, IInv
<1>4. ServiceTypes'
  <2>1. [cancel[r] EXCEPT !.child = None, !.at = "none"] \in Cancels
    <3>1. cancel[r] \in Cancels  BY DEF ServiceTypes, TypesOK, IInv
    <3> QED  BY <3>1 DEF Cancels
  <2> QED  BY <2>1 DEF ServiceTypes, TypesOK, Forget, SignalNone, IInv
<1>5. OtherTypes'  BY DEF OtherTypes, TypesOK, SignalNone, IInv
<1>6. SchedulerInv'
  <2>1. \A d \in Children : InTask(d)' = InTask(d)  BY DEF SignalNone, InTask
  <2> QED  BY <2>1, SchedulerStays DEF SignalNone
<1>7. SpawnInv'  BY DEF InTask, Queued, Untouched, SpawnInv, Forget, SignalNone, IInv
<1>8. CancelInv'  BY DEF InTask, Queued, Of, CancelInv, Forget, SignalNone, IInv
<1>9. RecordInv'
  <2> SUFFICES ASSUME NEW d \in Children PROVE RecordOf(d)'  BY DEF RecordInv
  <2>1. RecordOf(d) /\ cancel \in [Roots -> Cancels]
    BY DEF RecordInv, ServiceTypes, TypesOK, IInv
  <2>2. AtWork(d)' => AtWork(d)
    BY <2>1 DEF Cancels, AtWork, Queued, Forget, Signalling, SignalNone
  <2> QED  BY <2>1, <2>2 DEF RecordOf, SignalNone
<1>10. RecoveryInv'  BY DEF RecoveryInv, Up, Signalling, SignalNone
<1>11. BudgetInv'  BY BudgetStays DEF SignalNone, Pending
<1>12. WaitInv'  BY DEF Of, Heard, WaitInv, SignalNone, IInv
<1>13. CalmInv'
  <2> SUFFICES ASSUME Calm', NEW d \in Children PROVE CalmOf(d)'  BY DEF CalmInv
  <2> QED  BY DEF InTask, Queued, Undecided, CalmOf, Calm, CalmInv, Forget, Signalling,
                  SignalNone, IInv
<1> QED  BY <1>1, <1>2, <1>3, <1>4, <1>5, <1>6, <1>7, <1>8, <1>9, <1>10, <1>11, <1>12, <1>13
            DEF TypesOK, IInv

LEMMA FinishQueuedKeeps ==
  ASSUME IInv, NEW r \in Roots, NEW c \in Children, FinishQueued(r,c) PROVE IInv'
<1>a. /\ "cancelled" \in Terminal /\ DecidesOrNot(c, "cancelled")
      /\ UNCHANGED <<parent, rootDone, checkpoint, tasks, lock, tool, roots, startupVars, crashes>>
      /\ startup = "up" /\ lock = "free" /\ cancel[r].child = c /\ cancel[r].at = "finish"
      /\ cancel' = Forget(r) /\ UNCHANGED faults /\ Decide(c, "cancelled")
  BY DEF FinishQueued, Decide, DecidesOrNot, Terminal, Up
<1>b. \A q \in Roots : Pending(q)' <= Pending(q)  BY <1>a DEF Pending
<1>c. /\ status' \in [Children -> Statuses] /\ leased' \in [Children -> BOOLEAN]
      /\ result' \in [Children -> Terminal \cup {"none"}]
      /\ held' \in [Children -> {"none", "fresh", "adopted"}] /\ statusGeneration' \in Nat
      /\ LedgerTypes' /\ BudgetInv'
      /\ \A d \in Children :
            /\ status'[d] = status[d] \/ (/\ d = c /\ status[d] \notin Terminal
                                         /\ status'[d] \in Terminal)
            /\ d # c => leased'[d] = leased[d] /\ held'[d] = held[d]
            /\ status'[d] \in Terminal => result'[d] = status'[d]
            /\ held'[d] = held[d] \/ status'[d] \in Terminal
  BY <1>a, <1>b, DecidingKeeps
<1>d. /\ ~Queued(c) /\ ~InTask(c)
      /\ \A d \in Children : InTask(d)' = InTask(d) /\ Queued(d)' = Queued(d)
  BY <1>a DEF InTask, Queued, CancelInv, IInv
<1>e. /\ cancel \in [Roots -> Cancels] /\ cancel' \in [Roots -> Cancels]
      /\ \A q \in Roots : /\ cancel'[q].todo = cancel[q].todo
                          /\ q # r => cancel'[q] = cancel[q]
                          /\ cancel'[r].child = None /\ cancel'[r].at = "none"
      /\ None \notin Children
  <2>1. cancel \in [Roots -> Cancels]  BY DEF ServiceTypes, TypesOK, IInv
  <2>2. [cancel[r] EXCEPT !.child = None, !.at = "none"] \in Cancels  BY ZenonT(40), <2>1 DEF Cancels
  <2> QED  BY <1>a, <2>1, <2>2 DEF Cancels, Forget
<1>1. LedgerTypes'  BY <1>c
<1>2. TypeOK'
  <2>1. \A q \in Roots : ledger'[q].reserved \in Nat /\ checkpoint'[q].reserved \in Nat
    BY <1>c DEF Budgets, LedgerTypes
  <2> QED  BY <1>a, <1>c, <2>1 DEF TypeOK, TypesOK, IInv
<1>3. TaskTypes'  BY <1>a DEF TaskTypes, TypesOK, IInv
<1>4. ServiceTypes'
  <2>1. cancel' \in [Roots -> Cancels]  BY <1>a, <1>e
  <2> QED  BY <1>a, <1>c, <2>1 DEF ServiceTypes, TypesOK, IInv
<1>5. OtherTypes'  BY <1>a DEF OtherTypes, TypesOK, NoFault, Fault, CancelBreaks, IInv
<1>6. SchedulerInv'  BY <1>a, <1>d, SchedulerStays
<1>7. SpawnInv'
  <2>1. \A d \in Children : status'[d] = "none" => status[d] = "none"  BY <1>c DEF Terminal
  <2>2. \A d \in Children : Untouched(d) => Untouched(d)'  BY <1>d, <1>e DEF Untouched
  <2> QED  BY <1>a, <2>1, <2>2 DEF SpawnInv, IInv
<1>8. CancelInv'
  <2>1. UNCHANGED <<root, tool>> /\ \A q \in Roots : Of(q)' = Of(q)  BY <1>a DEF Of
  <2> QED  BY <1>a, <1>d, <1>e, <2>1 DEF CancelInv, IInv
<1>9. RecordInv'
  <2> SUFFICES ASSUME NEW d \in Children PROVE RecordOf(d)'  BY DEF RecordInv
  <2>1. RecordOf(d)  BY DEF RecordInv, IInv
  <2>2. pc[c] # "running" /\ UNCHANGED pc  BY <1>a, <1>d DEF InTask
  <2>3. AtWork(d)' => AtWork(d)  BY <1>d, <1>e, <2>2 DEF AtWork
  <2> QED  BY <1>c, <2>1, <2>2, <2>3 DEF RecordOf
<1>10. RecoveryInv'  BY <1>a DEF RecoveryInv
<1>11. BudgetInv'  BY <1>c
<1>12. WaitInv'
  <2> SUFFICES ASSUME tool.op = "wait"
               PROVE  /\ tool.seen <= statusGeneration' /\ tool.at \in {"counted", "read", "asleep"}
                      /\ tool.at # "counted" => \A d \in Of(tool.root) : status'[d] \in Terminal => Heard(d)'
    BY <1>a DEF WaitInv, Of
  <2>1. /\ tool.seen <= statusGeneration /\ tool.at \in {"counted", "read", "asleep"}
        /\ tool.at # "counted" => \A d \in Of(tool.root) : status[d] \in Terminal => Heard(d)
        /\ tool.seen \in Nat /\ statusGeneration \in Nat
    BY DEF WaitInv, IInv, TypesOK, ServiceTypes
  <2>2. CASE status[c] \in Terminal
    <3>1. UNCHANGED <<status, held, pc, tool, faults, statusGeneration>>
      BY <1>a, <2>2 DEF Decide, NothingRecorded
    <3>2. \A d \in Children : Heard(d)' <=> Heard(d)  BY <3>1 DEF Heard
    <3> QED  BY <2>1, <3>1, <3>2 DEF Of
  <2>3. CASE status[c] \notin Terminal
    <3>1. statusGeneration' = statusGeneration + 1 /\ UNCHANGED tool  BY <1>a, <2>3 DEF Decide
    <3>2. tool.seen # statusGeneration' /\ tool.seen <= statusGeneration'  BY <2>1, <3>1
    <3> QED  BY <2>1, <3>1, <3>2 DEF Heard
  <2> QED  BY <2>2, <2>3
<1>13. CalmInv'
  <2> SUFFICES ASSUME Calm', NEW d \in Children PROVE CalmOf(d)'  BY DEF CalmInv
  <2>1. CalmOf(d)  BY <1>a DEF Calm, CalmInv, IInv
  <2>2. Undecided(d)' => Undecided(d) /\ d # c
    <3>1. status'[c] \in Terminal
      BY <1>a, <1>c DEF Decide, Record, NothingRecorded, TypesOK, TypeOK, IInv
    <3> QED  BY <1>c, <3>1 DEF Undecided
  <2>3. UNCHANGED <<parent, pc, root, scopeCancelled, tool>> /\ parent[d] \in Roots  BY <1>a,
                                                                                        ParentType
  <2>4. status[d] \in Terminal => status'[d] \in Terminal  BY <1>c
  <2>5. d # c /\ cancel[parent[d]].child = d => parent[d] # r  BY <1>a
  <2> QED  BY <1>d, <1>e, <2>1, <2>2, <2>3, <2>4, <2>5 DEF CalmOf
<1> QED  BY <1>1, <1>2, <1>3, <1>4, <1>5, <1>6, <1>7, <1>8, <1>9, <1>10, <1>11, <1>12, <1>13
            DEF TypesOK, IInv

LEMMA FinishQueuedFailsKeeps ==
  ASSUME IInv, NEW r \in Roots, NEW c \in Children, FinishQueuedFails(r,c) PROVE IInv'
<1>a. /\ "cancelled" \in Terminal /\ DecidesOrNot(c, "cancelled")
      /\ UNCHANGED <<parent, rootDone, checkpoint, tasks, lock, tool, roots, startupVars, crashes>>
      /\ startup = "up" /\ lock = "free" /\ cancel[r].child = c /\ cancel[r].at = "finish"
      /\ cancel' = [cancel EXCEPT ![r] = Idle] /\ CancelBreaks(r)
      /\ \/ DecideFails(c, "cancelled")
         \/ CallOf(r)
  BY DEF FinishQueuedFails, DecideFails, DecidesOrNot, Terminal, Up
<1>b. \A q \in Roots : Pending(q)' <= Pending(q)  BY <1>a DEF Pending
<1>c. /\ status' \in [Children -> Statuses] /\ leased' \in [Children -> BOOLEAN]
      /\ result' \in [Children -> Terminal \cup {"none"}]
      /\ held' \in [Children -> {"none", "fresh", "adopted"}] /\ statusGeneration' \in Nat
      /\ LedgerTypes' /\ BudgetInv'
      /\ \A d \in Children :
            /\ status'[d] = status[d] \/ (/\ d = c /\ status[d] \notin Terminal
                                         /\ status'[d] \in Terminal)
            /\ d # c => leased'[d] = leased[d] /\ held'[d] = held[d]
            /\ status'[d] \in Terminal => result'[d] = status'[d]
            /\ held'[d] = held[d] \/ status'[d] \in Terminal
  BY <1>a, <1>b, DecidingKeeps
<1>d. /\ ~Queued(c) /\ ~InTask(c)
      /\ \A d \in Children : InTask(d)' = InTask(d) /\ Queued(d)' = Queued(d)
  BY <1>a DEF InTask, Queued, CancelInv, IInv
<1>e. /\ cancel \in [Roots -> Cancels] /\ cancel' \in [Roots -> Cancels]
      /\ \A q \in Roots : /\ cancel'[q].todo \subseteq cancel[q].todo
                          /\ q # r => cancel'[q] = cancel[q]
                          /\ cancel'[r].child = None /\ cancel'[r].at = "none"
      /\ None \notin Children
  BY <1>a DEF Cancels, Idle, ServiceTypes, TypesOK, IInv
<1>1. LedgerTypes'  BY <1>c
<1>2. TypeOK'
  <2>1. \A q \in Roots : ledger'[q].reserved \in Nat /\ checkpoint'[q].reserved \in Nat
    BY <1>c DEF Budgets, LedgerTypes
  <2> QED  BY <1>a, <1>c, <2>1 DEF TypeOK, TypesOK, IInv
<1>3. TaskTypes'  BY <1>a DEF TaskTypes, TypesOK, IInv
<1>4. ServiceTypes'
  <2>1. cancel' \in [Roots -> Cancels]  BY <1>a, <1>e
  <2> QED  BY <1>a, <1>c, <2>1 DEF ServiceTypes, TypesOK, IInv
<1>5. OtherTypes'  BY <1>a DEF OtherTypes, TypesOK, NoFault, Fault, CancelBreaks, IInv
<1>6. SchedulerInv'  BY <1>a, <1>d, SchedulerStays
<1>7. SpawnInv'
  <2>1. \A d \in Children : status'[d] = "none" => status[d] = "none"  BY <1>c DEF Terminal
  <2>2. \A d \in Children : Untouched(d) => Untouched(d)'  BY <1>d, <1>e DEF Untouched
  <2> QED  BY <1>a, <2>1, <2>2 DEF SpawnInv, IInv
<1>8. CancelInv'
  <2>1. UNCHANGED <<root, tool>> /\ \A q \in Roots : Of(q)' = Of(q)  BY <1>a DEF Of
  <2> QED  BY <1>a, <1>d, <1>e, <2>1 DEF CancelInv, IInv
<1>9. RecordInv'
  <2> SUFFICES ASSUME NEW d \in Children PROVE RecordOf(d)'  BY DEF RecordInv
  <2>1. RecordOf(d)  BY DEF RecordInv, IInv
  <2>2. pc[c] # "running" /\ UNCHANGED pc  BY <1>a, <1>d DEF InTask
  <2>3. AtWork(d)' => AtWork(d)  BY <1>d, <1>e, <2>2 DEF AtWork
  <2> QED  BY <1>c, <2>1, <2>2, <2>3 DEF RecordOf
<1>10. RecoveryInv'  BY <1>a DEF RecoveryInv
<1>11. BudgetInv'  BY <1>c
<1>12. WaitInv'
  <2> SUFFICES ASSUME tool.op = "wait"
               PROVE  /\ tool.seen <= statusGeneration' /\ tool.at \in {"counted", "read", "asleep"}
                      /\ tool.at # "counted" => \A d \in Of(tool.root) : status'[d] \in Terminal => Heard(d)'
    BY <1>a DEF WaitInv, Of
  <2>1. /\ tool.seen <= statusGeneration /\ tool.at \in {"counted", "read", "asleep"}
        /\ tool.at # "counted" => \A d \in Of(tool.root) : status[d] \in Terminal => Heard(d)
        /\ faults \in Nat
    BY DEF WaitInv, IInv, TypesOK, OtherTypes
  <2>2. DecideFails(c, "cancelled") /\ faults' = faults + 1
    BY <1>a DEF CallOf, CancelBreaks, Fault
  <2>3. UNCHANGED <<held, pc, tool, statusGeneration>>  BY <1>a, <2>2 DEF DecideFails
  <2>4. ASSUME NEW d \in Children, status'[d] \in Terminal, status[d] \in Terminal => Heard(d)
        PROVE  Heard(d)'
    <3>1. CASE status[d] \in Terminal  BY <2>1, <2>2, <2>3, <2>4, <3>1 DEF Heard
    <3>2. CASE status[d] \notin Terminal
      <4>1. d = c  BY <1>c, <2>4, <3>2
      <4>2. held[c] # "none"  BY <1>a, <3>2, <4>1 DEF AtWork, RecordOf, RecordInv, IInv
      <4> QED  BY <2>1, <2>2, <2>3, <4>1, <4>2 DEF Heard
    <3> QED  BY <3>1, <3>2
  <2> QED  BY <2>1, <2>3, <2>4 DEF Of
<1>13. CalmInv'
  <2> SUFFICES ASSUME Calm', NEW d \in Children PROVE CalmOf(d)'  BY DEF CalmInv
  <2>1. UNCHANGED faults /\ CallOf(r) /\ scopeCancelled[r]
    BY <1>a DEF Calm, CancelBreaks, Fault, NoFault, IInv, TypesOK, OtherTypes
  <2>2. CalmOf(d)  BY <1>a, <2>1 DEF Calm, CalmInv, IInv
  <2>3. UNCHANGED <<parent, pc, root, scopeCancelled, tool>> /\ parent[d] \in Roots  BY <1>a,
                                                                                        ParentType
  <2>4. root[r] = "running"  BY <2>1 DEF CallOf, CancelInv, IInv
  <2>5. /\ status[d] \in Terminal => status'[d] \in Terminal
        /\ Undecided(d)' => Undecided(d)
    BY <1>c DEF Undecided
  <2>6. CASE parent[d] = r  BY <1>d, <2>1, <2>2, <2>3, <2>4, <2>5, <2>6 DEF CalmOf
  <2>7. CASE parent[d] # r
    <3>1. cancel'[parent[d]] = cancel[parent[d]]  BY <1>e, <2>3, <2>7
    <3> QED  BY <1>d, <2>2, <2>3, <2>5, <3>1 DEF CalmOf
  <2> QED  BY <2>6, <2>7
<1> QED  BY <1>1, <1>2, <1>3, <1>4, <1>5, <1>6, <1>7, <1>8, <1>9, <1>10, <1>11, <1>12, <1>13
            DEF TypesOK, IInv

LEMMA WaitBeginKeeps ==
  ASSUME IInv, NEW r \in Roots, WaitBegin(r) PROVE IInv'
<1>1. LedgerTypes'  BY DEF LedgerTypes, TypesOK, WaitBegin, IInv
<1>2. TypeOK'  BY <1>1 DEF TypeOK, TypesOK, WaitBegin, IInv
<1>3. TaskTypes'  BY DEF TaskTypes, TypesOK, WaitBegin, IInv
<1>4. ServiceTypes'  BY DEF ServiceTypes, TypesOK, WaitBegin, IInv
<1>5. OtherTypes'  BY DEF OtherTypes, TypesOK, WaitBegin, IInv
<1>6. SchedulerInv'
  <2>1. \A d \in Children : InTask(d)' = InTask(d)  BY DEF WaitBegin, InTask
  <2> QED  BY <2>1, SchedulerStays DEF WaitBegin
<1>7. SpawnInv'  BY DEF InTask, Queued, Untouched, SpawnInv, WaitBegin, IInv
<1>8. CancelInv'  BY DEF InTask, Queued, Of, CancelInv, WaitBegin, IInv
<1>9. RecordInv'
  <2> SUFFICES ASSUME NEW d \in Children PROVE RecordOf(d)'  BY DEF RecordInv
  <2> QED  BY DEF Queued, AtWork, RecordOf, RecordInv, WaitBegin, IInv
<1>10. RecoveryInv'  BY DEF RecoveryInv, Up, WaitBegin
<1>11. BudgetInv'  BY BudgetStays DEF WaitBegin, Pending
<1>12. WaitInv'  BY DEF ServiceTypes, TypesOK, Heard, WaitInv, WaitBegin, IInv
<1>13. CalmInv'
  <2> SUFFICES ASSUME Calm', NEW d \in Children PROVE CalmOf(d)'  BY DEF CalmInv
  <2> QED  BY DEF InTask, Queued, Undecided, CalmOf, Calm, CalmInv, NoTool, WaitBegin, IInv
<1> QED  BY <1>1, <1>2, <1>3, <1>4, <1>5, <1>6, <1>7, <1>8, <1>9, <1>10, <1>11, <1>12, <1>13
            DEF TypesOK, IInv

LEMMA WaitReadKeeps ==
  ASSUME IInv, WaitRead PROVE IInv'
<1>1. LedgerTypes'  BY DEF LedgerTypes, TypesOK, WaitRead, IInv
<1>2. TypeOK'  BY <1>1 DEF TypeOK, TypesOK, WaitRead, IInv
<1>3. TaskTypes'  BY DEF TaskTypes, TypesOK, WaitRead, IInv
<1>4. ServiceTypes'
  <2>1. CASE tool' = NoTool  BY <2>1 DEF ServiceTypes, TypesOK, NoTool, WaitRead, IInv
  <2>2. CASE tool' = [tool EXCEPT !.at = "read"]  BY <2>2 DEF ServiceTypes, TypesOK, WaitRead, IInv
  <2> QED  BY <2>1, <2>2 DEF WaitReturn, WaitRead
<1>5. OtherTypes'  BY DEF OtherTypes, TypesOK, WaitRead, IInv
<1>6. SchedulerInv'
  <2>1. \A d \in Children : InTask(d)' = InTask(d)  BY DEF WaitRead, InTask
  <2> QED  BY <2>1, SchedulerStays DEF WaitRead
<1>7. SpawnInv'  BY DEF Cancels, ServiceTypes, TypesOK, InTask, Queued, Untouched, SpawnInv,
                        NoTool, WaitReturn, Waiting, WaitRead, IInv
<1>8. CancelInv'  BY DEF InTask, Queued, Of, CancelInv, ServiceTypes, TypesOK, NoTool, WaitReturn,
                         Waiting, WaitRead, IInv
<1>9. RecordInv'
  <2> SUFFICES ASSUME NEW d \in Children PROVE RecordOf(d)'  BY DEF RecordInv
  <2> QED  BY DEF Queued, AtWork, RecordOf, RecordInv, WaitRead, IInv
<1>10. RecoveryInv'  BY DEF RecoveryInv, Up, Waiting, WaitRead
<1>11. BudgetInv'
  <2>1. tool.op = "wait" /\ tool'.op # "spawn"
    BY DEF NoTool, WaitReturn, Waiting, WaitRead, ServiceTypes, TypesOK, IInv
  <2> QED  BY <2>1, BudgetStays DEF Pending, WaitRead
<1>12. WaitInv'  BY DEF ServiceTypes, TypesOK, Of, Done, WaitInv, NoTool, WaitReturn, WaitRead, IInv
<1>13. CalmInv'
  <2> SUFFICES ASSUME Calm', NEW d \in Children PROVE CalmOf(d)'  BY DEF CalmInv
  <2> QED  BY DEF InTask, Queued, Undecided, CalmOf, Calm, CalmInv, Waiting, WaitRead, IInv
<1> QED  BY <1>1, <1>2, <1>3, <1>4, <1>5, <1>6, <1>7, <1>8, <1>9, <1>10, <1>11, <1>12, <1>13
            DEF TypesOK, IInv

LEMMA WaitSleepKeeps ==
  ASSUME IInv, WaitSleep PROVE IInv'
<1>1. LedgerTypes'  BY DEF LedgerTypes, TypesOK, WaitSleep, IInv
<1>2. TypeOK'  BY <1>1 DEF TypeOK, TypesOK, WaitSleep, IInv
<1>3. TaskTypes'  BY DEF TaskTypes, TypesOK, WaitSleep, IInv
<1>4. ServiceTypes'  BY DEF ServiceTypes, TypesOK, Asleep, WaitSleep, IInv
<1>5. OtherTypes'  BY DEF OtherTypes, TypesOK, WaitSleep, IInv
<1>6. SchedulerInv'
  <2>1. \A d \in Children : InTask(d)' = InTask(d)  BY DEF WaitSleep, InTask
  <2> QED  BY <2>1, SchedulerStays DEF WaitSleep
<1>7. SpawnInv'  BY DEF InTask, Queued, Untouched, SpawnInv, Asleep, Waiting, WaitSleep, IInv
<1>8. CancelInv'  BY DEF InTask, Queued, Of, CancelInv, Asleep, Waiting, WaitSleep, IInv
<1>9. RecordInv'
  <2> SUFFICES ASSUME NEW d \in Children PROVE RecordOf(d)'  BY DEF RecordInv
  <2> QED  BY DEF Queued, AtWork, RecordOf, RecordInv, WaitSleep, IInv
<1>10. RecoveryInv'  BY DEF RecoveryInv, Up, Waiting, WaitSleep
<1>11. BudgetInv'  BY BudgetStays DEF Asleep, WaitSleep, Pending
<1>12. WaitInv'  BY DEF Of, Heard, WaitInv, Asleep, Waiting, WaitSleep, IInv
<1>13. CalmInv'
  <2> SUFFICES ASSUME Calm', NEW d \in Children PROVE CalmOf(d)'  BY DEF CalmInv
  <2> QED  BY DEF InTask, Queued, Undecided, CalmOf, Calm, CalmInv, Waiting, WaitSleep, IInv
<1> QED  BY <1>1, <1>2, <1>3, <1>4, <1>5, <1>6, <1>7, <1>8, <1>9, <1>10, <1>11, <1>12, <1>13
            DEF TypesOK, IInv

LEMMA WaitEndsKeeps ==
  ASSUME IInv, WaitEnds PROVE IInv'
<1>1. LedgerTypes'  BY DEF LedgerTypes, TypesOK, WaitEnds, IInv
<1>2. TypeOK'  BY <1>1 DEF TypeOK, TypesOK, WaitEnds, IInv
<1>3. TaskTypes'  BY DEF TaskTypes, TypesOK, WaitEnds, IInv
<1>4. ServiceTypes'  BY DEF ServiceTypes, TypesOK, NoTool, WaitReturn, WaitEnds, IInv
<1>5. OtherTypes'  BY DEF OtherTypes, TypesOK, WaitEnds, IInv
<1>6. SchedulerInv'
  <2>1. \A d \in Children : InTask(d)' = InTask(d)  BY DEF WaitEnds, InTask
  <2> QED  BY <2>1, SchedulerStays DEF WaitEnds
<1>7. SpawnInv'  BY DEF InTask, Queued, Untouched, SpawnInv, NoTool, WaitReturn, WaitEnds, IInv
<1>8. CancelInv'  BY DEF InTask, Queued, Of, CancelInv, NoTool, WaitReturn, WaitEnds, IInv
<1>9. RecordInv'
  <2> SUFFICES ASSUME NEW d \in Children PROVE RecordOf(d)'  BY DEF RecordInv
  <2> QED  BY DEF Queued, AtWork, RecordOf, RecordInv, WaitEnds, IInv
<1>10. RecoveryInv'  BY DEF RecoveryInv, Up, Waiting, WaitEnds
<1>11. BudgetInv'  BY BudgetStays DEF NoTool, WaitReturn, WaitEnds, Pending
<1>12. WaitInv'  BY DEF Heard, WaitInv, NoTool, WaitReturn, WaitEnds
<1>13. CalmInv'
  <2> SUFFICES ASSUME Calm', NEW d \in Children PROVE CalmOf(d)'  BY DEF CalmInv
  <2> QED  BY DEF InTask, Queued, Undecided, CalmOf, Calm, CalmInv, Waiting, WaitEnds, IInv
<1> QED  BY <1>1, <1>2, <1>3, <1>4, <1>5, <1>6, <1>7, <1>8, <1>9, <1>10, <1>11, <1>12, <1>13
            DEF TypesOK, IInv

LEMMA CheckpointKeeps ==
  ASSUME IInv, NEW r \in Roots, Checkpoint(r) PROVE IInv'
<1>1. LedgerTypes'  BY DEF LedgerTypes, TypesOK, Checkpoint, IInv
<1>2. TypeOK'  BY <1>1 DEF TypeOK, TypesOK, Checkpoint, IInv
<1>3. TaskTypes'  BY DEF TaskTypes, TypesOK, Checkpoint, IInv
<1>4. ServiceTypes'  BY DEF ServiceTypes, TypesOK, Checkpoint, IInv
<1>5. OtherTypes'  BY DEF OtherTypes, TypesOK, Checkpoint, IInv
<1>6. SchedulerInv'
  <2>1. \A d \in Children : InTask(d)' = InTask(d)  BY DEF Checkpoint, InTask
  <2> QED  BY <2>1, SchedulerStays DEF Checkpoint
<1>7. SpawnInv'  BY DEF InTask, Queued, Untouched, SpawnInv, Checkpoint, IInv
<1>8. CancelInv'  BY DEF InTask, Queued, Of, CancelInv, Checkpoint, IInv
<1>9. RecordInv'
  <2> SUFFICES ASSUME NEW d \in Children PROVE RecordOf(d)'  BY DEF RecordInv
  <2> QED  BY DEF Queued, AtWork, RecordOf, RecordInv, Checkpoint, IInv
<1>10. RecoveryInv'  BY DEF RecoveryInv, Up, Checkpoint
<1>11. BudgetInv'  BY BudgetStays DEF Checkpoint, Pending
<1>12. WaitInv'  BY DEF Of, Heard, WaitInv, Checkpoint, IInv
<1>13. CalmInv'
  <2> SUFFICES ASSUME Calm', NEW d \in Children PROVE CalmOf(d)'  BY DEF CalmInv
  <2> QED  BY DEF InTask, Queued, Undecided, CalmOf, Calm, CalmInv, Checkpoint, IInv
<1> QED  BY <1>1, <1>2, <1>3, <1>4, <1>5, <1>6, <1>7, <1>8, <1>9, <1>10, <1>11, <1>12, <1>13
            DEF TypesOK, IInv

LEMMA CancelScopeKeeps ==
  ASSUME IInv, NEW r \in Roots, CancelScope(r) PROVE IInv'
<1>1. LedgerTypes'  BY DEF LedgerTypes, TypesOK, CancelScope, IInv
<1>2. TypeOK'  BY <1>1 DEF TypeOK, TypesOK, CancelScope, IInv
<1>3. TaskTypes'  BY DEF TaskTypes, TypesOK, CancelScope, IInv
<1>4. ServiceTypes'  BY DEF ServiceTypes, TypesOK, CancelScope, IInv
<1>5. OtherTypes'  BY DEF OtherTypes, TypesOK, CancelScope, IInv
<1>6. SchedulerInv'
  <2>1. \A d \in Children : InTask(d)' = InTask(d)  BY DEF CancelScope, InTask
  <2> QED  BY <2>1, SchedulerStays DEF CancelScope
<1>7. SpawnInv'  BY DEF InTask, Queued, Untouched, SpawnInv, CancelScope, IInv
<1>8. CancelInv'  BY DEF InTask, Queued, Of, CancelInv, CancelScope, IInv
<1>9. RecordInv'
  <2> SUFFICES ASSUME NEW d \in Children PROVE RecordOf(d)'  BY DEF RecordInv
  <2> QED  BY DEF Queued, AtWork, RecordOf, RecordInv, CancelScope, IInv
<1>10. RecoveryInv'  BY DEF RecoveryInv, Up, CancelScope
<1>11. BudgetInv'  BY BudgetStays DEF CancelScope, Pending
<1>12. WaitInv'  BY DEF Of, Heard, WaitInv, CancelScope, IInv
<1>13. CalmInv'
  <2> SUFFICES ASSUME Calm', NEW d \in Children PROVE CalmOf(d)'  BY DEF CalmInv
  <2> QED  BY DEF InTask, Queued, Undecided, CalmOf, Calm, CalmInv, CancelScope, IInv
<1> QED  BY <1>1, <1>2, <1>3, <1>4, <1>5, <1>6, <1>7, <1>8, <1>9, <1>10, <1>11, <1>12, <1>13
            DEF TypesOK, IInv

LEMMA EndRootKeeps ==
  ASSUME IInv, NEW r \in Roots, EndRoot(r) PROVE IInv'
<1>1. LedgerTypes'  BY DEF LedgerTypes, TypesOK, EndRoot, IInv
<1>2. TypeOK'  BY <1>1 DEF TypeOK, TypesOK, EndRoot, IInv
<1>3. TaskTypes'  BY DEF TaskTypes, TypesOK, EndRoot, IInv
<1>4. ServiceTypes'
  <2> DEFINE all == {c \in Of(r) : status[c] \notin Terminal \cup {"none"}}
  <2>1. [cancel[r] EXCEPT !.todo = all] \in Cancels  BY DEF Of, Cancels, ServiceTypes, TypesOK, IInv
  <2> HIDE DEF all
  <2> QED  BY <2>1 DEF all, ServiceTypes, TypesOK, EndRoot, IInv
<1>5. OtherTypes'  BY DEF OtherTypes, TypesOK, EndRoot, IInv
<1>6. SchedulerInv'
  <2>1. \A d \in Children : InTask(d)' = InTask(d)  BY DEF EndRoot, InTask
  <2> QED  BY <2>1, SchedulerStays DEF EndRoot
<1>7. SpawnInv'
  <2>1. \A c \in Children : c \in cancel'[r].todo => parent[c] = r /\ status[c] # "none"
    BY DEF Of, EndRoot, ServiceTypes, TypesOK, IInv
  <2>2. \A p \in Roots : /\ cancel'[p].child = cancel[p].child
                         /\ p # r => cancel'[p] = cancel[p]
    BY DEF EndRoot
  <2>3. \A c \in Children : Queued(c)' = Queued(c) /\ InTask(c)' = InTask(c)
    BY DEF InTask, Queued, EndRoot
  <2>4. ASSUME NEW c \in Children, Untouched(c), status[c] = "none" \/ parent[c] # r PROVE Untouched(c)'
    BY <2>1, <2>2, <2>3, <2>4 DEF Untouched
  <2> QED  BY <2>4 DEF SpawnInv, EndRoot, IInv
<1>8. CancelInv'  BY DEF InTask, Queued, Of, CancelInv, EndRoot, IInv
<1>9. RecordInv'
  <2> SUFFICES ASSUME NEW d \in Children PROVE RecordOf(d)'  BY DEF RecordInv
  <2> QED  BY DEF Queued, AtWork, RecordOf, RecordInv, EndRoot, IInv
<1>10. RecoveryInv'  BY DEF RecoveryInv, Up, EndRoot
<1>11. BudgetInv'  BY BudgetStays DEF EndRoot, Pending
<1>12. WaitInv'  BY DEF Of, Heard, WaitInv, EndRoot, IInv
<1>13. CalmInv'
  <2> SUFFICES ASSUME Calm', NEW d \in Children PROVE CalmOf(d)'  BY DEF CalmInv
  <2>1. CalmOf(d)  BY DEF EndRoot, Calm, CalmInv, IInv
  <2> QED  BY <2>1 DEF ServiceTypes, TypesOK, InTask, Queued, Undecided, Of, CalmOf, EndRoot, IInv
<1> QED  BY <1>1, <1>2, <1>3, <1>4, <1>5, <1>6, <1>7, <1>8, <1>9, <1>10, <1>11, <1>12, <1>13
            DEF TypesOK, IInv

LEMMA RootEndedKeeps ==
  ASSUME IInv, NEW r \in Roots, RootEnded(r) PROVE IInv'
<1>1. LedgerTypes'  BY DEF LedgerTypes, TypesOK, RootEnded, IInv
<1>2. TypeOK'  BY <1>1 DEF TypeOK, TypesOK, RootEnded, IInv
<1>3. TaskTypes'  BY DEF TaskTypes, TypesOK, RootEnded, IInv
<1>4. ServiceTypes'  BY DEF ServiceTypes, TypesOK, RootEnded, IInv
<1>5. OtherTypes'  BY DEF OtherTypes, TypesOK, RootEnded, IInv
<1>6. SchedulerInv'
  <2>1. \A d \in Children : InTask(d)' = InTask(d)  BY DEF RootEnded, InTask
  <2> QED  BY <2>1, SchedulerStays DEF RootEnded
<1>7. SpawnInv'  BY DEF InTask, Queued, Untouched, SpawnInv, RootEnded, IInv
<1>8. CancelInv'  BY DEF InTask, Queued, Of, CancelInv, RootEnded, IInv
<1>9. RecordInv'
  <2> SUFFICES ASSUME NEW d \in Children PROVE RecordOf(d)'  BY DEF RecordInv
  <2> QED  BY DEF Queued, AtWork, RecordOf, RecordInv, RootEnded, IInv
<1>10. RecoveryInv'  BY DEF RecoveryInv, Up, RootEnded
<1>11. BudgetInv'  BY BudgetStays DEF RootEnded, Pending
<1>12. WaitInv'  BY DEF Of, Heard, WaitInv, RootEnded, IInv
<1>13. CalmInv'
  <2> SUFFICES ASSUME Calm', NEW d \in Children PROVE CalmOf(d)'  BY DEF CalmInv
  <2>1. CalmOf(d) /\ d # None  BY DEF RootEnded, Calm, CalmInv, IInv
  <2> QED  BY <2>1 DEF InTask, Queued, Undecided, CalmOf, Idle, RootEnded
<1> QED  BY <1>1, <1>2, <1>3, <1>4, <1>5, <1>6, <1>7, <1>8, <1>9, <1>10, <1>11, <1>12, <1>13
            DEF TypesOK, IInv

LEMMA RootLostKeeps ==
  ASSUME IInv, NEW r \in Roots, RootLost(r) PROVE IInv'
<1>1. LedgerTypes'  BY DEF LedgerTypes, TypesOK, RootLost, IInv
<1>2. TypeOK'  BY <1>1 DEF TypeOK, TypesOK, RootLost, IInv
<1>3. TaskTypes'  BY DEF TaskTypes, TypesOK, RootLost, IInv
<1>4. ServiceTypes'  BY DEF ServiceTypes, TypesOK, RootLost, IInv
<1>5. OtherTypes'  BY DEF OtherTypes, TypesOK, Fault, RootLost, IInv
<1>6. SchedulerInv'
  <2>1. \A d \in Children : InTask(d)' = InTask(d)  BY DEF RootLost, InTask
  <2> QED  BY <2>1, SchedulerStays DEF RootLost
<1>7. SpawnInv'  BY DEF InTask, Queued, Untouched, SpawnInv, RootLost, IInv
<1>8. CancelInv'  BY DEF InTask, Queued, Of, CancelInv, RootLost, IInv
<1>9. RecordInv'
  <2> SUFFICES ASSUME NEW d \in Children PROVE RecordOf(d)'  BY DEF RecordInv
  <2> QED  BY DEF Queued, AtWork, RecordOf, RecordInv, RootLost, IInv
<1>10. RecoveryInv'  BY DEF RecoveryInv, Up, RootLost
<1>11. BudgetInv'  BY BudgetStays DEF RootLost, Pending
<1>12. WaitInv'
  <2>1. faults \in Nat /\ faults' = faults + 1  BY DEF OtherTypes, TypesOK, RootLost, Fault, IInv
  <2> QED  BY <2>1 DEF Of, Heard, WaitInv, RootLost, IInv
<1>13. CalmInv'
  <2> SUFFICES ASSUME Calm', NEW d \in Children PROVE CalmOf(d)'  BY DEF CalmInv
  <2> QED  BY DEF OtherTypes, TypesOK, Calm, Fault, RootLost, IInv
<1> QED  BY <1>1, <1>2, <1>3, <1>4, <1>5, <1>6, <1>7, <1>8, <1>9, <1>10, <1>11, <1>12, <1>13
            DEF TypesOK, IInv

LEMMA CrashKeeps ==
  ASSUME IInv, NEW resumed \in SUBSET Roots, Crash(resumed) PROVE IInv'
<1>1. LedgerTypes'  BY DEF Budgets, LedgerTypes, TypesOK, Idle, NoTool, Crash, IInv
<1>2. TypeOK'  BY <1>1 DEF TypeOK, TypesOK, Budgets, LedgerTypes, Crash, IInv
<1>3. TaskTypes'  BY DEF TaskTypes, EmptyScheduler, Crash
<1>4. ServiceTypes'  BY DEF Cancels, ServiceTypes, Idle, NoTool, Crash
<1>5. OtherTypes'  BY DEF OtherTypes, TypesOK, Crash, IInv
<1>6. SchedulerInv'
  <2>1. {d \in Children : InTask(d)}' = {}  BY DEF InTask, Crash
  <2>2. Sound(EmptyScheduler)'  BY EmptySound, PTL
  <2> QED  BY <2>1, <2>2 DEF EmptyScheduler, SchedulerInv, Crash
<1>7. SpawnInv'
  <2>1. \A d \in Children : ~Queued(d)' /\ ~InTask(d)'
    BY ParentType, NobodyQueued DEF InTask, Queued, EmptyScheduler, Crash
  <2> QED  BY <2>1 DEF Idle, NoTool, Untouched, SpawnInv, Crash
<1>8. CancelInv'  BY DEF Idle, NoTool, CancelInv, Crash
<1>9. RecordInv'
  <2> SUFFICES ASSUME NEW d \in Children PROVE RecordOf(d)'  BY DEF RecordInv
  <2>1. \A k \in Children : ~Queued(k)' /\ ~InTask(k)'
    BY ParentType, NobodyQueued DEF InTask, Queued, EmptyScheduler, Crash
  <2>2. RecordOf(d)  BY DEF RecordInv, IInv
  <2> QED  BY <2>1, <2>2 DEF AtWork, Idle, RecordOf, Crash
<1>10. RecoveryInv'
  <2>1. \A d \in Children : ~Queued(d)' /\ ~InTask(d)'
    BY ParentType, NobodyQueued DEF InTask, Queued, EmptyScheduler, Crash
  <2>2. ASSUME NEW r \in Roots PROVE ledger'[r].adopted <= ledger'[r].reserved
    <3>1. checkpoint[r] \in Budgets  BY DEF LedgerTypes, TypesOK, IInv
    <3>2. ledger'[r] = [checkpoint[r] EXCEPT !.adopted = 0]  BY DEF Crash
    <3> QED  BY <3>1, <3>2 DEF Budgets
  <2>3. crashes' > 0  BY DEF Crash, OtherTypes, TypesOK, IInv
  <2> QED  BY <2>1, <2>2, <2>3 DEF RecoveryInv, Crash
<1>11. BudgetInv'
  <2> SUFFICES ASSUME NEW r \in Roots
               PROVE  /\ Holders(r, {"fresh", "adopted"})' + Pending(r)' <= ledger'[r].reserved
                      /\ Holders(r, {"adopted"})' <= ledger'[r].adopted
    BY DEF BudgetInv
  <2>1. /\ {c \in Of(r) : held[c] \in {"fresh", "adopted"}}' = {}
        /\ {c \in Of(r) : held[c] \in {"adopted"}}' = {}
    BY DEF Of, Crash
  <2>2. Holders(r, {"fresh", "adopted"})' = 0 /\ Holders(r, {"adopted"})' = 0
    BY <2>1, FS_EmptySet DEF Holders
  <2>3. Pending(r)' = 0  BY DEF NoTool, Pending, Crash
  <2>4. ledger'[r].reserved \in Nat /\ ledger'[r].adopted \in Nat
    <3>1. checkpoint[r] \in Budgets  BY DEF LedgerTypes, TypesOK, IInv
    <3> QED  BY <3>1 DEF Budgets, Crash
  <2> QED  BY <2>2, <2>3, <2>4
<1>12. WaitInv'  BY DEF Heard, WaitInv, NoTool, Crash
<1>13. CalmInv'
  <2> SUFFICES ASSUME Calm', NEW d \in Children PROVE CalmOf(d)'  BY DEF CalmInv
  <2> QED  BY DEF OtherTypes, TypesOK, Calm, Crash, IInv
<1> QED  BY <1>1, <1>2, <1>3, <1>4, <1>5, <1>6, <1>7, <1>8, <1>9, <1>10, <1>11, <1>12, <1>13
            DEF TypesOK, IInv

LEMMA OrphanKeeps ==
  ASSUME IInv, NEW c \in Children, Orphan(c) PROVE IInv'
<1>1. LedgerTypes'  BY DEF LedgerTypes, TypesOK, Orphan, IInv
<1>2. TypeOK'  BY <1>1 DEF Statuses, TypeOK, TypesOK, Orphan, IInv
<1>3. TaskTypes'  BY DEF TaskTypes, TypesOK, Orphan, IInv
<1>4. ServiceTypes'  BY DEF ServiceTypes, TypesOK, Orphan, IInv
<1>5. OtherTypes'  BY DEF OtherTypes, TypesOK, Orphan, IInv
<1>6. SchedulerInv'
  <2>1. \A d \in Children : InTask(d)' = InTask(d)  BY DEF Orphan, InTask
  <2> QED  BY <2>1, SchedulerStays DEF Orphan
<1>7. SpawnInv'
  <2>1. /\ \A d \in Children : status'[d] = "none" => status[d] = "none"
        /\ startup # "up"
    BY DEF Scanning, Orphan
  <2> QED  BY <2>1 DEF InTask, Queued, Untouched, NoTool, RecoveryInv, SpawnInv, Orphan, IInv
<1>8. CancelInv'  BY DEF InTask, Queued, Of, CancelInv, Orphan, IInv
<1>9. RecordInv'
  <2> SUFFICES ASSUME NEW d \in Children PROVE RecordOf(d)'  BY DEF RecordInv
  <2>1. RecordOf(d) /\ ~InTask(c) /\ ~Queued(c) /\ \A r \in Roots : cancel[r] = Idle
    BY DEF RecoveryInv, Scanning, Orphan, RecordInv, IInv
  <2>2. AtWork(d)' => AtWork(d) /\ d # c  BY <2>1 DEF AtWork, Queued, InTask, Idle, Orphan
  <2>3. pc[c] # "running" /\ "orphaned" \notin Terminal  BY <2>1 DEF InTask, Terminal
  <2> QED  BY <2>1, <2>2, <2>3 DEF RecordOf, Orphan, TypeOK, TypesOK, IInv
<1>10. RecoveryInv'  BY DEF OtherTypes, TypeOK, TypesOK, InTask, Queued, RecoveryInv, Orphan, IInv
<1>11. BudgetInv'  BY BudgetStays DEF Orphan, Pending
<1>12. WaitInv'  BY DEF Terminal, Of, Heard, WaitInv, Orphan, IInv
<1>13. CalmInv'  BY DEF Calm, CalmInv, RecoveryInv, Scanning, Orphan, IInv
<1> QED  BY <1>1, <1>2, <1>3, <1>4, <1>5, <1>6, <1>7, <1>8, <1>9, <1>10, <1>11, <1>12, <1>13
            DEF TypesOK, IInv

LEMMA InterruptKeeps ==
  ASSUME IInv, NEW c \in Children, Interrupt(c) PROVE IInv'
<1>1. LedgerTypes'  BY InterruptPays
<1>2. TypeOK'
  <2>1. /\ status' \in [Children -> Statuses] /\ leased' \in [Children -> BOOLEAN]
        /\ result' \in [Children -> Terminal \cup {"none"}]
    BY DEF Statuses, TypeOK, TypesOK, Terminal, Record, Blocked, Interrupt, IInv
  <2>2. UNCHANGED <<parent, rootDone, root, pc, lock, checkpoint, held>> /\ startup' \in {startup, "blocked"}
    BY DEF Blocked, Interrupt
  <2>3. \A q \in Roots : ledger'[q].reserved \in Nat /\ checkpoint'[q].reserved \in Nat
    BY <1>1 DEF Budgets, LedgerTypes
  <2> QED  BY <2>1, <2>2, <2>3 DEF TypeOK, TypesOK, IInv
<1>3. TaskTypes'  BY DEF TaskTypes, TypesOK, Blocked, Interrupt, IInv
<1>4. ServiceTypes'  BY DEF ServiceTypes, TypesOK, Blocked, Interrupt, IInv
<1>5. OtherTypes'  BY DEF OtherTypes, TypesOK, Blocked, Interrupt, IInv
<1>6. SchedulerInv'
  <2>1. UNCHANGED <<parent, sched>> /\ \A d \in Children : InTask(d)' = InTask(d)
    BY DEF InTask, Blocked, Interrupt
  <2> QED  BY <2>1, SchedulerStays
<1>7. SpawnInv'  BY DEF TypeOK, TypesOK, InTask, Queued, Untouched, SpawnInv, Blocked, Record,
                        Interrupt, IInv
<1>8. CancelInv'  BY DEF InTask, Queued, Of, CancelInv, Blocked, Interrupt, IInv
<1>9. RecordInv'
  <2> SUFFICES ASSUME NEW d \in Children PROVE RecordOf(d)'  BY DEF RecordInv
  <2>1. RecordOf(d) /\ pc[c] # "running" /\ ~Queued(c)
    BY DEF RecoveryInv, Scanning, Interrupt, RecordInv, IInv
  <2>2. CASE Blocked
    <3> UNCHANGED <<parent, sched, status, result, leased, pc, cancel, held>>  BY <2>2 DEF Blocked
    <3> QED  BY <2>1 DEF Queued, AtWork, RecordOf
  <2>3. CASE ~Blocked
    <3>1. Record(c, "interrupted") /\ UNCHANGED <<parent, sched, pc, cancel, held>>
      BY <2>3 DEF Interrupt
    <3>2. AtWork(d)' <=> AtWork(d)  BY <3>1 DEF AtWork, Queued
    <3>3. "interrupted" \in Terminal  BY DEF Terminal
    <3> QED  BY <2>1, <3>1, <3>2, <3>3 DEF TypeOK, TypesOK, RecordOf, Record, IInv
  <2> QED  BY <2>2, <2>3
<1>10. RecoveryInv'
  <2>1. CASE Blocked
    <3> UNCHANGED <<parent, sched, status, tool, cancel, pc, held, unscanned, ledger, crashes>>
      BY <2>1 DEF Blocked
    <3> QED  BY DEF InTask, Queued, Scanning, Interrupt, RecoveryInv, IInv
  <2>2. CASE ~Blocked
    <3>1. /\ UNCHANGED <<parent, sched, tool, cancel, pc, held, startup, crashes>>
          /\ unscanned' = unscanned \ {c} /\ \A d \in Children \ {c} : status'[d] = status[d]
      BY <2>2 DEF Record, Interrupt, TypeOK, TypesOK, IInv
    <3>2. \A r \in Roots : ledger'[r].adopted <= ledger'[r].reserved
      BY InterruptPays
    <3> QED  BY <3>1, <3>2 DEF OtherTypes, TypesOK, InTask, Queued, RecoveryInv, IInv
  <2> QED  BY <2>1, <2>2
<1>11. BudgetInv'  BY InterruptPays
<1>12. WaitInv'  BY DEF ServiceTypes, TypesOK, Of, Heard, WaitInv, Blocked, Interrupt, IInv
<1>13. CalmInv'  BY DEF Calm, CalmInv, RecoveryInv, Blocked, Scanning, Interrupt, IInv
<1> QED  BY <1>1, <1>2, <1>3, <1>4, <1>5, <1>6, <1>7, <1>8, <1>9, <1>10, <1>11, <1>12, <1>13
            DEF TypesOK, IInv

LEMMA RecoveryDoneKeeps ==
  ASSUME IInv, RecoveryDone PROVE IInv'
<1>1. LedgerTypes'  BY DEF LedgerTypes, TypesOK, RecoveryDone, IInv
<1>2. TypeOK'  BY <1>1 DEF TypeOK, TypesOK, RecoveryDone, IInv
<1>3. TaskTypes'  BY DEF TaskTypes, TypesOK, RecoveryDone, IInv
<1>4. ServiceTypes'  BY DEF ServiceTypes, TypesOK, RecoveryDone, IInv
<1>5. OtherTypes'  BY DEF OtherTypes, TypesOK, RecoveryDone, IInv
<1>6. SchedulerInv'
  <2>1. \A d \in Children : InTask(d)' = InTask(d)  BY DEF RecoveryDone, InTask
  <2> QED  BY <2>1, SchedulerStays DEF RecoveryDone
<1>7. SpawnInv'
  <2>1. tool = NoTool /\ \A d \in Children : pc[d] # "committed"  BY
  DEF RecoveryInv, RecoveryDone, IInv
  <2> QED  BY <2>1 DEF InTask, Queued, Untouched, NoTool, SpawnInv, RecoveryDone, IInv
<1>8. CancelInv'  BY DEF InTask, Queued, Of, CancelInv, RecoveryDone, IInv
<1>9. RecordInv'
  <2> SUFFICES ASSUME NEW d \in Children PROVE RecordOf(d)'  BY DEF RecordInv
  <2> QED  BY DEF Queued, AtWork, RecordOf, RecordInv, RecoveryDone, IInv
<1>10. RecoveryInv'  BY DEF RecoveryInv, RecoveryDone
<1>11. BudgetInv'  BY BudgetStays DEF RecoveryDone, Pending
<1>12. WaitInv'  BY DEF Of, Heard, WaitInv, RecoveryDone, IInv
<1>13. CalmInv'
  <2> SUFFICES ASSUME Calm', NEW d \in Children PROVE CalmOf(d)'  BY DEF CalmInv
  <2> QED  BY DEF InTask, Queued, Undecided, CalmOf, Calm, CalmInv, RecoveryDone, IInv
<1> QED  BY <1>1, <1>2, <1>3, <1>4, <1>5, <1>6, <1>7, <1>8, <1>9, <1>10, <1>11, <1>12, <1>13
            DEF TypesOK, IInv

-----------------------------------------------------------------------------
(* Steps that move children between queues and slots.                       *)

Tasks == {"dispatched", "running", "finishing", "committed", "closing"}
Places == Tasks \cup {"none", "gone"}
Plains == [queue : [Roots -> Seq(Children)], order : Seq(Roots), active : SUBSET Children]

\* Who waits in a queue, in the scheduler's words and in those of the invariant.
LEMMA ContainsMeans == \A q \in Seq(Children) : \A c : Contains(q, c) <=> c \in ToSet(q)
  BY DEF Contains, ToSet

LEMMA QueuedNext ==
  ASSUME UNCHANGED parent, parent \in [Children -> Roots], sched' \in Plains, NEW c \in Children
  PROVE  Queued(c)' <=> c \in ToSet(sched'.queue[parent[c]])
<1>1. sched'.queue[parent[c]] \in Seq(Children)  BY DEF Plains
<1>2. Queued(c)' <=> Contains(sched'.queue[parent[c]], c)  BY DEF Queued
<1> QED  BY <1>1, <1>2, ContainsMeans

\* Taking a queued child out of its queue.
LEMMA UnqueuedSound ==
  ASSUME IInv, NEW c \in Children, Queued(c)
  PROVE  LET s == Unqueued(c)
         IN /\ s \in Plains /\ Sound(s) /\ s.active = sched.active
            /\ \A r \in Roots : ToSet(s.queue[r]) = ToSet(sched.queue[r]) \ {c}
<1> DEFINE p == parent[c]
           q == sched.queue[p]
           k == CHOOSE i \in 1..Len(q) : q[i] = c
           rest == RemoveAt(q, k)
           s == Unqueued(c)
<1>1. /\ p \in Roots /\ sched \in Plains /\ Sound(sched) /\ c \in ToSet(q)
      /\ q \in Seq(Children) /\ IsInjective(q) /\ sched.order \in Seq(Roots)
  BY ParentType, QueuedMeans DEF IInv, TypesOK, TaskTypes, SchedulerInv, Sound, Plains
<1>2. k \in 1..Len(q) /\ q[k] = c
  <2>1. \E i \in 1..Len(q) : q[i] = c  BY <1>1 DEF ToSet
  <2> QED  BY <2>1
<1> HIDE DEF k
<1>3. rest \in Seq(Children) /\ IsInjective(rest) /\ ToSet(rest) = ToSet(q) \ {c}
  BY <1>1, <1>2, RemoveFromQueue
<1>4. OnlyOf(Roots \ {p}, sched.order) \in Seq(Roots)  BY <1>1, OnlyOfType
<1>5. s = [sched EXCEPT !.queue[p] = rest,
                        !.order = IF rest = <<>> THEN OnlyOf(Roots \ {p}, @) ELSE @]
  BY DEF Unqueued, k
<1> HIDE DEF rest, s
<1>6. /\ s.queue = [sched.queue EXCEPT ![p] = rest] /\ s.active = sched.active /\ s.order \in Seq(Roots)
      /\ s \in Plains
  BY <1>1, <1>3, <1>4, <1>5 DEF Plains
<1>7. ASSUME NEW r \in Roots
      PROVE  /\ ToSet(s.queue[r]) = ToSet(sched.queue[r]) \ {c} /\ IsInjective(s.queue[r])
             /\ ToSet(s.queue[r]) \subseteq Of(r) \ s.active
             /\ Cardinality(Of(r) \cap s.active) <= MaxRoot
  <2>1. CASE r = p
    <3>1. s.queue[r] = rest  BY <1>1, <1>6, <2>1 DEF Plains
    <3> QED  BY <1>1, <1>3, <1>6, <2>1, <3>1 DEF Sound
  <2>2. CASE r # p
    <3>1. s.queue[r] = sched.queue[r]  BY <1>1, <1>6, <2>2 DEF Plains
    <3>2. c \notin ToSet(sched.queue[r])  BY <1>1, <2>2 DEF Sound, Of
    <3> QED  BY <1>1, <1>6, <3>1, <3>2 DEF Sound
  <2> QED  BY <2>1, <2>2
<1>8. Sound(s)  BY <1>1, <1>6, <1>7 DEF Sound, Plains
<1> QED  BY <1>6, <1>7, <1>8 DEF s

\* Who is queued, and has a task, after the jobs a dispatch took were started: `waiting'
\* are those that were in a queue before it.
Moved(waiting, pcs) ==
    \A d \in Children :
        /\ Queued(d)' => d \in waiting
        /\ pc'[d] = pcs[d] \/ (pc'[d] = "dispatched" /\ d \in waiting)
        /\ d \in waiting => Queued(d)' \/ InTask(d)' \/ root[parent[d]] \notin {"running", "ending"}

LEMMA StartMoves ==
  ASSUME IInv, UNCHANGED parent, NEW b, b.queue \in [Roots -> Seq(Children)], b.order \in Seq(Roots),
         b.active \subseteq sched.active, Sound(b),
         \A r \in Roots : ToSet(b.queue[r]) \cap sched.active = {},
         NEW pcs \in [Children -> Places], \A d \in Children : d \in b.active <=> pcs[d] \in Tasks,
         Start(Dispatch(b), pcs)
  PROVE  /\ TaskTypes' /\ pc' \in [Children -> Places] /\ SchedulerInv'
         /\ Moved({d \in Children : d \in ToSet(b.queue[parent[d]])}, pcs)
<1> DEFINE s == Dispatch(b)
           new == s.active \ sched.active
           waiting == {d \in Children : d \in ToSet(b.queue[parent[d]])}
<1>1. /\ parent \in [Children -> Roots] /\ sched \in Plains /\ scopeCancelled \in [Roots -> BOOLEAN]
      /\ signalled \in [Children -> BOOLEAN]
      /\ outcome \in [Children -> {"none", "error", "completed", "failed", "cancelled"}]
  BY ParentType DEF IInv, TypesOK, TaskTypes, OtherTypes, Plains
<1>2. b.active \subseteq Children  BY <1>1 DEF Plains
<1>3. s \in Schedules /\ Sound(s) /\ Takes(b, s)  BY <1>2, DispatchSound
<1>4. /\ sched' = Plain(s)
      /\ pc' = [d \in Children |-> IF d \in new THEN "dispatched" ELSE pcs[d]]
      /\ signalled' = [d \in Children |->
             IF d \in new THEN scopeCancelled[parent[d]] ELSE signalled[d] /\ d \in s.active]
      /\ outcome' = [d \in Children |-> IF d \in new THEN "none" ELSE outcome[d]]
  BY DEF Start
<1> HIDE DEF s
<1>5. sched' \in Plains /\ sched'.queue = s.queue /\ sched'.active = s.active /\ sched'.order = s.order
  BY <1>3, <1>4 DEF Plain, Plains, Schedules
<1>6. TaskTypes'
  <2>1. sched' \in [queue : [Roots -> Seq(Children)], order : Seq(Roots), active : SUBSET Children]
    BY <1>5 DEF Plains
  <2>2. signalled' \in [Children -> BOOLEAN]
    <3> SUFFICES ASSUME NEW d \in Children PROVE signalled'[d] \in BOOLEAN  BY <1>4
    <3>1. scopeCancelled[parent[d]] \in BOOLEAN /\ (signalled[d] /\ d \in s.active) \in BOOLEAN
      BY <1>1
    <3> QED  BY <1>4, <3>1
  <2>3. outcome' \in [Children -> {"none", "error", "completed", "failed", "cancelled"}]
    BY <1>1, <1>4
  <2> QED  BY <2>1, <2>2, <2>3 DEF TaskTypes
<1>7. pc' \in [Children -> Places]  BY <1>4 DEF Places, Tasks
<1>8. \A d \in new : d \in waiting
  <2> SUFFICES ASSUME NEW d \in new PROVE d \in waiting  OBVIOUS
  <2>1. d \in s.active \ b.active /\ d \in Children  BY <1>3 DEF Schedules
  <2>2. PICK r \in Roots : d \in ToSet(b.queue[r])  BY <1>3, <2>1 DEF Takes
  <2>3. parent[d] = r  BY <2>2 DEF Sound, Of
  <2> QED  BY <2>1, <2>2, <2>3
<1>9. \A d \in Children : InTask(d)' <=> d \in s.active
  <2> SUFFICES ASSUME NEW d \in Children PROVE InTask(d)' <=> d \in s.active  OBVIOUS
  <2>1. InTask(d)' <=> pc'[d] \in Tasks  BY DEF InTask, Tasks
  <2>2. CASE d \in new  BY <1>4, <2>1, <2>2 DEF Tasks
  <2>3. CASE d \notin new
    <3>1. InTask(d)' <=> d \in b.active  BY <1>4, <2>1, <2>3
    <3>2. d \in b.active => d \in s.active  BY <1>3 DEF Takes
    <3>3. d \in s.active => d \in b.active
      <4> SUFFICES ASSUME d \in s.active, d \notin b.active PROVE FALSE  OBVIOUS
      <4>1. \E r \in Roots : d \in ToSet(b.queue[r])  BY <1>3 DEF Takes
      <4>2. d \in sched.active  BY <2>3
      <4> QED  BY <4>1, <4>2
    <3> QED  BY <3>1, <3>2, <3>3
  <2> QED  BY <2>2, <2>3
<1>10. SchedulerInv'
  <2>1. Sound(sched)' = Sound(s)  BY <1>5 DEF Sound, Of
  <2>2. sched'.active = {d \in Children : InTask(d)}'  BY <1>3, <1>5, <1>9 DEF Schedules
  <2> QED  BY <1>3, <2>1, <2>2 DEF SchedulerInv
<1>11. ASSUME NEW d \in Children
       PROVE  /\ Queued(d)' => d \in waiting
              /\ pc'[d] = pcs[d] \/ (pc'[d] = "dispatched" /\ d \in waiting)
              /\ d \in waiting =>
                   Queued(d)' \/ InTask(d)' \/ root[parent[d]] \notin {"running", "ending"}
  <2>1. parent[d] \in Roots  BY <1>1
  <2>2. Queued(d)' <=> d \in ToSet(s.queue[parent[d]])  BY <1>1, <1>5, QueuedNext
  <2>3. pc'[d] = pcs[d] \/ (pc'[d] = "dispatched" /\ d \in waiting)
    <3>1. CASE d \in new  BY <1>4, <1>8, <3>1
    <3>2. CASE d \notin new  BY <1>4, <3>2
    <3> QED  BY <3>1, <3>2
  <2> QED  BY <1>3, <1>9, <2>1, <2>2, <2>3 DEF Takes
<1> QED  BY <1>6, <1>7, <1>10, <1>11 DEF Moved

LEMMA SubmitMoves ==
  ASSUME IInv, UNCHANGED parent, NEW c \in Children, ~Queued(c), ~InTask(c), Start(Submitted(c), pc)
  PROVE  /\ TaskTypes' /\ pc' \in [Children -> Places] /\ SchedulerInv'
         /\ Moved({d \in Children : Queued(d) \/ d = c}, pc)
<1> DEFINE p == parent[c]
           b == [sched EXCEPT !.queue[p] = Append(@, c),
                              !.order = IF Contains(@, p) THEN @ ELSE Append(@, p)]
<1>1. /\ parent \in [Children -> Roots] /\ p \in Roots /\ sched \in Plains /\ Sound(sched)
      /\ pc \in [Children -> Places] /\ \A d \in Children : d \in sched.active <=> pc[d] \in Tasks
  BY ParentType DEF IInv, TypesOK, TypeOK, TaskTypes, SchedulerInv, InTask, Places, Tasks, Plains
<1>2. sched.queue[p] \in Seq(Children) /\ IsInjective(sched.queue[p]) /\ c \notin ToSet(sched.queue[p])
  BY <1>1, QueuedMeans DEF Sound
<1>3. /\ Append(sched.queue[p], c) \in Seq(Children) /\ IsInjective(Append(sched.queue[p], c))
      /\ ToSet(Append(sched.queue[p], c)) = ToSet(sched.queue[p]) \cup {c}
  BY <1>2, AppendToQueue
<1>4. /\ b.queue = [sched.queue EXCEPT ![p] = Append(@, c)] /\ b.active = sched.active
      /\ b.order \in Seq(Roots) /\ b.queue \in [Roots -> Seq(Children)]
  BY <1>1, <1>3 DEF Plains
<1>5. Submitted(c) = Dispatch(b)  BY DEF Submitted
<1> HIDE DEF b
<1>6. c \notin sched.active  BY <1>1 DEF InTask, Tasks
<1>7. ASSUME NEW r \in Roots
      PROVE  /\ IsInjective(b.queue[r]) /\ ToSet(b.queue[r]) \subseteq Of(r) \ b.active
             /\ Cardinality(Of(r) \cap b.active) <= MaxRoot
             /\ ToSet(b.queue[r]) = IF r = p THEN ToSet(sched.queue[r]) \cup {c} ELSE ToSet(sched.queue[r])
  <2>1. CASE r = p
    <3>1. b.queue[r] = Append(sched.queue[p], c)  BY <1>1, <1>4, <2>1 DEF Plains
    <3>2. c \in Of(r)  BY <2>1 DEF Of
    <3>3. /\ ToSet(sched.queue[r]) \subseteq Of(r) \ sched.active
          /\ Cardinality(Of(r) \cap sched.active) <= MaxRoot
      BY <1>1 DEF Sound
    <3>4. /\ IsInjective(b.queue[r])
          /\ ToSet(b.queue[r]) = ToSet(sched.queue[r]) \cup {c}
      BY <1>3, <2>1, <3>1
    <3>5. ToSet(b.queue[r]) \subseteq Of(r) \ b.active
      BY <1>4, <1>6, <3>2, <3>3, <3>4
    <3> QED  BY <1>4, <2>1, <3>3, <3>4, <3>5
  <2>2. CASE r # p
    <3>1. b.queue[r] = sched.queue[r]  BY <1>1, <1>4, <2>2 DEF Plains
    <3> QED  BY <1>1, <1>4, <2>2, <3>1 DEF Sound
  <2> QED  BY <2>1, <2>2
<1>8. Sound(b)  BY <1>1, <1>4, <1>7 DEF Sound
<1>9. \A r \in Roots : ToSet(b.queue[r]) \cap sched.active = {}  BY <1>4, <1>7
<1>10. /\ TaskTypes' /\ pc' \in [Children -> Places] /\ SchedulerInv'
       /\ Moved({d \in Children : d \in ToSet(b.queue[parent[d]])}, pc)
  <2>1. Start(Dispatch(b), pc)  BY <1>5
  <2>2. b.active \subseteq sched.active /\ \A d \in Children : d \in b.active <=> pc[d] \in Tasks
    BY <1>1, <1>4
  <2> QED  BY <1>1, <1>4, <1>8, <1>9, <2>1, <2>2, StartMoves
<1>11. {d \in Children : d \in ToSet(b.queue[parent[d]])} = {d \in Children : Queued(d) \/ d = c}
  <2> SUFFICES ASSUME NEW d \in Children
               PROVE  d \in ToSet(b.queue[parent[d]]) <=> Queued(d) \/ d = c
    OBVIOUS
  <2>1. parent[d] \in Roots /\ (Queued(d) <=> d \in ToSet(sched.queue[parent[d]]))
    BY <1>1, QueuedMeans
  <2> QED  BY <1>7, <2>1
<1> QED  BY <1>10, <1>11

LEMMA CloseMoves ==
  ASSUME IInv, UNCHANGED parent, NEW c \in Children, pc[c] = "closing",
         Start(Closed(c), [pc EXCEPT ![c] = "gone"])
  PROVE  /\ TaskTypes' /\ pc' \in [Children -> Places] /\ SchedulerInv'
         /\ Moved({d \in Children : Queued(d)}, [pc EXCEPT ![c] = "gone"])
<1> DEFINE p == parent[c]
           b == [sched EXCEPT !.active = @ \ {c},
                   !.order = IF sched.queue[p] # <<>> /\ ~Contains(@, p) THEN Append(@, p) ELSE @]
           pcs == [pc EXCEPT ![c] = "gone"]
<1>1. /\ parent \in [Children -> Roots] /\ p \in Roots /\ sched \in Plains /\ Sound(sched)
      /\ pc \in [Children -> Places] /\ \A d \in Children : d \in sched.active <=> pc[d] \in Tasks
  BY ParentType DEF IInv, TypesOK, TypeOK, TaskTypes, SchedulerInv, InTask, Places, Tasks, Plains
<1>2. /\ b.queue = sched.queue /\ b.active = sched.active \ {c} /\ b.order \in Seq(Roots)
      /\ b.queue \in [Roots -> Seq(Children)]
  BY <1>1 DEF Plains
<1>3. Closed(c) = Dispatch(b)  BY DEF Closed
<1>4. pcs \in [Children -> Places] /\ \A d \in Children : d \in b.active <=> pcs[d] \in Tasks
  BY <1>1, <1>2 DEF Places, Tasks
<1> HIDE DEF b
<1>5. IsFiniteSet(sched.active) /\ \A r : IsFiniteSet(Of(r) \cap sched.active)
  BY <1>1, FiniteActive DEF Plains
<1>6. Cardinality(b.active) <= MaxWorkspace
  <2>1. Cardinality(b.active) <= Cardinality(sched.active)  BY <1>2, <1>5, FS_Subset
  <2>2. Cardinality(b.active) \in Nat /\ Cardinality(sched.active) \in Nat
    BY <1>2, <1>5, FS_Subset, FS_CardinalityType
  <2> QED  BY <1>1, <2>1, <2>2 DEF Sound
<1>7. ASSUME NEW r \in Roots
      PROVE  /\ IsInjective(b.queue[r]) /\ ToSet(b.queue[r]) \subseteq Of(r) \ b.active
             /\ Cardinality(Of(r) \cap b.active) <= MaxRoot
             /\ ToSet(b.queue[r]) \cap sched.active = {}
  <2>1. Of(r) \cap b.active \subseteq Of(r) \cap sched.active  BY <1>2
  <2>2. Cardinality(Of(r) \cap b.active) <= Cardinality(Of(r) \cap sched.active)
    BY <1>5, <2>1, FS_Subset
  <2>3. Cardinality(Of(r) \cap b.active) \in Nat /\ Cardinality(Of(r) \cap sched.active) \in Nat
    BY <1>5, <2>1, FS_Subset, FS_CardinalityType
  <2>4. Cardinality(Of(r) \cap sched.active) <= MaxRoot  BY <1>1 DEF Sound
  <2>5. Cardinality(Of(r) \cap b.active) <= MaxRoot  BY <2>2, <2>3, <2>4
  <2> QED  BY <1>1, <1>2, <2>5 DEF Sound
<1>8. Sound(b)  BY <1>1, <1>2, <1>6, <1>7 DEF Sound
<1>9. /\ TaskTypes' /\ pc' \in [Children -> Places] /\ SchedulerInv'
      /\ Moved({d \in Children : d \in ToSet(b.queue[parent[d]])}, pcs)
  <2> HIDE DEF pcs
  <2>1. Start(Dispatch(b), pcs)  BY <1>3 DEF pcs
  <2> QED  BY <1>2, <1>4, <1>7, <1>8, <2>1, StartMoves
<1>10. {d \in Children : d \in ToSet(b.queue[parent[d]])} = {d \in Children : Queued(d)}
  BY <1>2, QueuedMeans
<1> QED  BY <1>9, <1>10

-----------------------------------------------------------------------------
(* The actions that do move children, or take them out of their queues.     *)

LEMMA SignalQueuedKeeps ==
  ASSUME IInv, NEW r \in Roots, NEW c \in Children, SignalQueued(r, c) PROVE IInv'
<1> USE DEF Up, Signalling
<1>a. /\ UNCHANGED <<durable, pc, outcome, signalled, lock, tool, statusGeneration, roots,
                     ledger, held, startupVars, bounds>>
      /\ cancel' = [cancel EXCEPT ![r].at = "finish"] /\ cancel[r].child = c /\ cancel[r].at = "marked"
      /\ startup = "up" /\ Queued(c) /\ sched' = Unqueued(c)
  BY DEF SignalQueued
<1>b. /\ sched' \in Plains /\ Sound(Unqueued(c)) /\ sched'.active = sched.active
      /\ \A p \in Roots : ToSet(sched'.queue[p]) = ToSet(sched.queue[p]) \ {c}
  BY <1>a, UnqueuedSound
<1>c. parent[c] = r /\ parent \in [Children -> Roots] /\ cancel \in [Roots -> Cancels] /\ r \in Roots
  BY <1>a, ParentType DEF IInv, CancelInv, TypesOK, ServiceTypes
<1>d. \A d \in Children : (Queued(d)' <=> Queued(d) /\ d # c) /\ (InTask(d)' <=> InTask(d))
  <2> SUFFICES ASSUME NEW d \in Children
               PROVE  (Queued(d)' <=> Queued(d) /\ d # c) /\ (InTask(d)' <=> InTask(d))
    OBVIOUS
  <2>1. UNCHANGED parent /\ parent[d] \in Roots  BY <1>a, <1>c
  <2>2. Queued(d)' <=> d \in ToSet(sched'.queue[parent[d]])  BY <1>b, <1>c, <2>1, QueuedNext
  <2>3. Queued(d) <=> d \in ToSet(sched.queue[parent[d]])  BY QueuedMeans
  <2>4. InTask(d)' <=> InTask(d)  BY <1>a DEF InTask
  <2> QED  BY <1>b, <2>1, <2>2, <2>3, <2>4
<1>e. ~InTask(c)  BY <1>a, QueuedMeans
<1>f. \A p \in Roots : /\ cancel'[p].todo = cancel[p].todo /\ cancel'[p].child = cancel[p].child
                       /\ cancel'[p].at = IF p = r THEN "finish" ELSE cancel[p].at
  <2> SUFFICES ASSUME NEW p \in Roots
               PROVE  /\ cancel'[p].todo = cancel[p].todo /\ cancel'[p].child = cancel[p].child
                      /\ cancel'[p].at = IF p = r THEN "finish" ELSE cancel[p].at
    OBVIOUS
  <2>1. cancel[p] \in Cancels  BY <1>c
  <2>2. cancel'[p] = IF p = r THEN [cancel[p] EXCEPT !.at = "finish"] ELSE cancel[p]  BY <1>a, <1>c
  <2> QED  BY <2>1, <2>2 DEF Cancels
<1>1. LedgerTypes'  BY <1>a DEF IInv, TypesOK, LedgerTypes
<1>2. TypeOK'  BY <1>a DEF IInv, TypesOK, TypeOK
<1>3. TaskTypes'  BY <1>a, <1>b DEF IInv, TypesOK, TaskTypes, Plains
<1>4. ServiceTypes'
  <2>1. [cancel[r] EXCEPT !.at = "finish"] \in Cancels
    <3>1. cancel[r] \in Cancels  BY <1>c
    <3> QED  BY <3>1 DEF Cancels
  <2> QED  BY <1>a, <2>1 DEF IInv, TypesOK, ServiceTypes
<1>5. OtherTypes'  BY <1>a DEF IInv, TypesOK, OtherTypes
<1>6. SchedulerInv'
  <2>1. Sound(sched)' = Sound(Unqueued(c))  BY <1>a DEF Sound, Of
  <2>2. {d \in Children : InTask(d)}' = {d \in Children : InTask(d)}  BY <1>d
  <2> QED  BY <1>b, <2>1, <2>2 DEF IInv, SchedulerInv
<1>7. SpawnInv'  BY <1>a, <1>d, <1>f DEF IInv, SpawnInv, Untouched
<1>8. CancelInv'
  <2>0. tool'.op = "cancel" => root'[tool'.root] = "running"  BY <1>a DEF IInv, CancelInv
  <2> SUFFICES ASSUME NEW p \in Roots
               PROVE  /\ cancel'[p].todo \subseteq Of(p)'
                      /\ cancel'[p].child # None => parent'[cancel'[p].child] = p
                      /\ cancel'[p].at = "finish" => cancel'[p].child # None
                      /\ \A d \in Children : cancel'[p].child = d /\ cancel'[p].at = "finish" =>
                                               ~Queued(d)' /\ ~InTask(d)'
    BY <2>0 DEF CancelInv
  <2>1. /\ cancel[p].todo \subseteq Of(p) /\ (cancel[p].child # None => parent[cancel[p].child] = p)
        /\ cancel[p].at = "finish" => cancel[p].child # None
        /\ \A d \in Children : cancel[p].child = d /\ cancel[p].at = "finish" => ~Queued(d) /\ ~InTask(d)
    BY DEF IInv, CancelInv
  <2>2. UNCHANGED parent /\ Of(p)' = Of(p) /\ c # None  BY <1>a DEF Of
  <2>3. CASE p = r  BY <1>a, <1>d, <1>e, <1>f, <2>1, <2>2, <2>3
  <2>4. CASE p # r  BY <1>d, <1>f, <2>1, <2>2, <2>4
  <2> QED  BY <2>3, <2>4
<1>9. RecordInv'
  <2> SUFFICES ASSUME NEW d \in Children PROVE RecordOf(d)'  BY DEF RecordInv
  <2>1. RecordOf(d)  BY DEF IInv, RecordInv
  <2>2. AtWork(d)' => AtWork(d)  BY <1>a, <1>d, <1>f DEF AtWork
  <2> QED  BY <1>a, <2>1, <2>2 DEF RecordOf
<1>10. RecoveryInv'  BY <1>a DEF RecoveryInv
<1>11. BudgetInv'  BY <1>a, BudgetStays DEF Pending
<1>12. WaitInv'  BY <1>a DEF IInv, WaitInv, Heard, Of
<1>13. CalmInv'
  <2> SUFFICES ASSUME Calm', NEW d \in Children PROVE CalmOf(d)'  BY DEF CalmInv
  <2>1. CalmOf(d)  BY <1>a DEF IInv, CalmInv, Calm
  <2>2. parent[d] \in Roots  BY <1>c
  <2>3. CASE d = c
    <3>1. cancel'[parent[d]].child = d /\ cancel'[parent[d]].at = "finish" /\ ~Queued(d)'
      BY <1>a, <1>c, <1>d, <1>f, <2>3
    <3> QED  BY <1>a, <1>e, <2>1, <2>3, <3>1 DEF CalmOf, InTask
  <2>4. CASE d # c
    <3>1. (Queued(d)' <=> Queued(d)) /\ (InTask(d)' <=> InTask(d)) /\ (Undecided(d)' <=> Undecided(d))
      BY <1>a, <1>d, <2>4 DEF Undecided
    <3>2. /\ cancel'[parent[d]].todo = cancel[parent[d]].todo
          /\ cancel'[parent[d]].child = d => cancel'[parent[d]].at = cancel[parent[d]].at
          /\ cancel'[parent[d]].child = cancel[parent[d]].child
      BY <1>a, <1>f, <2>2, <2>4
    <3> QED  BY <1>a, <2>1, <3>1, <3>2 DEF CalmOf
  <2> QED  BY <2>3, <2>4
<1> QED  BY <1>1, <1>2, <1>3, <1>4, <1>5, <1>6, <1>7, <1>8, <1>9, <1>10, <1>11, <1>12, <1>13
         DEF IInv, TypesOK

LEMMA SpawnSubmitKeeps ==
  ASSUME IInv, SpawnSubmit PROVE IInv'
<1> DEFINE c == tool.child
<1>a. /\ UNCHANGED <<durable, cancel, statusGeneration, roots, ledger, held, startupVars, bounds>>
      /\ \/ lock' = "free" /\ tool' = NoTool
         \/ lock' = lock /\ tool' = [tool EXCEPT !.at = "raised"]
      /\ startup = "up" /\ tool.op = "spawn" /\ tool.at = "persisted" /\ Start(Submitted(c), pc)
  BY DEF SpawnSubmit, Spawning, Up
<1>b. /\ c \in Children /\ tool.root = parent[c] /\ lock = "spawn" /\ root[parent[c]] = "running"
      /\ status[c] = "queued" /\ Untouched(c) /\ held[c] # "none"
  BY <1>a DEF IInv, SpawnInv
<1>c. ~Queued(c) /\ ~InTask(c) /\ \A r \in Roots : cancel[r].child # c  BY <1>b DEF Untouched
<1>d. UNCHANGED parent  BY <1>a
<1>h. /\ \/ tool' = NoTool /\ lock' = "free"
         \/ /\ tool'.op = "spawn" /\ tool'.child = c /\ tool'.root = tool.root
            /\ tool'.at = "raised" /\ tool'.seen = tool.seen /\ lock' = "spawn"
      /\ \A d \in Children : tool'.op = "spawn" /\ tool'.child = d => d = c
  BY <1>a, <1>b DEF NoTool, IInv, TypesOK, ServiceTypes
<1> HIDE DEF c
<1>e. /\ TaskTypes' /\ pc' \in [Children -> Places] /\ SchedulerInv'
      /\ Moved({d \in Children : Queued(d) \/ d = c}, pc)
  BY <1>a, <1>b, <1>c, <1>d, SubmitMoves
<1>f. \A d \in Children :
        /\ Queued(d)' => Queued(d) \/ d = c
        /\ pc'[d] = pc[d] \/ (pc'[d] = "dispatched" /\ (Queued(d) \/ d = c))
        /\ Queued(d) \/ d = c => Queued(d)' \/ InTask(d)' \/ root[parent[d]] \notin {"running", "ending"}
  BY <1>e DEF Moved
<1>g. \A d \in Children : /\ pc'[d] # pc[d] => InTask(d)' /\ pc'[d] = "dispatched"
                          /\ InTask(d)' => InTask(d) \/ Queued(d) \/ d = c
                          /\ InTask(d) => InTask(d)' /\ pc'[d] = pc[d]
  BY <1>c, <1>f, QueuedMeans DEF InTask
<1>1. LedgerTypes'  BY <1>a DEF IInv, TypesOK, LedgerTypes
<1>2. TypeOK'  BY <1>a, <1>e DEF IInv, TypesOK, TypeOK, Places, Tasks
<1>3. TaskTypes'  BY <1>e
<1>4. ServiceTypes'  BY <1>a DEF IInv, TypesOK, ServiceTypes, NoTool, Cancels
<1>5. OtherTypes'  BY <1>a DEF IInv, TypesOK, OtherTypes
<1>6. SchedulerInv'  BY <1>e
<1>7. SpawnInv'
  <2>1. ASSUME NEW d \in Children, status'[d] = "none" PROVE Untouched(d)'
    <3>1. d # c /\ Untouched(d)  BY <1>a, <1>b, <2>1 DEF IInv, SpawnInv
    <3> QED  BY <1>a, <1>f, <1>g, <3>1 DEF Untouched
  <2>2. \A d \in Children : pc'[d] # "committed"
    <3>1. "spawn" \notin Children  OBVIOUS
    <3> QED  BY <1>b, <1>f, <3>1 DEF IInv, SpawnInv
  <2>3. pc'[c] # "running"  BY <1>b, <1>c, <1>f DEF InTask
  <2>4. CASE tool' = NoTool  BY <2>1, <2>2, <2>4 DEF SpawnInv, NoTool
  <2>5. CASE tool' # NoTool  BY <1>a, <1>b, <1>h, <2>1, <2>2, <2>3, <2>5 DEF SpawnInv
  <2> QED  BY <2>4, <2>5
<1>8. CancelInv'
  <2>1. tool'.op # "cancel" /\ \A r \in Roots : Of(r)' = Of(r)  BY <1>a, <1>h DEF NoTool, Of
  <2> QED  BY <1>a, <1>c, <1>f, <1>g, <2>1 DEF IInv, CancelInv
<1>9. RecordInv'
  <2> SUFFICES ASSUME NEW d \in Children PROVE RecordOf(d)'  BY DEF RecordInv
  <2>1. RecordOf(d)  BY DEF IInv, RecordInv
  <2>2. AtWork(d)' => AtWork(d) \/ d = c  BY <1>a, <1>f DEF AtWork
  <2> QED  BY <1>a, <1>b, <1>f, <2>1, <2>2 DEF RecordOf
<1>10. RecoveryInv'  BY <1>a DEF RecoveryInv
<1>11. BudgetInv'  BY <1>a, <1>h, BudgetStays DEF Pending, NoTool
<1>12. WaitInv'  BY <1>h DEF WaitInv, NoTool
<1>13. CalmInv'
  <2> SUFFICES ASSUME Calm', NEW d \in Children PROVE CalmOf(d)'  BY DEF CalmInv
  <2>1. CalmOf(d)  BY <1>a DEF IInv, CalmInv, Calm
  <2>2. parent[d] \in Roots /\ root[parent[d]] \in {"running", "ending", "ended"}
    BY ParentType DEF IInv, TypesOK, TypeOK
  <2>4. Undecided(d)' <=> Undecided(d)  BY <1>a DEF Undecided
  <2>3. (Queued(d) /\ Undecided(d)) \/ d = c => Queued(d)' \/ InTask(d)'
    BY <1>b, <1>f, <2>1, <2>2 DEF CalmOf
  <2>5. pc'[d] \in {"committed", "closing"} => status[d] \in Terminal  BY <1>f, <2>1 DEF CalmOf
  <2>6. Undecided(d)' /\ ~scopeCancelled'[parent'[d]] =>
          \/ Queued(d)' \/ InTask(d)'
          \/ cancel'[parent'[d]].child = d /\ cancel'[parent'[d]].at = "finish"
    BY <1>a, <1>g, <2>1, <2>3, <2>4 DEF CalmOf, c
  <2>7. Queued(d)' /\ Undecided(d)' =>
          /\ root'[parent'[d]] # "ended"
          /\ root'[parent'[d]] = "ending" =>
               \/ d \in cancel'[parent'[d]].todo
               \/ cancel'[parent'[d]].child = d /\ cancel'[parent'[d]].at = "marked"
    BY <1>a, <1>b, <1>f, <2>1, <2>4 DEF CalmOf
  <2> QED  BY <1>a, <2>5, <2>6, <2>7 DEF CalmOf
<1> QED  BY <1>1, <1>2, <1>3, <1>4, <1>5, <1>6, <1>7, <1>8, <1>9, <1>10, <1>11, <1>12, <1>13
         DEF IInv, TypesOK

LEMMA CloseKeeps ==
  ASSUME IInv, NEW c \in Children, Close(c) PROVE IInv'
<1>a. /\ UNCHANGED <<durable, service, roots, ledger, held, startupVars, bounds>>
      /\ startup = "up" /\ pc[c] = "closing" /\ Start(Closed(c), [pc EXCEPT ![c] = "gone"])
  BY DEF Close, Up
<1>b. UNCHANGED parent  BY <1>a
<1>c. /\ TaskTypes' /\ pc' \in [Children -> Places] /\ SchedulerInv'
      /\ Moved({d \in Children : Queued(d)}, [pc EXCEPT ![c] = "gone"])
  BY <1>a, <1>b, CloseMoves
<1>d. \A d \in Children : InTask(d) => ~Queued(d)  BY QueuedMeans
<1>e. InTask(c) /\ ~Queued(c)  BY <1>a, <1>d DEF InTask
<1>f. \A d \in Children :
        /\ Queued(d)' => Queued(d)
        /\ d # c => pc'[d] = pc[d] \/ (pc'[d] = "dispatched" /\ Queued(d))
        /\ Queued(d) => Queued(d)' \/ InTask(d)' \/ root[parent[d]] \notin {"running", "ending"}
        /\ pc'[c] = "gone"
  BY <1>c, <1>e DEF Moved, IInv, TypesOK, TypeOK
<1>g. \A d \in Children : /\ InTask(d)' => InTask(d) \/ Queued(d)
                          /\ d # c /\ InTask(d) => InTask(d)' /\ pc'[d] = pc[d]
                          /\ pc'[d] \in {"committed", "closing", "running"} => pc'[d] = pc[d]
  BY <1>d, <1>e, <1>f DEF InTask
<1>1. LedgerTypes'  BY <1>a DEF IInv, TypesOK, LedgerTypes
<1>2. TypeOK'  BY <1>a, <1>c DEF IInv, TypesOK, TypeOK, Places, Tasks
<1>3. TaskTypes'  BY <1>c
<1>4. ServiceTypes'  BY <1>a DEF IInv, TypesOK, ServiceTypes
<1>5. OtherTypes'  BY <1>a DEF IInv, TypesOK, OtherTypes
<1>6. SchedulerInv'  BY <1>c
<1>7. SpawnInv'  BY <1>a, <1>f, <1>g DEF IInv, SpawnInv, Untouched
<1>8. CancelInv'  BY <1>a, <1>c, <1>f, <1>g DEF IInv, CancelInv, Of
<1>9. RecordInv'
  <2> SUFFICES ASSUME NEW d \in Children PROVE RecordOf(d)'  BY DEF RecordInv
  <2>1. RecordOf(d)  BY DEF IInv, RecordInv
  <2>2. AtWork(d)' => AtWork(d)  BY <1>a, <1>f, <1>g DEF AtWork
  <2> QED  BY <1>a, <1>f, <1>g, <2>1, <2>2 DEF RecordOf
<1>10. RecoveryInv'  BY <1>a DEF RecoveryInv
<1>11. BudgetInv'  BY <1>a, BudgetStays DEF Pending
<1>12. WaitInv'
  <2>1. \A d \in Children : pc[d] = "committed" => pc'[d] = "committed"  BY <1>a, <1>g DEF InTask
  <2> QED  BY <1>a, <2>1 DEF IInv, WaitInv, Heard, Of
<1>13. CalmInv'
  <2> SUFFICES ASSUME Calm', NEW d \in Children PROVE CalmOf(d)'  BY DEF CalmInv
  <2>1. CalmOf(d)  BY <1>a DEF IInv, CalmInv, Calm
  <2>2. parent[d] \in Roots /\ root[parent[d]] \in {"running", "ending", "ended"}
    BY ParentType DEF IInv, TypesOK, TypeOK
  <2>3. Queued(d) /\ Undecided(d) => Queued(d)' \/ InTask(d)'  BY <1>f, <2>1, <2>2 DEF CalmOf
  <2>4. (Undecided(d)' <=> Undecided(d)) /\ (d = c => ~Undecided(d))
    BY <1>a, <2>1 DEF Undecided, CalmOf
  <2>5. pc'[d] \in {"committed", "closing"} => status[d] \in Terminal  BY <1>g, <2>1 DEF CalmOf
  <2>6. Undecided(d)' /\ ~scopeCancelled'[parent'[d]] =>
          \/ Queued(d)' \/ InTask(d)'
          \/ cancel'[parent'[d]].child = d /\ cancel'[parent'[d]].at = "finish"
          \/ tool'.op = "spawn" /\ tool'.child = d
    BY <1>a, <1>g, <2>1, <2>3, <2>4 DEF CalmOf
  <2>7. Queued(d)' /\ Undecided(d)' =>
          /\ root'[parent'[d]] # "ended"
          /\ root'[parent'[d]] = "ending" =>
               \/ d \in cancel'[parent'[d]].todo
               \/ cancel'[parent'[d]].child = d /\ cancel'[parent'[d]].at = "marked"
    BY <1>a, <1>f, <2>1, <2>4 DEF CalmOf
  <2> QED  BY <1>a, <2>5, <2>6, <2>7 DEF CalmOf
<1> QED  BY <1>1, <1>2, <1>3, <1>4, <1>5, <1>6, <1>7, <1>8, <1>9, <1>10, <1>11, <1>12, <1>13
         DEF IInv, TypesOK

-----------------------------------------------------------------------------
(* The recovery of children at the start.                                   *)

\* The unit of a child that recovery queues again is adopted from what the checkpoint restored.
LEMMA AdoptKeeps ==
  ASSUME IInv, startup # "up", UNCHANGED <<parent, tool, checkpoint>>, NEW c \in Children,
         Recoverable(c), AdoptFor(c)
  PROVE  LedgerTypes' /\ BudgetInv' /\ \A r \in Roots : ledger'[r].adopted <= ledger'[r].reserved
<1> DEFINE b == ledger[parent[c]]
<1>1. /\ ledger' = [ledger EXCEPT ![parent[c]] = Adopt(b)] /\ held' = [held EXCEPT ![c] = "adopted"]
      /\ b.reserved > b.adopted
  BY DEF AdoptFor, Recoverable, Adoptable
<1>2. parent[c] \in Roots /\ \A r \in Roots : ledger[r] \in Budgets /\ ledger[r].adopted <= ledger[r].reserved
  BY ParentType DEF IInv, TypesOK, LedgerTypes, RecoveryInv
<1>3. b \in Budgets /\ b.reserved \in Nat /\ b.adopted \in Nat  BY <1>2 DEF Budgets
<1>4. Adopt(b) \in Budgets /\ Adopt(b).reserved = b.reserved /\ Adopt(b).adopted = b.adopted + 1
  BY <1>3 DEF Adopt, Budgets
<1> HIDE DEF b
<1>5. LedgerTypes'  BY <1>1, <1>2, <1>4 DEF IInv, TypesOK, LedgerTypes
<1>6. ASSUME NEW r \in Roots
      PROVE  /\ Holders(r, {"fresh", "adopted"})' + Pending(r)' <= ledger'[r].reserved
             /\ Holders(r, {"adopted"})' <= ledger'[r].adopted
             /\ ledger'[r].adopted <= ledger'[r].reserved
  <2>1. /\ Holders(r, {"fresh", "adopted"}) = Holders(r, {"adopted"})
        /\ Holders(r, {"adopted"}) <= ledger[r].adopted /\ Holders(r, {"adopted"}) \in Nat
    BY AdoptedOnly, HoldersType DEF IInv, BudgetInv
  <2>2. Pending(r)' = 0  BY DEF IInv, RecoveryInv, Pending, NoTool
  <2>3. ledger[r].reserved \in Nat /\ ledger[r].adopted \in Nat /\ ledger[r].adopted <= ledger[r].reserved
    BY <1>2 DEF Budgets
  <2>4. Holders(r, {"fresh", "adopted"})' \in Nat /\ Holders(r, {"adopted"})' \in Nat  BY HoldersTypePrime
  <2>5. /\ Holders(r, {"fresh", "adopted"})' <=
              Holders(r, {"fresh", "adopted"}) + (IF r = parent[c] /\ "adopted" \in {"fresh", "adopted"} THEN 1 ELSE 0)
        /\ Holders(r, {"adopted"})' <=
              Holders(r, {"adopted"}) + (IF r = parent[c] /\ "adopted" \in {"adopted"} THEN 1 ELSE 0)
    BY <1>1, HoldersGrow
  <2>6. CASE r = parent[c]
    <3>1. /\ ledger'[r].reserved = ledger[r].reserved /\ ledger'[r].adopted = ledger[r].adopted + 1
          /\ ledger[r].reserved > ledger[r].adopted
      BY <1>1, <1>2, <1>4, <2>6 DEF b, IInv, TypesOK, LedgerTypes
    <3>2. /\ Holders(r, {"fresh", "adopted"})' <= Holders(r, {"adopted"}) + 1
          /\ Holders(r, {"adopted"})' <= Holders(r, {"adopted"}) + 1
      BY <2>1, <2>5, <2>6
    <3> QED  BY <2>1, <2>2, <2>3, <2>4, <3>1, <3>2
  <2>7. CASE r # parent[c]
    <3>1. ledger'[r] = ledger[r]  BY <1>1, <2>7 DEF IInv, TypesOK, LedgerTypes
    <3>2. /\ Holders(r, {"fresh", "adopted"})' <= Holders(r, {"adopted"}) + 0
          /\ Holders(r, {"adopted"})' <= Holders(r, {"adopted"}) + 0
      BY <2>1, <2>5, <2>7
    <3> QED  BY <2>1, <2>2, <2>3, <2>4, <3>1, <3>2
  <2> QED  BY <2>6, <2>7
<1> QED  BY <1>5, <1>6 DEF BudgetInv

LEMMA BlockedKeeps ==
  ASSUME IInv, startup = "recovering", Blocked PROVE IInv'
<1>a. /\ UNCHANGED <<parent, status, leased, result, rootDone, checkpoint, sched, pc, outcome, signalled,
                     lock, tool, cancel, statusGeneration, root, scopeCancelled, ledger, held,
                     unscanned, crashes, faults>>
      /\ startup' = "blocked"
  BY DEF Blocked
<1>1. TypesOK'
  <2>1. LedgerTypes' /\ OtherTypes'  BY <1>a DEF IInv, TypesOK, LedgerTypes, OtherTypes
  <2>2. TypeOK'  BY <1>a DEF IInv, TypesOK, TypeOK
  <2>3. TaskTypes'  BY <1>a DEF IInv, TypesOK, TaskTypes
  <2>4. ServiceTypes'  BY <1>a DEF IInv, TypesOK, ServiceTypes
  <2> QED  BY <2>1, <2>2, <2>3, <2>4 DEF TypesOK
<1>2. SchedulerInv'  BY <1>a, SchedulerStays DEF InTask
<1>3. SpawnInv'  BY <1>a DEF IInv, SpawnInv, Untouched, Queued, InTask
<1>4. CancelInv'  BY <1>a DEF IInv, CancelInv, Of, Queued, InTask
<1>5. RecordInv'  BY <1>a DEF IInv, RecordInv, RecordOf, AtWork, Queued
<1>6. RecoveryInv'  BY <1>a DEF IInv, RecoveryInv, Queued, InTask
<1>7. BudgetInv'  BY <1>a, BudgetStays DEF Pending
<1>8. WaitInv'  BY <1>a DEF IInv, WaitInv, Heard, Of
<1>9. CalmInv'  BY <1>a DEF IInv, CalmInv, Calm, CalmOf, Undecided, Queued, InTask
<1> QED  BY <1>1, <1>2, <1>3, <1>4, <1>5, <1>6, <1>7, <1>8, <1>9 DEF IInv

\* A child that recovery hands to the scheduler once more.
LEMMA ReturnKeeps ==
  ASSUME IInv, startup = "recovering", NEW c \in unscanned, Recoverable(c), AdoptFor(c),
         Start(Submitted(c), pc), unscanned' = unscanned \ {c},
         status' = [status EXCEPT ![c] = "queued"],
         UNCHANGED <<parent, leased, result, rootDone, checkpoint, service, roots, startup, bounds>>
  PROVE  IInv'
<1>a. /\ c \in Children /\ ~Queued(c) /\ ~InTask(c) /\ tool = NoTool /\ crashes > 0
      /\ \A r \in Roots : cancel[r] = Idle
      /\ \A d \in Children : pc[d] \in {"none", "dispatched"} /\ held[d] # "fresh"
      /\ status \in [Children -> Statuses] /\ result[c] \in Terminal \cup {"none"}
  BY DEF IInv, TypesOK, TypeOK, OtherTypes, RecoveryInv
<1>b. UNCHANGED parent  OBVIOUS
<1>c. /\ TaskTypes' /\ pc' \in [Children -> Places] /\ SchedulerInv'
      /\ Moved({d \in Children : Queued(d) \/ d = c}, pc)
  BY <1>a, <1>b, SubmitMoves
<1>d. \A d \in Children :
        /\ Queued(d)' => Queued(d) \/ d = c
        /\ pc'[d] = pc[d] \/ (pc'[d] = "dispatched" /\ (Queued(d) \/ d = c))
        /\ pc'[d] \in {"none", "dispatched"}
        /\ InTask(d)' => InTask(d) \/ Queued(d) \/ d = c
        /\ status'[d] = IF d = c THEN "queued" ELSE status[d]
  BY <1>a, <1>c DEF Moved, InTask
<1>e. LedgerTypes' /\ BudgetInv' /\ \A r \in Roots : ledger'[r].adopted <= ledger'[r].reserved
  BY <1>a, AdoptKeeps
<1>f. held' = [held EXCEPT ![c] = "adopted"]  BY DEF AdoptFor
<1>1. TypeOK'
  <2>1. \A q \in Roots : ledger'[q].reserved \in Nat /\ checkpoint'[q].reserved \in Nat
    BY <1>e DEF LedgerTypes, Budgets
  <2>2. status' \in [Children -> Statuses]  BY <1>a DEF Statuses
  <2>3. held' \in [Children -> {"none", "fresh", "adopted"}]  BY <1>f DEF IInv, TypesOK, TypeOK
  <2> QED  BY <1>c, <2>1, <2>2, <2>3 DEF IInv, TypesOK, TypeOK, Places, Tasks
<1>2. ServiceTypes'  BY DEF IInv, TypesOK, ServiceTypes
<1>3. OtherTypes'  BY DEF IInv, TypesOK, OtherTypes
<1>4. SpawnInv'
  <2>1. ASSUME NEW d \in Children, status'[d] = "none" PROVE Untouched(d)'
    <3>1. d # c /\ Untouched(d)  BY <1>d, <2>1 DEF IInv, SpawnInv
    <3> QED  BY <1>d, <3>1 DEF Untouched
  <2> QED  BY <1>a, <1>d, <2>1 DEF SpawnInv, NoTool
<1>5. CancelInv'  BY <1>a DEF CancelInv, Idle, NoTool
<1>6. RecordInv'
  <2> SUFFICES ASSUME NEW d \in Children PROVE RecordOf(d)'  BY DEF RecordInv
  <2>1. RecordOf(d)  BY DEF IInv, RecordInv
  <2>2. /\ AtWork(d)' => AtWork(d) \/ d = c
        /\ held'[c] = "adopted" /\ (d # c => held'[d] = held[d])
    BY <1>a, <1>d, <1>f DEF AtWork, IInv, TypesOK, TypeOK
  <2> QED  BY <1>d, <2>1, <2>2 DEF RecordOf, Terminal
<1>7. RecoveryInv'
  <2>1. ASSUME NEW d \in unscanned \ {c}
        PROVE  /\ ~Queued(d)' /\ ~InTask(d)' /\ held'[d] = "none"
               /\ status'[d] \in {"queued", "orphaned"} \cup Leased
    <3>1. /\ d \in Children /\ ~Queued(d) /\ ~InTask(d) /\ held[d] = "none"
          /\ status[d] \in {"queued", "orphaned"} \cup Leased
      BY DEF IInv, RecoveryInv, TypesOK, OtherTypes
    <3> QED  BY <1>d, <1>f, <2>1, <3>1
  <2>2. \A d \in Children : held'[d] # "fresh"  BY <1>a, <1>f
  <2> QED  BY <1>a, <1>d, <1>e, <2>1, <2>2 DEF RecoveryInv
<1>8. WaitInv'  BY <1>a DEF WaitInv, NoTool
<1>9. CalmInv'  BY <1>a DEF CalmInv, Calm, IInv, TypesOK, OtherTypes
<1> QED  BY <1>c, <1>e, <1>1, <1>2, <1>3, <1>4, <1>5, <1>6, <1>7, <1>8, <1>9 DEF IInv, TypesOK

LEMMA RequeueKeeps ==
  ASSUME IInv, NEW c \in Children, Requeue(c) PROVE IInv'
<1>1. startup = "recovering" /\ c \in unscanned /\ status[c] = "queued"  BY DEF Requeue, Scanning
<1>2. CASE Recoverable(c)
  <2>1. /\ AdoptFor(c) /\ Start(Submitted(c), pc) /\ unscanned' = unscanned \ {c}
        /\ UNCHANGED <<durable, service, roots, startup, bounds>>
    BY <1>2 DEF Requeue
  <2>2. status' = [status EXCEPT ![c] = "queued"]  BY <1>1, <2>1 DEF IInv, TypesOK, TypeOK
  <2> QED  BY <1>1, <1>2, <2>1, <2>2, ReturnKeeps
<1>3. CASE ~Recoverable(c)
  <2> Blocked  BY <1>3 DEF Requeue
  <2> QED  BY <1>1, BlockedKeeps
<1> QED  BY <1>2, <1>3

LEMMA ResubmitKeeps ==
  ASSUME IInv, NEW c \in Children, Resubmit(c) PROVE IInv'
<1>1. startup = "recovering" /\ c \in unscanned  BY DEF Resubmit, Scanning
<1>2. CASE Recoverable(c)
  <2>1. /\ AdoptFor(c) /\ Start(Submitted(c), pc) /\ unscanned' = unscanned \ {c}
        /\ status' = [status EXCEPT ![c] = "queued"]
        /\ UNCHANGED <<parent, leased, result, rootDone, checkpoint, service, roots, startup, bounds>>
    BY <1>2 DEF Resubmit
  <2> QED  BY <1>1, <1>2, <2>1, ReturnKeeps
<1>3. CASE ~Recoverable(c)
  <2> Blocked  BY <1>3 DEF Resubmit
  <2> QED  BY <1>1, BlockedKeeps
<1> QED  BY <1>2, <1>3

-----------------------------------------------------------------------------
(* The inductive invariant.                                                 *)

\* It holds at the start ...
LEMMA InitInv == Init => IInv
<1> SUFFICES ASSUME Init PROVE IInv  OBVIOUS
<1> USE DEF Init
<1>1. \A r \in Roots : ledger[r] = [reserved |-> 0, adopted |-> 0, used |-> 0]  OBVIOUS
<1>2. LedgerTypes  BY DEF LedgerTypes, Budgets
<1>3. TypeOK  BY <1>1, <1>2 DEF TypeOK, Statuses, Terminal
<1>4. TaskTypes  BY EmptySound DEF TaskTypes
<1>5. ServiceTypes  BY DEF ServiceTypes, Cancels, NoTool, Idle
<1>6. OtherTypes  BY DEF OtherTypes
<1>7. \A c \in Children : ~InTask(c) /\ ~Queued(c)
  <2>1. parent \in [Children -> Roots]  OBVIOUS
  <2> QED  BY <2>1, NobodyQueued DEF InTask, Queued, EmptyScheduler
<1>8. SchedulerInv  BY <1>7, EmptySound DEF SchedulerInv, EmptyScheduler
<1>9. SpawnInv  BY <1>7 DEF SpawnInv, Untouched, NoTool, Idle
<1>10. CancelInv  BY DEF CancelInv, Idle, NoTool
<1>11. RecordInv  BY <1>7 DEF RecordInv, RecordOf, AtWork, Idle, Terminal
<1>12. RecoveryInv  BY DEF RecoveryInv
<1>13. BudgetInv
  <2> SUFFICES ASSUME NEW r \in Roots
               PROVE  /\ Holders(r, {"fresh", "adopted"}) + Pending(r) <= ledger[r].reserved
                      /\ Holders(r, {"adopted"}) <= ledger[r].adopted
    BY DEF BudgetInv
  <2>1. /\ {c \in Of(r) : held[c] \in {"fresh", "adopted"}} = {}
        /\ {c \in Of(r) : held[c] \in {"adopted"}} = {}
    BY DEF Of
  <2>2. Holders(r, {"fresh", "adopted"}) = 0 /\ Holders(r, {"adopted"}) = 0
    BY <2>1, FS_EmptySet DEF Holders
  <2>3. Pending(r) = 0  BY DEF Pending, NoTool
  <2> QED  BY <1>1, <2>2, <2>3
<1>14. WaitInv  BY DEF WaitInv, NoTool
<1>15. CalmInv  BY <1>7 DEF CalmInv, CalmOf, Undecided, InTask
<1> QED  BY <1>2, <1>3, <1>4, <1>5, <1>6, <1>8, <1>9, <1>10, <1>11, <1>12, <1>13, <1>14, <1>15
         DEF IInv, TypesOK

\* ... stuttering keeps it ...
LEMMA StutterKeeps == IInv /\ UNCHANGED vars => IInv'
<1> SUFFICES ASSUME IInv, UNCHANGED vars PROVE IInv'  OBVIOUS
<1> USE DEF vars
<1>1. TypesOK'
  <2>1. LedgerTypes' /\ OtherTypes'  BY DEF IInv, TypesOK, LedgerTypes, OtherTypes
  <2>2. TypeOK'  BY DEF IInv, TypesOK, TypeOK
  <2>3. TaskTypes'  BY DEF IInv, TypesOK, TaskTypes
  <2>4. ServiceTypes'  BY DEF IInv, TypesOK, ServiceTypes
  <2> QED  BY <2>1, <2>2, <2>3, <2>4 DEF TypesOK
<1>2. SchedulerInv'  BY SchedulerStays DEF InTask
<1>3. SpawnInv'  BY DEF IInv, SpawnInv, Untouched, Queued, InTask
<1>4. CancelInv'  BY DEF IInv, CancelInv, Of, Queued, InTask
<1>5. RecordInv'  BY DEF IInv, RecordInv, RecordOf, AtWork, Queued
<1>6. RecoveryInv'  BY DEF IInv, RecoveryInv, Queued, InTask
<1>7. BudgetInv'  BY BudgetStays DEF Pending
<1>8. WaitInv'  BY DEF IInv, WaitInv, Heard, Of
<1>9. CalmInv'  BY DEF IInv, CalmInv, Calm, CalmOf, Undecided, Queued, InTask
<1> QED  BY <1>1, <1>2, <1>3, <1>4, <1>5, <1>6, <1>7, <1>8, <1>9 DEF IInv

\* ... and so does every step.
LEMMA ToolStepKeeps ==
  ASSUME IInv, ToolStep PROVE IInv'
<1>1. CASE SpawnPersist  BY <1>1, SpawnPersistKeeps
<1>2. CASE SpawnRefused  BY <1>2, SpawnRefusedKeeps
<1>3. CASE SpawnLost  BY <1>3, SpawnLostKeeps
<1>4. CASE SpawnSubmit  BY <1>4, SpawnSubmitKeeps
<1>5. CASE SpawnAbandoned  BY <1>5, SpawnAbandonedKeeps
<1>6. CASE AgentCancelReturns  BY <1>6, AgentCancelReturnsKeeps
<1>7. CASE WaitRead  BY <1>7, WaitReadKeeps
<1>8. CASE WaitSleep  BY <1>8, WaitSleepKeeps
<1>9. CASE WaitEnds  BY <1>9, WaitEndsKeeps
<1>10. CASE SpawnFailed  BY <1>10, SpawnFailedKeeps
<1> QED  BY <1>1, <1>2, <1>3, <1>4, <1>5, <1>6, <1>7, <1>8, <1>9, <1>10
         DEF ToolStep, SpawnStep, WaitStep

LEMMA TaskStepKeeps ==
  ASSUME IInv, NEW c \in Children, TaskStep(c) PROVE IInv'
<1>1. CASE Started(c)  BY <1>1, StartedKeeps
<1>2. CASE NotStarted(c)  BY <1>2, NotStartedKeeps
<1>3. CASE Finish(c)  BY <1>3, FinishKeeps
<1>4. CASE FinishFails(c)  BY <1>4, FinishFailsKeeps
<1>5. CASE Notify(c)  BY <1>5, NotifyKeeps
<1>6. CASE Close(c)  BY <1>6, CloseKeeps
<1>7. CASE \E phase \in {"completed", "failed", "cancelled"} : RunEnds(c, phase)  BY <1>7,
                                                                                     RunEndsKeeps
<1>8. CASE FinishDecided(c)  BY <1>8, FinishDecidedKeeps
<1> QED  BY <1>1, <1>2, <1>3, <1>4, <1>5, <1>6, <1>7, <1>8 DEF TaskStep

LEMMA CancelStepKeeps ==
  ASSUME IInv, NEW r \in Roots, CancelStep(r) PROVE IInv'
<1>1. ASSUME NEW c \in Children,
             CancelMark(r, c) \/ CancelMarkFails(r, c) \/ SignalActive(r, c) \/ SignalQueued(r, c)
             \/ SignalNone(r, c) \/ FinishQueued(r, c) \/ FinishQueuedFails(r, c)
      PROVE  IInv'
  BY <1>1, CancelMarkKeeps, CancelMarkFailsKeeps, SignalActiveKeeps, SignalQueuedKeeps,
     SignalNoneKeeps, FinishQueuedKeeps, FinishQueuedFailsKeeps
<1>2. CASE RootEnded(r)  BY <1>2, RootEndedKeeps
<1> QED  BY <1>1, <1>2 DEF CancelStep

LEMMA RecoveryStepKeeps ==
  ASSUME IInv, RecoveryStep PROVE IInv'
<1>1. ASSUME NEW c \in Children, Requeue(c) \/ Orphan(c) \/ Resubmit(c) \/ Interrupt(c) PROVE IInv'
  BY <1>1, RequeueKeeps, OrphanKeeps, ResubmitKeeps, InterruptKeeps
<1>2. CASE RecoveryDone  BY <1>2, RecoveryDoneKeeps
<1> QED  BY <1>1, <1>2 DEF RecoveryStep

LEMMA StepInv == IInv /\ [Next]_vars => IInv'
<1> SUFFICES ASSUME IInv, [Next]_vars PROVE IInv'  OBVIOUS
<1>1. ASSUME NEW r \in Roots, NEW c \in Children, SpawnReserve(r, c) \/ AgentCancel(r, c) PROVE IInv'
  BY <1>1, SpawnReserveKeeps, AgentCancelKeeps
<1>2. ASSUME NEW r \in Roots,
             WaitBegin(r) \/ Checkpoint(r) \/ CancelScope(r) \/ EndRoot(r) \/ RootLost(r) \/ CancelStep(r)
      PROVE  IInv'
  BY <1>2, WaitBeginKeeps, CheckpointKeeps, CancelScopeKeeps, EndRootKeeps, RootLostKeeps,
     CancelStepKeeps
<1>3. CASE ToolStep  BY <1>3, ToolStepKeeps
<1>4. CASE \E c \in Children : TaskStep(c)  BY <1>4, TaskStepKeeps
<1>5. CASE RecoveryStep  BY <1>5, RecoveryStepKeeps
<1>6. CASE \E resumed \in SUBSET Roots : Crash(resumed)  BY <1>6, CrashKeeps
<1>7. CASE UNCHANGED vars  BY <1>7, StutterKeeps
<1> QED  BY <1>1, <1>2, <1>3, <1>4, <1>5, <1>6, <1>7 DEF Next

\* The inductive invariant holds of every behaviour of the service.
THEOREM Invariant == Spec => []IInv
<1> QED  BY InitInv, StepInv, PTL DEF Spec

\* Every variable has its type.
THEOREM TypeCorrect == Spec => []TypeOK
<1>1. IInv => TypeOK  BY DEF IInv, TypesOK
<1> QED  BY <1>1, Invariant, PTL

\* Neither slots nor budget are lost or counted twice on any way a child ends: a child has
\* a task exactly while it occupies a slot, the ceilings of the workspace and of each root
\* hold, nobody is queued twice or queued and active, and what the service holds for
\* children is covered by what their root's ledger has reserved.
THEOREM SlotsAndBudgetAreExact == Spec => []AccountsAreExact
<1>1. IInv => SlotsAreExact
  <2> SUFFICES ASSUME IInv PROVE SlotsAreExact  OBVIOUS
  <2>1. Sound(sched) /\ sched.active = {c \in Children : InTask(c)}  BY DEF IInv, SchedulerInv
  <2> QED  BY <2>1 DEF Sound, SlotsAreExact
<1>2. IInv => ReservationsAreCovered
  <2> SUFFICES ASSUME IInv, NEW r \in Roots
               PROVE  Cardinality({c \in Of(r) : held[c] # "none"}) <= ledger[r].reserved
    BY DEF ReservationsAreCovered
  <2>1. {c \in Of(r) : held[c] # "none"} = {c \in Of(r) : held[c] \in {"fresh", "adopted"}}
    BY DEF IInv, TypesOK, TypeOK, Of
  <2>2. Holders(r, {"fresh", "adopted"}) + Pending(r) <= ledger[r].reserved  BY DEF IInv, BudgetInv
  <2>3. Holders(r, {"fresh", "adopted"}) \in Nat /\ Pending(r) \in Nat /\ ledger[r].reserved \in Nat
    BY HoldersType DEF Pending, IInv, TypesOK, TypeOK
  <2>4. Holders(r, {"fresh", "adopted"}) <= ledger[r].reserved  BY <2>2, <2>3
  <2> QED  BY <2>1, <2>4 DEF Holders
<1>3. IInv => AccountsAreExact  BY <1>1, <1>2 DEF AccountsAreExact
<1> QED  BY <1>3, Invariant, PTL

\* A task runs a child only while its record is undecided and leased: no step of a canceller,
\* of a finished job or of a recovery decides a record under a live run.
THEOREM LiveRunsAreUndecided == Spec => []RunsOnlyUndecided
<1>1. IInv => RunsOnlyUndecided  BY DEF IInv, RecordInv, RecordOf, RunsOnlyUndecided
<1> QED  BY <1>1, Invariant, PTL

\* agent.wait is never asleep over a child that is already done, unless the generation it
\* read has been left behind or is about to be, or the commit that decided the child was
\* taken for a failed one, and then the child's reservation is unsettled too.
THEOREM WaitersAreWoken == Spec => []NoLostWakeup
<1>1. IInv => NoLostWakeup  BY DEF IInv, WaitInv, Heard, NoLostWakeup, Waiting
<1> QED  BY <1>1, Invariant, PTL

\* The scheduler loses no child by itself: a child that nothing will ever decide was struck by
\* a fault, a crash, or the cancellation of its root in the middle of its spawn.
THEOREM NobodyIsLostInCalm == Spec => []StrandedHasACause
<1>1. IInv => StrandedHasACause
  <2> SUFFICES ASSUME IInv, NEW c \in Children, Stranded(c), ~(faults > 0), ~(crashes > 0),
                      ~scopeCancelled[parent[c]]
               PROVE  FALSE
    BY DEF StrandedHasACause
  <2>1. Calm  BY DEF Calm, IInv, TypesOK, OtherTypes
  <2>2. CalmOf(c)  BY <2>1 DEF IInv, CalmInv
  <2>3. parent[c] \in Roots  BY ParentType
  <2> QED  BY <2>2, <2>3 DEF CalmOf, Stranded, Scheduled, Cancelling
<1> QED  BY <1>1, Invariant, PTL

\* A decided record is never decided again, and its stored result says the same; a child that
\* was asked to stop is never completed, nor started again in that life.
Final(c) ==
    /\ status[c] \in Terminal => status'[c] = status[c] /\ result'[c] = status[c]
    /\ status[c] = "cancel_requested" =>
          status'[c] \in {"cancel_requested", "cancelled", "failed", "orphaned"}

LEMMA FinalStays == ASSUME IInv, UNCHANGED <<status, result>> PROVE \A c \in Children : Final(c)
  BY DEF IInv, RecordInv, RecordOf, Final, Terminal

\* A step that changes one record, and not against the rule, changes none against it.
LEMMA FinalChange ==
  ASSUME IInv, NEW c \in Children, NEW to, status' = [status EXCEPT ![c] = to],
         status[c] \notin Terminal,
         status[c] = "cancel_requested" => to \in {"cancel_requested", "cancelled", "failed", "orphaned"},
         \A d \in Children \ {c} : result'[d] = result[d]
  PROVE  \A d \in Children : Final(d)
<1> SUFFICES ASSUME NEW d \in Children PROVE Final(d)  OBVIOUS
<1>1. RecordOf(d) /\ status \in [Children -> Statuses]  BY DEF IInv, RecordInv, TypesOK, TypeOK
<1>2. CASE d = c  BY <1>1, <1>2 DEF Final
<1>3. CASE d # c
  <2>1. status'[d] = status[d] /\ result'[d] = result[d]  BY <1>3
  <2> QED  BY <1>1, <2>1 DEF Final, RecordOf
<1> QED  BY <1>2, <1>3

LEMMA RecordIsFinal ==
  ASSUME IInv, NEW c \in Children, NEW decided, Record(c, decided), status[c] \notin Terminal,
         status[c] = "cancel_requested" => decided \in {"cancelled", "failed"}
  PROVE  \A d \in Children : Final(d)
<1>1. /\ status' = [status EXCEPT ![c] = decided] /\ result' = [result EXCEPT ![c] = decided]
  BY DEF Record
<1>2. \A d \in Children \ {c} : result'[d] = result[d]  BY <1>1 DEF IInv, TypesOK, TypeOK
<1> QED  BY <1>1, <1>2, FinalChange

\* Deciding a record, or failing to, is not against the rule either.
LEMMA DecidingIsFinal ==
  ASSUME IInv, NEW c \in Children, NEW decided, DecidesOrNot(c, decided),
         status[c] = "cancel_requested" => decided \in {"cancelled", "failed"}
  PROVE  \A d \in Children : Final(d)
<1>1. CASE NothingRecorded  BY <1>1, FinalStays DEF NothingRecorded
<1>2. CASE status[c] \notin Terminal /\ Record(c, decided)  BY <1>2, RecordIsFinal
<1> QED  BY <1>1, <1>2 DEF DecidesOrNot

LEMMA SpawnIsFinal ==
  ASSUME IInv, SpawnPersist \/ SpawnLost PROVE \A d \in Children : Final(d)
<1>1. /\ tool.child \in Children /\ status[tool.child] = "none"
      /\ status' = [status EXCEPT ![tool.child] = "queued"] /\ UNCHANGED result
  BY DEF IInv, SpawnInv, SpawnPersist, SpawnLost, Spawning
<1>2. status[tool.child] \notin Terminal /\ status[tool.child] # "cancel_requested"  BY <1>1
                                                                                        DEF Terminal
<1> QED  BY <1>1, <1>2, FinalChange

LEMMA StartedIsFinal ==
  ASSUME IInv, NEW c \in Children, Started(c) PROVE \A d \in Children : Final(d)
<1>1. /\ status' = [status EXCEPT ![c] = "running"] /\ UNCHANGED result
      /\ status[c] \notin Terminal /\ status[c] # "cancel_requested"
  BY DEF Started, MayStart
<1> QED  BY <1>1, FinalChange

LEMMA FinishIsFinal ==
  ASSUME IInv, NEW c \in Children, Finish(c) \/ FinishFails(c) PROVE \A d \in Children : Final(d)
<1> DEFINE decided == Decided(c)
<1>1. status[c] = "cancel_requested" => decided \in {"cancelled", "failed"}  BY DEF Decided
<1>2. DecidesOrNot(c, decided)  BY DEF Finish, FinishFails, DecideFails, DecidesOrNot
<1> HIDE DEF decided
<1> QED  BY <1>1, <1>2, DecidingIsFinal

LEMMA FinishQueuedIsFinal ==
  ASSUME IInv, NEW r \in Roots, NEW c \in Children, FinishQueued(r, c) \/ FinishQueuedFails(r, c)
  PROVE  \A d \in Children : Final(d)
<1>1. DecidesOrNot(c, "cancelled")
  BY DEF FinishQueued, FinishQueuedFails, Decide, DecideFails, DecidesOrNot
<1> QED  BY <1>1, DecidingIsFinal

LEMMA SpawnFailedIsFinal ==
  ASSUME IInv, SpawnFailed PROVE \A d \in Children : Final(d)
<1>1. tool.child \in Children  BY DEF SpawnFailed, Spawning, SpawnInv, IInv
<1>2. DecidesOrNot(tool.child, "failed")  BY DEF SpawnFailed, Decide, DecideFails, DecidesOrNot
<1> QED  BY <1>1, <1>2, DecidingIsFinal

LEMMA CancelMarkIsFinal ==
  ASSUME IInv, NEW r \in Roots, NEW c \in Children, CancelMark(r, c) \/ CancelMarkFails(r, c)
  PROVE  \A d \in Children : Final(d)
<1>0. CASE UNCHANGED <<status, result>>  BY <1>0, FinalStays
<1> SUFFICES ASSUME ~UNCHANGED <<status, result>> PROVE \A d \in Children : Final(d)  BY <1>0
<1>1. status' = [status EXCEPT ![c] = Marked(c)] /\ UNCHANGED result
  BY DEF CancelMark, CancelMarkFails
<1>2. CASE status[c] \in Terminal
  <2>1. UNCHANGED status  BY <1>1, <1>2 DEF Marked, IInv, TypesOK, TypeOK
  <2> QED  BY <1>1, <2>1, FinalStays
<1>3. CASE status[c] \notin Terminal
  <2>1. Marked(c) = "cancel_requested"  BY <1>3 DEF Marked
  <2> QED  BY <1>1, <1>3, <2>1, FinalChange
<1> QED  BY <1>2, <1>3

LEMMA RecoveryIsFinal ==
  ASSUME IInv, NEW c \in Children, Orphan(c) \/ Resubmit(c) \/ Interrupt(c) \/ Requeue(c)
  PROVE  \A d \in Children : Final(d)
<1>1. CASE Orphan(c)
  <2>1. /\ status' = [status EXCEPT ![c] = "orphaned"] /\ UNCHANGED result /\ status[c] \notin Terminal
    BY <1>1 DEF Orphan, Leased, Terminal
  <2> QED  BY <2>1, FinalChange
<1>2. CASE Resubmit(c)
  <2>1. CASE Blocked  BY <2>1, FinalStays DEF Blocked
  <2>2. CASE ~Blocked
    <3>1. /\ status' = [status EXCEPT ![c] = "queued"] /\ UNCHANGED result
          /\ status[c] \notin Terminal /\ status[c] # "cancel_requested"
      BY <1>2, <2>2 DEF Resubmit, Terminal
    <3> QED  BY <3>1, FinalChange
  <2> QED  BY <2>1, <2>2
<1>3. CASE Interrupt(c)
  <2>1. CASE Blocked  BY <2>1, FinalStays DEF Blocked
  <2>2. CASE ~Blocked
    <3>1. Record(c, "interrupted") /\ status[c] # "cancel_requested" /\ status[c] \notin Terminal
      BY <1>3, <2>2 DEF Interrupt, Terminal
    <3> QED  BY <3>1, RecordIsFinal
  <2> QED  BY <2>1, <2>2
<1>4. CASE Requeue(c)  BY <1>4, FinalStays DEF Requeue, Blocked
<1> QED  BY <1>1, <1>2, <1>3, <1>4

LEMMA FinalStep == IInv /\ [Next]_vars => \A c \in Children : Final(c)
<1> SUFFICES ASSUME IInv, [Next]_vars PROVE \A d \in Children : Final(d)  OBVIOUS
<1>1. ASSUME NEW r \in Roots, NEW c \in Children, SpawnReserve(r, c) \/ AgentCancel(r, c)
      PROVE  \A d \in Children : Final(d)
  BY <1>1, FinalStays DEF SpawnReserve, AgentCancel
<1>2. ASSUME NEW r \in Roots,
             WaitBegin(r) \/ Checkpoint(r) \/ CancelScope(r) \/ EndRoot(r) \/ RootLost(r) \/ RootEnded(r)
      PROVE  \A d \in Children : Final(d)
  BY <1>2, FinalStays DEF WaitBegin, Checkpoint, CancelScope, EndRoot, RootLost, RootEnded
<1>3. ASSUME NEW r \in Roots, NEW c \in Children,
             SignalActive(r, c) \/ SignalQueued(r, c) \/ SignalNone(r, c)
      PROVE  \A d \in Children : Final(d)
  BY <1>3, FinalStays DEF SignalActive, SignalQueued, SignalNone
<1>4. ASSUME NEW r \in Roots, NEW c \in Children,
             \/ CancelMark(r, c) \/ CancelMarkFails(r, c)
             \/ FinishQueued(r, c) \/ FinishQueuedFails(r, c)
      PROVE  \A d \in Children : Final(d)
  BY <1>4, CancelMarkIsFinal, FinishQueuedIsFinal
<1>5. CASE ToolStep
  <2>1. CASE SpawnPersist \/ SpawnLost  BY <2>1, SpawnIsFinal
  <2>2. CASE SpawnRefused \/ SpawnSubmit \/ SpawnAbandoned \/ AgentCancelReturns \/ WaitStep
    BY <2>2, FinalStays
    DEF SpawnRefused, SpawnSubmit, SpawnAbandoned, AgentCancelReturns, WaitStep, WaitRead,
        WaitSleep, WaitEnds
  <2>3. CASE SpawnFailed  BY <2>3, SpawnFailedIsFinal
  <2> QED  BY <1>5, <2>1, <2>2, <2>3 DEF ToolStep, SpawnStep
<1>6. ASSUME NEW c \in Children, TaskStep(c) PROVE \A d \in Children : Final(d)
  <2>1. CASE Started(c)  BY <2>1, StartedIsFinal
  <2>2. CASE Finish(c) \/ FinishFails(c)  BY <2>2, FinishIsFinal
  <2>3. CASE \/ NotStarted(c) \/ FinishDecided(c) \/ Notify(c) \/ Close(c)
             \/ \E phase \in {"completed", "failed", "cancelled"} : RunEnds(c, phase)
    BY <2>3, FinalStays DEF NotStarted, FinishDecided, Notify, Close, RunEnds
  <2> QED  BY <1>6, <2>1, <2>2, <2>3 DEF TaskStep
<1>7. CASE RecoveryStep
  <2>1. CASE RecoveryDone  BY <2>1, FinalStays DEF RecoveryDone
  <2> QED  BY <1>7, <2>1, RecoveryIsFinal DEF RecoveryStep
<1>8. CASE \E resumed \in SUBSET Roots : Crash(resumed)  BY <1>8, FinalStays DEF Crash
<1>9. CASE UNCHANGED vars  BY <1>9, FinalStays DEF vars
<1>10. \A r \in Roots : CancelStep(r) => \A d \in Children : Final(d)
  BY <1>2, <1>3, <1>4 DEF CancelStep
<1> QED  BY <1>1, <1>2, <1>5, <1>6, <1>7, <1>8, <1>9, <1>10 DEF Next

\* A decided record is never decided again, and its stored result says the same, with two
\* cancellers, the child's own task and recovery after it; and a child that was asked to stop
\* is never completed, nor started again in that life.
THEOREM DecisionsAreFinal == Spec => DecisionIsFinal
<1>1. (\A c \in Children : Final(c)) =>
        \A c \in Children :
          /\ status[c] \in Terminal => status'[c] = status[c] /\ result'[c] = status[c]
          /\ status[c] = "cancel_requested" =>
                status'[c] \in {"cancel_requested", "cancelled", "failed", "orphaned"}
  BY DEF Final
<1> QED  BY <1>1, FinalStep, Invariant, PTL DEF Spec, DecisionIsFinal
=================================================================================

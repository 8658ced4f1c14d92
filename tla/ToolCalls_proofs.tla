--------------------------- MODULE ToolCalls_proofs ---------------------------
(***************************************************************************)
(* Theorems about ToolCalls: what the effect gate and the keyed locks        *)
(* exclude, and the order in which the gate admits.                          *)
(*                                                                          *)
(* Outline.                                                                 *)
(*  - The gate.  Its sections work on an account of who is inside; `Sound'   *)
(*    says that an account is true of the tasks that are.  Releasing one and *)
(*    granting waiters keep it so, for any account (ReleasedIsSound,         *)
(*    GrantingIsSound), and the actions are made of these two.               *)
(*  - The locks.  An entry is referred to by those who use it, a key has one *)
(*    entry in use, and a call holds the locks of the entries it has got.    *)
(***************************************************************************)
EXTENDS ToolCalls, FiniteSetTheorems, FunctionTheorems, SequenceTheorems, WellFoundedInduction, TLAPS

-----------------------------------------------------------------------------
(* The inductive invariant of the gate.                                     *)

Waiter == [task : Tasks, read : BOOLEAN]
Accounts == [readers : 0..MaxReaders, writer : BOOLEAN,
             queue : Seq(Waiter), granted : SUBSET Tasks]

InLine(q) == {q[i].task : i \in 1..Len(q)}
OnceEach(q) == \A i, j \in 1..Len(q) : q[i].task = q[j].task => i = j

\* The account `a' is true of the tasks `ins' that are inside, calls of kinds `rd'.
Counted(a, adm, rd) ==
    /\ a.readers = Cardinality({t \in adm : rd[t]})
    /\ a.writer = (\E t \in adm : ~rd[t])
Alone(adm, rd) == \A t, u \in adm : t # u => rd[t] /\ rd[u]
LinedUp(q, adm, rd) ==
    /\ OnceEach(q) /\ InLine(q) \cap adm = {}
    /\ \A i \in 1..Len(q) : q[i].read = rd[q[i].task]
Sound(a, ins, rd) ==
    /\ a \in Accounts
    /\ ins \cap a.granted = {}
    /\ LinedUp(a.queue, ins \cup a.granted, rd)
    /\ Counted(a, ins \cup a.granted, rd)
    /\ Alone(ins \cup a.granted, rd)

Inside == {t \in Tasks : where[t] = "inside"}

GateInv ==
    /\ where \in [Tasks -> {"out", "waiting", "inside"}]
    /\ read \in [Tasks -> BOOLEAN] /\ cancelled \in [Tasks -> BOOLEAN]
    /\ Sound(Effects!Current, Inside, read)
    /\ \A t \in Tasks : where[t] = "waiting" <=> t \in InLine(waiters) \cup granted

-----------------------------------------------------------------------------
(* Induction, for a set; the library's takes a predicate.                   *)

LEMMA Least ==
  ASSUME NEW T, T \subseteq Nat, T # {}
  PROVE  \E m \in T : \A k \in T : m <= k
<1> DEFINE below == {0..n : n \in T}
<1>1. below \subseteq FiniteSubsetsOf(Nat)
  <2> SUFFICES ASSUME NEW n \in T PROVE 0..n \in FiniteSubsetsOf(Nat)  OBVIOUS
  <2>1. IsFiniteSet(0..n)  BY FS_Interval
  <2> QED  BY <2>1 DEF FiniteSubsetsOf
<1>2. PICK x \in below : \A y \in below : ~ (<<y, x>> \in StrictSubsetOrdering(Nat))
  <2> HIDE DEF below
  <2> below # {}  BY DEF below
  <2> QED  BY <1>1, FS_StrictSubsetOrderingWellFounded, WFMin
<1>3. PICK m \in T : x = 0..m  OBVIOUS
<1>4. ASSUME NEW k \in T, k < m PROVE FALSE
  <2>1. 0..k \subseteq 0..m /\ 0..k # 0..m  BY <1>4
  <2>2. <<0..k, x>> \in StrictSubsetOrdering(Nat)  BY <1>3, <2>1 DEF StrictSubsetOrdering
  <2> QED  BY <1>2, <2>2
<1> QED  BY <1>4

LEMMA Induction ==
  ASSUME NEW S, 0 \in S, \A n \in Nat : n \in S => n + 1 \in S
  PROVE  Nat \subseteq S
<1> SUFFICES ASSUME NEW n \in Nat, n \notin S PROVE FALSE  OBVIOUS
<1>1. PICK m \in Nat \ S : \A k \in Nat \ S : m <= k
  <2> DEFINE T == Nat \ S
  <2> HIDE DEF T
  <2> T \subseteq Nat /\ T # {}  BY DEF T
  <2> PICK m \in T : \A k \in T : m <= k  BY Least
  <2> QED  BY DEF T
<1>2. m # 0 /\ m - 1 \in Nat /\ m - 1 < m  OBVIOUS
<1>3. m - 1 \in S  BY <1>1, <1>2
<1> QED  BY <1>2, <1>3

-----------------------------------------------------------------------------
(* The head of the queue.                                                   *)

First(q, n) == {q[i].task : i \in 1..n}

\* The first n of the queue are n tasks.
LEMMA FirstAreCounted ==
  ASSUME NEW q \in Seq(Waiter), OnceEach(q), NEW n \in 0..Len(q)
  PROVE  IsFiniteSet(First(q, n)) /\ Cardinality(First(q, n)) = n
<1> DEFINE f == [i \in 1..n |-> q[i].task]
<1>1. f \in Bijection(1..n, First(q, n))
  <2>1. f \in [1..n -> First(q, n)]  BY DEF First
  <2>2. \A i, j \in 1..n : f[i] = f[j] => i = j
    <3>1. 1..n \subseteq 1..Len(q)  OBVIOUS
    <3> QED  BY <3>1 DEF OnceEach
  <2>3. \A t \in First(q, n) : \E i \in 1..n : f[i] = t  BY DEF First
  <2> HIDE DEF f
  <2> QED  BY <2>1, <2>2, <2>3 DEF Bijection, Injection, IsInjective, Surjection
<1>2. ExistsBijection(1..n, First(q, n))  BY <1>1 DEF ExistsBijection
<1>3. IsFiniteSet(1..n) /\ Cardinality(1..n) = n  BY FS_Interval
<1> QED  BY <1>2, <1>3, FS_Bijection

\* Taking the first n out leaves the others, in their order.
LEMMA RestOfQueue ==
  ASSUME NEW q \in Seq(Waiter), NEW n \in 0..Len(q)
  PROVE  LET s == SubSeq(q, n + 1, Len(q))
         IN  /\ s \in Seq(Waiter) /\ Len(s) = Len(q) - n
             /\ \A i \in 1..(Len(q) - n) : s[i] = q[n + i]
<1> DEFINE s == SubSeq(q, n + 1, Len(q))
<1>1. \A i \in (n + 1)..Len(q) : q[i] \in Waiter  OBVIOUS
<1>2. /\ s \in Seq(Waiter)
      /\ Len(s) = IF n + 1 <= Len(q) THEN Len(q) - (n + 1) + 1 ELSE 0
      /\ \A i \in 1..(Len(q) - (n + 1) + 1) : s[i] = q[n + 1 + i - 1]
  BY <1>1, SubSeqProperties
<1>3. Len(s) = Len(q) - n  BY <1>2
<1>4. \A i \in 1..(Len(q) - n) : s[i] = q[n + i]
  <2> SUFFICES ASSUME NEW i \in 1..(Len(q) - n) PROVE s[i] = q[n + i]  OBVIOUS
  <2>1. i \in 1..(Len(q) - (n + 1) + 1) /\ n + 1 + i - 1 = n + i  OBVIOUS
  <2> QED  BY <1>2, <2>1
<1> QED  BY <1>2, <1>3, <1>4

LEMMA RestIsLinedUp ==
  ASSUME NEW q \in Seq(Waiter), NEW n \in 0..Len(q), NEW adm, NEW rd, LinedUp(q, adm, rd)
  PROVE  LinedUp(SubSeq(q, n + 1, Len(q)), adm \cup First(q, n), rd)
<1> DEFINE s == SubSeq(q, n + 1, Len(q))
<1>1. s \in Seq(Waiter) /\ Len(s) = Len(q) - n /\ \A i \in 1..(Len(q) - n) : s[i] = q[n + i]
  BY RestOfQueue
<1> HIDE DEF s
<1>2. \A i \in 1..Len(s) : n + i \in 1..Len(q) /\ s[i] = q[n + i]  BY <1>1
<1>3. OnceEach(s)
  <2> SUFFICES ASSUME NEW i \in 1..Len(s), NEW j \in 1..Len(s), s[i].task = s[j].task PROVE i = j
    BY DEF OnceEach
  <2>1. n + i \in 1..Len(q) /\ n + j \in 1..Len(q) /\ q[n + i].task = q[n + j].task  BY <1>2
  <2>2. n + i = n + j  BY <2>1 DEF LinedUp, OnceEach
  <2> QED  BY <2>2, <1>1
<1>4. InLine(s) \cap (adm \cup First(q, n)) = {}
  <2> SUFFICES ASSUME NEW i \in 1..Len(s), s[i].task \in adm \cup First(q, n) PROVE FALSE
    BY DEF InLine
  <2>1. s[i].task \notin adm  BY <1>2 DEF LinedUp, InLine
  <2>2. PICK k \in 1..n : q[k].task = q[n + i].task  BY <2>1, <1>2 DEF First
  <2>3. k \in 1..Len(q) /\ n + i \in 1..Len(q)  BY <1>2
  <2>4. k = n + i  BY <2>2, <2>3 DEF LinedUp, OnceEach
  <2> QED  BY <2>4
<1>5. \A i \in 1..Len(s) : s[i].read = rd[s[i].task]  BY <1>2 DEF LinedUp
<1> QED  BY <1>3, <1>4, <1>5 DEF LinedUp, s

\* The section's loop stops somewhere in the queue.
LEMMA SomeReadersFit ==
  ASSUME NEW a \in Accounts
  PROVE  LET n == Effects!ReadersAdmitted(a)
         IN  /\ n \in 0..Len(a.queue)
             /\ \A i \in 1..n : a.queue[i].read
             /\ n = 0 \/ a.readers + n <= MaxReaders
<1> DEFINE q == a.queue
           Fits(n) == /\ n \in 0..Len(q) /\ \A i \in 1..n : q[i].read
                      /\ n = 0 \/ a.readers + n <= MaxReaders
           Stops(n) == n = Len(q) \/ ~q[n + 1].read \/ a.readers + n >= MaxReaders
           fit == {n \in Nat : Fits(n)}
<1>1. q \in Seq(Waiter) /\ Len(q) \in Nat /\ a.readers \in Nat /\ MaxReaders \in Nat
  BY CallsAssumption DEF Accounts
<1>2. \E n \in 0..Len(q) : Fits(n) /\ Stops(n)
  <2> SUFFICES ASSUME \A n \in 0..Len(q) : Fits(n) => ~Stops(n) PROVE FALSE  OBVIOUS
  <2>1. Fits(0)  BY <1>1
  <2>2. ASSUME NEW n \in Nat, Fits(n) PROVE Fits(n + 1)
    <3>1. n # Len(q) /\ q[n + 1].read /\ a.readers + n < MaxReaders
      BY <2>2, <1>1
    <3>2. \A i \in 1..(n + 1) : q[i].read
      <4> SUFFICES ASSUME NEW i \in 1..(n + 1) PROVE q[i].read  OBVIOUS
      <4>1. CASE i = n + 1  BY <4>1, <3>1
      <4>2. CASE i # n + 1
        <5>1. i \in 1..n  BY <4>2
        <5> QED  BY <5>1, <2>2
      <4> QED  BY <4>1, <4>2
    <3>3. n + 1 \in 0..Len(q)  BY <2>2, <3>1, <1>1
    <3>4. a.readers + (n + 1) <= MaxReaders  BY <3>1, <1>1
    <3> QED  BY <3>2, <3>3, <3>4
  <2>3. Nat \subseteq fit
    <3>1. 0 \in fit  BY <2>1
    <3>2. \A n \in Nat : n \in fit => n + 1 \in fit  BY <2>2
    <3> HIDE DEF fit
    <3> QED  BY <3>1, <3>2, Induction
  <2>4. Fits(Len(q) + 1)  BY <2>3, <1>1
  <2> QED  BY <2>4, <1>1
<1> HIDE DEF q
<1>3. \E n \in 0..Len(q) :
        /\ \A i \in 1..n : q[i].read
        /\ n = 0 \/ a.readers + n <= MaxReaders
        /\ n = Len(q) \/ ~q[n + 1].read \/ a.readers + n >= MaxReaders
  BY <1>2
<1> QED  BY <1>3 DEF Effects!ReadersAdmitted, q

\* What the section moves: the first n of the queue.
Advances(a, b, n) ==
    /\ n \in 0..Len(a.queue)
    /\ b.queue = SubSeq(a.queue, n + 1, Len(a.queue))
    /\ b.granted = a.granted \cup First(a.queue, n)

\* A section that admits the first n and corrects its counts leaves a sound account.
LEMMA AdvancingIsSound ==
  ASSUME NEW ins \in SUBSET Tasks, NEW rd \in [Tasks -> BOOLEAN],
         NEW a, Sound(a, ins, rd), NEW b, NEW n, Advances(a, b, n),
         b = [readers |-> b.readers, writer |-> b.writer, queue |-> b.queue, granted |-> b.granted],
         b.readers \in 0..MaxReaders, b.writer \in BOOLEAN,
         Counted(b, ins \cup b.granted, rd), Alone(ins \cup b.granted, rd)
  PROVE  Sound(b, ins, rd)
<1>1. a.queue \in Seq(Waiter) /\ a.granted \subseteq Tasks  BY DEF Sound, Accounts
<1>2. b.queue \in Seq(Waiter)  BY <1>1, RestOfQueue DEF Advances
<1>3. First(a.queue, n) \subseteq InLine(a.queue)  BY DEF Advances, First, InLine
<1>4. InLine(a.queue) \subseteq Tasks
  <2> SUFFICES ASSUME NEW i \in 1..Len(a.queue) PROVE a.queue[i].task \in Tasks  BY DEF InLine
  <2>1. a.queue[i] \in Waiter  BY <1>1
  <2> QED  BY <2>1 DEF Waiter
<1>5. b.granted \subseteq Tasks  BY <1>1, <1>3, <1>4 DEF Advances
<1>6. b \in Accounts  BY <1>2, <1>5 DEF Accounts
<1>7. ins \cap b.granted = {}  BY <1>3 DEF Advances, Sound, LinedUp
<1>8. LinedUp(b.queue, (ins \cup a.granted) \cup First(a.queue, n), rd)
  <2>1. n \in 0..Len(a.queue) /\ LinedUp(a.queue, ins \cup a.granted, rd)  BY DEF Advances, Sound
  <2>2. LinedUp(SubSeq(a.queue, n + 1, Len(a.queue)),
                (ins \cup a.granted) \cup First(a.queue, n), rd)
    BY <1>1, <2>1, RestIsLinedUp
  <2> QED  BY <2>2 DEF Advances
<1>9. (ins \cup a.granted) \cup First(a.queue, n) = ins \cup b.granted  BY DEF Advances
<1> QED  BY <1>6, <1>7, <1>8, <1>9 DEF Sound

\* _grant_waiters_locked
LEMMA GrantingIsSound ==
  ASSUME NEW ins \in SUBSET Tasks, NEW rd \in [Tasks -> BOOLEAN], NEW a, Sound(a, ins, rd)
  PROVE  /\ Sound(Effects!GrantWaiters(a), ins, rd)
         /\ \E n : Advances(a, Effects!GrantWaiters(a), n)
<1> DEFINE b == Effects!GrantWaiters(a)
           adm == ins \cup a.granted
<1> SUFFICES Sound(b, ins, rd) /\ \E n : Advances(a, b, n)  OBVIOUS
<1>1. /\ a \in Accounts /\ a.queue \in Seq(Waiter) /\ Len(a.queue) \in Nat
      /\ a.readers \in 0..MaxReaders /\ a.writer \in BOOLEAN /\ adm \subseteq Tasks
  BY DEF Sound, Accounts
<1>2. CASE a.writer \/ a.queue = <<>>
  <2>1. b = a  BY <1>2 DEF Effects!GrantWaiters
  <2>2. First(a.queue, 0) = {} /\ SubSeq(a.queue, 1, Len(a.queue)) = a.queue
    BY <1>1, SubSeqFull DEF First
  <2>3. Advances(a, b, 0)  BY <2>1, <2>2, <1>1 DEF Advances
  <2> QED  BY <2>1, <2>3
<1>3. CASE ~a.writer /\ a.queue # <<>> /\ ~Head(a.queue).read
  <2>0. b = IF a.readers = 0 THEN [Effects!Granting(a, 1) EXCEPT !.writer = TRUE] ELSE a
    BY <1>3 DEF Effects!GrantWaiters
  <2>1. CASE a.readers # 0
    <3>1. b = a  BY <2>0, <2>1
    <3>2. First(a.queue, 0) = {} /\ SubSeq(a.queue, 1, Len(a.queue)) = a.queue
      BY <1>1, SubSeqFull DEF First
    <3>3. Advances(a, b, 0)  BY <3>1, <3>2, <1>1 DEF Advances
    <3> QED  BY <3>1, <3>3
  <2>2. CASE a.readers = 0
    <3>1. /\ b = [readers |-> a.readers, writer |-> TRUE,
                  queue |-> SubSeq(a.queue, 1 + 1, Len(a.queue)),
                  granted |-> a.granted \cup First(a.queue, 1)]
      BY <2>0, <2>2, <1>1 DEF Effects!Granting, First, Accounts
    <3>2. Len(a.queue) >= 1 /\ 1 \in 1..Len(a.queue) /\ Head(a.queue) = a.queue[1]
      BY <1>1, <1>3
    <3>3. Advances(a, b, 1)  BY <3>1, <3>2, <1>1 DEF Advances
    <3>4. adm = {}
      <4>1. IsFiniteSet({t \in adm : rd[t]})
        BY <1>1, CallsAssumption, FS_Subset
      <4>2. Cardinality({t \in adm : rd[t]}) = 0  BY <2>2 DEF Sound, Counted
      <4>3. {t \in adm : rd[t]} = {}  BY <4>1, <4>2, FS_EmptySet
      <4>4. \A t \in adm : rd[t]  BY <1>3, <1>1 DEF Sound, Counted
      <4> QED  BY <4>3, <4>4
    <3>5. First(a.queue, 1) = {a.queue[1].task}  BY DEF First
    <3>6. ins \cup b.granted = {a.queue[1].task}  BY <3>1, <3>4, <3>5
    <3>7. ~rd[a.queue[1].task]  BY <3>2, <1>3 DEF Sound, LinedUp
    <3>8. {t \in ins \cup b.granted : rd[t]} = {}  BY <3>6, <3>7
    <3>9. Counted(b, ins \cup b.granted, rd)
      <4>1. b.readers = 0 /\ b.writer = TRUE  BY <3>1, <2>2
      <4>2. Cardinality({t \in ins \cup b.granted : rd[t]}) = 0  BY <3>8, FS_EmptySet
      <4>3. \E t \in ins \cup b.granted : ~rd[t]  BY <3>6, <3>7
      <4> QED  BY <4>1, <4>2, <4>3 DEF Counted
    <3>10. Alone(ins \cup b.granted, rd)  BY <3>6 DEF Alone
    <3>11. /\ b.readers \in 0..MaxReaders /\ b.writer \in BOOLEAN
           /\ b = [readers |-> b.readers, writer |-> b.writer, queue |-> b.queue, granted |-> b.granted]
      BY <3>1, <1>1
    <3> HIDE DEF b
    <3> QED  BY <3>3, <3>9, <3>10, <3>11, AdvancingIsSound
  <2> QED  BY <2>1, <2>2
<1>4. CASE ~a.writer /\ a.queue # <<>> /\ Head(a.queue).read
  <2> DEFINE n == Effects!ReadersAdmitted(a)
  <2>0. b = [Effects!Granting(a, n) EXCEPT !.readers = @ + n]
    BY <1>4 DEF Effects!GrantWaiters
  <2>1. /\ n \in 0..Len(a.queue) /\ \A i \in 1..n : a.queue[i].read
        /\ n = 0 \/ a.readers + n <= MaxReaders
    BY <1>1, SomeReadersFit
  <2> HIDE DEF n
  <2>2. b = [readers |-> a.readers + n, writer |-> a.writer,
             queue |-> SubSeq(a.queue, n + 1, Len(a.queue)),
             granted |-> a.granted \cup First(a.queue, n)]
    BY <2>0, <1>1 DEF Effects!Granting, First, Accounts
  <2>3. Advances(a, b, n)  BY <2>2, <2>1 DEF Advances
  <2>4. ins \cup b.granted = adm \cup First(a.queue, n)  BY <2>2
  <2>5. First(a.queue, n) \subseteq InLine(a.queue)  BY <2>1 DEF First, InLine
  <2>6. First(a.queue, n) \cap adm = {}  BY <2>5 DEF Sound, LinedUp
  <2>7. \A t \in First(a.queue, n) : rd[t]
    <3> SUFFICES ASSUME NEW i \in 1..n PROVE rd[a.queue[i].task]  BY DEF First
    <3>1. i \in 1..Len(a.queue)  BY <2>1
    <3> QED  BY <3>1, <2>1 DEF Sound, LinedUp
  <2>8. \A t \in adm : rd[t]  BY <1>4, <1>1 DEF Sound, Counted
  <2>9. {t \in ins \cup b.granted : rd[t]} = {t \in adm : rd[t]} \cup First(a.queue, n)
    BY <2>4, <2>7
  <2>10. Counted(b, ins \cup b.granted, rd)
    <3> DEFINE old == {t \in adm : rd[t]}
    <3>1. IsFiniteSet(old)  BY <1>1, CallsAssumption, FS_Subset
    <3>2. IsFiniteSet(First(a.queue, n)) /\ Cardinality(First(a.queue, n)) = n
      BY <1>1, <2>1, FirstAreCounted DEF Sound, LinedUp
    <3>3. old \cap First(a.queue, n) = {}  BY <2>6
    <3>4. Cardinality(old) = a.readers  BY DEF Sound, Counted
    <3> HIDE DEF old
    <3>5. Cardinality(old \cup First(a.queue, n)) = a.readers + n - Cardinality(old \cap First(a.queue, n))
      BY <3>1, <3>2, <3>4, FS_Union
    <3>6. Cardinality(old \cap First(a.queue, n)) = 0  BY <3>3, FS_EmptySet
    <3>7. a.readers + n - 0 = a.readers + n  BY <1>1, <2>1
    <3>8. b.readers = Cardinality({t \in ins \cup b.granted : rd[t]})
      BY <2>9, <2>2, <3>5, <3>6, <3>7 DEF old
    <3>9. b.writer = FALSE  BY <2>2, <1>4, <1>1
    <3>10. ~ \E t \in ins \cup b.granted : ~rd[t]  BY <2>4, <2>7, <2>8
    <3> QED  BY <3>8, <3>9, <3>10 DEF Counted
  <2>11. Alone(ins \cup b.granted, rd)  BY <2>4, <2>7, <2>8 DEF Alone
  <2>12. b.readers \in 0..MaxReaders /\ b.writer \in BOOLEAN
    <3>1. a.readers + n \in 0..MaxReaders  BY <1>1, <2>1, CallsAssumption
    <3> QED  BY <3>1, <2>2, <1>1
  <2>13. b = [readers |-> b.readers, writer |-> b.writer, queue |-> b.queue, granted |-> b.granted]
    BY <2>2
  <2> HIDE DEF b
  <2> QED  BY <2>3, <2>10, <2>11, <2>12, <2>13, AdvancingIsSound
<1> QED  BY <1>2, <1>3, <1>4, <1>1

-----------------------------------------------------------------------------
(* The other things that happen to an account.                              *)

LEMMA SeqOfFunction ==
  ASSUME NEW S, NEW n \in Nat, NEW f \in [1..n -> S]
  PROVE  f \in Seq(S) /\ Len(f) = n
  OBVIOUS

LEMMA SoundIsRecord ==
  ASSUME NEW a \in Accounts
  PROVE  a = [readers |-> a.readers, writer |-> a.writer, queue |-> a.queue, granted |-> a.granted]
  BY DEF Accounts

\* Somebody who was admitted is no longer.
LEMMA ReleasingIsSound ==
  ASSUME NEW ins \in SUBSET Tasks, NEW rd \in [Tasks -> BOOLEAN], NEW a, Sound(a, ins, rd),
         NEW t \in ins \cup a.granted, NEW b,
         b = [readers |-> IF rd[t] THEN a.readers - 1 ELSE a.readers,
              writer |-> IF rd[t] THEN a.writer ELSE FALSE,
              queue |-> a.queue, granted |-> a.granted \ {t}]
  PROVE  Sound(b, ins \ {t}, rd)
<1> DEFINE adm == ins \cup a.granted
           reading == {u \in adm : rd[u]}
<1>1. /\ a.queue \in Seq(Waiter) /\ a.readers \in 0..MaxReaders /\ a.writer \in BOOLEAN
      /\ a.granted \subseteq Tasks /\ adm \subseteq Tasks /\ IsFiniteSet(adm)
  BY CallsAssumption, FS_Subset DEF Sound, Accounts
<1>2. (ins \ {t}) \cup b.granted = adm \ {t}  OBVIOUS
<1>3. LinedUp(b.queue, adm \ {t}, rd)  BY DEF Sound, LinedUp
<1>4. Alone(adm \ {t}, rd)  BY DEF Sound, Alone
<1>5. (ins \ {t}) \cap b.granted = {}  BY DEF Sound
<1>6. IsFiniteSet(reading) /\ Cardinality(reading) = a.readers
  BY <1>1, FS_Subset DEF Sound, Counted
<1>7. CASE rd[t]
  <2>1. t \in reading  BY <1>7
  <2>2. Cardinality(reading \ {t}) = a.readers - 1
    <3> HIDE DEF reading
    <3> QED  BY <1>6, <2>1, FS_RemoveElement
  <2>3. {u \in adm \ {t} : rd[u]} = reading \ {t}  OBVIOUS
  <2>4. a.readers # 0  BY <1>6, <2>1, FS_EmptySet
  <2>5. b.writer = (\E u \in adm \ {t} : ~rd[u])  BY <1>7 DEF Sound, Counted
  <2>6. b.readers = Cardinality({u \in adm \ {t} : rd[u]})  BY <1>7, <2>2, <2>3
  <2>7. b.readers \in 0..MaxReaders  BY <1>7, <1>1, <2>4, CallsAssumption
  <2>8. b \in Accounts  BY <2>7, <1>1, <1>7 DEF Accounts
  <2>9. Counted(b, adm \ {t}, rd)  BY <2>5, <2>6 DEF Counted
  <2> QED  BY <1>2, <1>3, <1>4, <1>5, <2>8, <2>9 DEF Sound
<1>8. CASE ~rd[t]
  <2>1. adm = {t}  BY <1>8 DEF Sound, Alone
  <2>2. reading = {} /\ {u \in adm \ {t} : rd[u]} = {}  BY <2>1, <1>8
  <2>3. a.readers = 0 /\ Cardinality({u \in adm \ {t} : rd[u]}) = 0  BY <1>6, <2>2, FS_EmptySet
  <2>4. b.readers = 0 /\ b.writer = FALSE  BY <1>8, <2>3
  <2>5. ~ \E u \in adm \ {t} : ~rd[u]  BY <2>1
  <2>6. Counted(b, adm \ {t}, rd)  BY <2>3, <2>4, <2>5 DEF Counted
  <2>7. b.readers \in 0..MaxReaders  BY <2>4, CallsAssumption
  <2>8. b \in Accounts  BY <2>4, <2>7, <1>1, <1>8 DEF Accounts
  <2> QED  BY <1>2, <1>3, <1>4, <1>5, <2>6, <2>8 DEF Sound
<1> QED  BY <1>7, <1>8

\* A task that was nowhere joins the queue.
LEMMA QueueingIsSound ==
  ASSUME NEW ins \in SUBSET Tasks, NEW rd \in [Tasks -> BOOLEAN], NEW a, Sound(a, ins, rd),
         NEW t \in Tasks, t \notin ins \cup a.granted \cup InLine(a.queue), NEW r \in BOOLEAN
  PROVE  Sound([a EXCEPT !.queue = Append(@, [task |-> t, read |-> r])], ins, [rd EXCEPT ![t] = r])
<1> DEFINE w == [task |-> t, read |-> r]
           q == Append(a.queue, w)
           b == [a EXCEPT !.queue = q]
           new == [rd EXCEPT ![t] = r]
           adm == ins \cup a.granted
<1>1. a.queue \in Seq(Waiter) /\ a.granted \subseteq Tasks /\ w \in Waiter  BY DEF Sound, Accounts, Waiter
<1>2. /\ q \in Seq(Waiter) /\ Len(q) = Len(a.queue) + 1 /\ q[Len(q)] = w
      /\ \A i \in 1..Len(a.queue) : q[i] = a.queue[i]
      /\ Len(a.queue) \in Nat
  BY <1>1, AppendProperties
<1>3. \A i \in 1..Len(q) : i = Len(q) \/ i \in 1..Len(a.queue)  BY <1>2
<1> HIDE DEF q, w
<1>4. b \in Accounts /\ b.queue = q /\ b.granted = a.granted /\ b.readers = a.readers /\ b.writer = a.writer
  BY <1>2 DEF Sound, Accounts
<1>5. OnceEach(q)
  <2> SUFFICES ASSUME NEW i \in 1..Len(q), NEW j \in 1..Len(q), q[i].task = q[j].task PROVE i = j
    BY DEF OnceEach
  <2>1. \A k \in 1..Len(a.queue) : q[k].task # t  BY <1>2 DEF InLine
  <2>2. q[Len(q)].task = t  BY <1>2 DEF w
  <2>3. CASE i = Len(q) \/ j = Len(q)  BY <2>1, <2>2, <2>3, <1>3
  <2>4. CASE i # Len(q) /\ j # Len(q)  BY <2>4, <1>2, <1>3 DEF Sound, LinedUp, OnceEach
  <2> QED  BY <2>3, <2>4
<1>6. InLine(q) \cap adm = {}
  <2> SUFFICES ASSUME NEW i \in 1..Len(q), q[i].task \in adm PROVE FALSE  BY DEF InLine
  <2>1. CASE i = Len(q)  BY <2>1, <1>2 DEF w
  <2>2. CASE i \in 1..Len(a.queue)  BY <2>2, <1>2 DEF Sound, LinedUp, InLine
  <2> QED  BY <2>1, <2>2, <1>3
<1>7. \A i \in 1..Len(q) : q[i].read = new[q[i].task]
  <2> SUFFICES ASSUME NEW i \in 1..Len(q) PROVE q[i].read = new[q[i].task]  OBVIOUS
  <2>1. CASE i = Len(q)  BY <2>1, <1>2 DEF w
  <2>2. CASE i \in 1..Len(a.queue)
    <3>1. a.queue[i].task # t  BY <2>2 DEF InLine
    <3>2. a.queue[i] \in Waiter  BY <1>1, <2>2
    <3>3. new[a.queue[i].task] = rd[a.queue[i].task]  BY <3>1, <3>2 DEF Waiter
    <3> QED  BY <3>3, <2>2, <1>2 DEF Sound, LinedUp
  <2> QED  BY <2>1, <2>2, <1>3
<1>8. LinedUp(q, adm, new)  BY <1>5, <1>6, <1>7 DEF LinedUp
<1>9. \A u \in adm : new[u] = rd[u]  BY <1>1
<1> HIDE DEF new, b
<1>10. {u \in adm : new[u]} = {u \in adm : rd[u]}  BY <1>9
<1>11. Counted(b, adm, new)  BY <1>4, <1>9, <1>10 DEF Sound, Counted
<1>12. Alone(adm, new)  BY <1>9 DEF Sound, Alone
<1>13. Sound(b, ins, new)  BY <1>4, <1>8, <1>11, <1>12 DEF Sound
<1> QED  BY <1>13 DEF b, new, q, w

\* A task that was nowhere enters at once.
LEMMA EnteringIsSound ==
  ASSUME NEW ins \in SUBSET Tasks, NEW rd \in [Tasks -> BOOLEAN], NEW a, Sound(a, ins, rd),
         NEW t \in Tasks, t \notin ins \cup a.granted, NEW r \in BOOLEAN,
         a.queue = <<>>, ~a.writer, r => a.readers < MaxReaders, ~r => a.readers = 0, NEW b,
         b = [readers |-> IF r THEN a.readers + 1 ELSE a.readers,
              writer |-> IF r THEN a.writer ELSE TRUE,
              queue |-> a.queue, granted |-> a.granted]
  PROVE  Sound(b, ins \cup {t}, [rd EXCEPT ![t] = r])
<1> DEFINE new == [rd EXCEPT ![t] = r]
           adm == ins \cup a.granted
           reading == {u \in adm : rd[u]}
<1>1. /\ a.queue \in Seq(Waiter) /\ a.readers \in 0..MaxReaders /\ a.writer \in BOOLEAN
      /\ a.granted \subseteq Tasks /\ adm \subseteq Tasks /\ IsFiniteSet(adm)
  BY CallsAssumption, FS_Subset DEF Sound, Accounts
<1>2. (ins \cup {t}) \cup b.granted = adm \cup {t} /\ t \notin adm  OBVIOUS
<1>3. (ins \cup {t}) \cap b.granted = {}  BY DEF Sound
<1>4. LinedUp(b.queue, adm \cup {t}, new)
  <2>1. b.queue = <<>> /\ Len(b.queue) = 0  OBVIOUS
  <2> QED  BY <2>1 DEF LinedUp, OnceEach, InLine
<1>5. IsFiniteSet(reading) /\ Cardinality(reading) = a.readers
  BY <1>1, FS_Subset DEF Sound, Counted
<1>6. \A u \in adm : rd[u]  BY DEF Sound, Counted
<1>7. (\A u \in adm : new[u] = rd[u]) /\ new[t] = r  BY <1>1, <1>2
<1> HIDE DEF new
<1>8. CASE r
  <2>1. {u \in adm \cup {t} : new[u]} = reading \cup {t} /\ t \notin reading  BY <1>7, <1>8, <1>2
  <2>2. Cardinality(reading \cup {t}) = a.readers + 1  BY <2>1, <1>5, FS_AddElement
  <2>3. b.readers = a.readers + 1 /\ b.writer = FALSE  BY <1>8, <1>1
  <2>4. ~ \E u \in adm \cup {t} : ~new[u]  BY <1>6, <1>7, <1>8
  <2>5. Counted(b, adm \cup {t}, new)  BY <2>1, <2>2, <2>3, <2>4 DEF Counted
  <2>6. Alone(adm \cup {t}, new)  BY <1>6, <1>7, <1>8 DEF Alone
  <2>7. b.readers \in 0..MaxReaders  BY <2>3, <1>1, <1>8, CallsAssumption
  <2>8. b \in Accounts  BY <2>7, <1>1, <1>8 DEF Accounts
  <2>9. Sound(b, ins \cup {t}, new)  BY <1>2, <1>3, <1>4, <2>5, <2>6, <2>8 DEF Sound
  <2> QED  BY <2>9 DEF new
<1>9. CASE ~r
  <2>1. reading = {}  BY <1>5, <1>9, FS_EmptySet
  <2>2. adm = {}  BY <2>1, <1>6
  <2>3. {u \in adm \cup {t} : new[u]} = {}  BY <2>2, <1>7, <1>9
  <2>4. Cardinality({u \in adm \cup {t} : new[u]}) = 0  BY <2>3, FS_EmptySet
  <2>5. b.readers = 0 /\ b.writer = TRUE  BY <1>9
  <2>6. \E u \in adm \cup {t} : ~new[u]  BY <1>7, <1>9
  <2>7. Counted(b, adm \cup {t}, new)  BY <2>4, <2>5, <2>6 DEF Counted
  <2>8. Alone(adm \cup {t}, new)  BY <2>2 DEF Alone
  <2>9. b \in Accounts  BY <2>5, <1>1 DEF Accounts
  <2>10. Sound(b, ins \cup {t}, new)  BY <1>2, <1>3, <1>4, <2>7, <2>8, <2>9 DEF Sound
  <2> QED  BY <2>10 DEF new
<1> QED  BY <1>8, <1>9

Before(q, u, t) == \E i, j \in 1..Len(q) : i < j /\ q[i].task = u /\ q[j].task = t

\* A waiter that leaves the queue leaves the others as they are.
LEMMA WithoutOne ==
  ASSUME NEW q \in Seq(Waiter), OnceEach(q), NEW t \in InLine(q)
  PROVE  LET s == Effects!Without(q, t)
         IN  /\ s \in Seq(Waiter) /\ OnceEach(s)
             /\ InLine(s) = InLine(q) \ {t}
             /\ \A i \in 1..Len(s) : \E j \in 1..Len(q) : s[i] = q[j]
             /\ \A u, v : Before(s, u, v) => Before(q, u, v)
<1> DEFINE s == Effects!Without(q, t)
           p == Effects!Place(q, t)
           from(i) == IF i < p THEN i ELSE i + 1
<1> SUFFICES /\ s \in Seq(Waiter) /\ OnceEach(s)
             /\ InLine(s) = InLine(q) \ {t}
             /\ \A i \in 1..Len(s) : \E j \in 1..Len(q) : s[i] = q[j]
             /\ \A u, v : Before(s, u, v) => Before(q, u, v)
  OBVIOUS
<1>1. p \in 1..Len(q) /\ q[p].task = t
  <2>1. \E i \in 1..Len(q) : q[i].task = t  BY DEF InLine
  <2> QED  BY <2>1 DEF Effects!Place
<1> HIDE DEF p
<1>2. Len(q) \in Nat /\ Len(q) - 1 \in Nat  BY <1>1
<1>3. s = [i \in 1..(Len(q) - 1) |-> q[from(i)]]  BY DEF Effects!Without, p
<1>4. \A i \in 1..(Len(q) - 1) : from(i) \in 1..Len(q) /\ from(i) # p  BY <1>1, <1>2
<1>5. \A i \in 1..(Len(q) - 1), j \in 1..(Len(q) - 1) : (i < j <=> from(i) < from(j)) /\ (from(i) = from(j) => i = j)
  BY <1>1, <1>2
<1>6. \A k \in 1..Len(q) : k # p => \E i \in 1..(Len(q) - 1) : from(i) = k
  <2> SUFFICES ASSUME NEW k \in 1..Len(q), k # p PROVE \E i \in 1..(Len(q) - 1) : from(i) = k  OBVIOUS
  <2>1. CASE k < p
    <3>1. k \in 1..(Len(q) - 1) /\ from(k) = k  BY <2>1, <1>1, <1>2
    <3> QED  BY <3>1
  <2>2. CASE k > p
    <3>1. k - 1 \in 1..(Len(q) - 1) /\ from(k - 1) = k  BY <2>2, <1>1, <1>2
    <3> QED  BY <3>1
  <2> QED  BY <2>1, <2>2, <1>1
<1> HIDE DEF from
<1>7. s \in [1..(Len(q) - 1) -> Waiter]  BY <1>3, <1>4
<1> HIDE DEF s
<1>8. s \in Seq(Waiter) /\ Len(s) = Len(q) - 1  BY <1>7, <1>2, SeqOfFunction
<1>9. \A i \in 1..Len(s) : s[i] = q[from(i)] /\ from(i) \in 1..Len(q) /\ from(i) # p
  BY <1>3, <1>4, <1>8
<1>10. OnceEach(s)
  <2> SUFFICES ASSUME NEW i \in 1..Len(s), NEW j \in 1..Len(s), s[i].task = s[j].task PROVE i = j
    BY DEF OnceEach
  <2>1. from(i) = from(j)  BY <1>9 DEF OnceEach
  <2> QED  BY <2>1, <1>5, <1>8
<1>11. InLine(s) = InLine(q) \ {t}
  <2>1. ASSUME NEW i \in 1..Len(s) PROVE s[i].task \in InLine(q) \ {t}
    BY <1>1, <1>9 DEF OnceEach, InLine
  <2>2. ASSUME NEW k \in 1..Len(q), q[k].task # t PROVE q[k].task \in InLine(s)
    <3>1. PICK i \in 1..(Len(q) - 1) : from(i) = k  BY <2>2, <1>1, <1>6
    <3> QED  BY <3>1, <1>8, <1>9 DEF InLine
  <2>3. InLine(s) \subseteq InLine(q) \ {t}
    <3> SUFFICES ASSUME NEW x \in InLine(s) PROVE x \in InLine(q) \ {t}  OBVIOUS
    <3>1. PICK i \in 1..Len(s) : x = s[i].task  BY DEF InLine
    <3> QED  BY <3>1, <2>1
  <2>4. InLine(q) \ {t} \subseteq InLine(s)
    <3> SUFFICES ASSUME NEW x \in InLine(q), x # t PROVE x \in InLine(s)  OBVIOUS
    <3>1. PICK k \in 1..Len(q) : x = q[k].task  BY DEF InLine
    <3> QED  BY <3>1, <2>2
  <2> QED  BY <2>3, <2>4
<1>12. \A i \in 1..Len(s) : \E j \in 1..Len(q) : s[i] = q[j]  BY <1>9
<1>13. \A u, v : Before(s, u, v) => Before(q, u, v)
  <2> SUFFICES ASSUME NEW u, NEW v, NEW i \in 1..Len(s), NEW j \in 1..Len(s),
                      i < j, s[i].task = u, s[j].task = v
               PROVE  Before(q, u, v)
    BY DEF Before
  <2>1. from(i) < from(j)  BY <1>5, <1>8
  <2> QED  BY <2>1, <1>9 DEF Before
<1> QED  BY <1>8, <1>10, <1>11, <1>12, <1>13

LEMMA LeavingIsSound ==
  ASSUME NEW ins \in SUBSET Tasks, NEW rd \in [Tasks -> BOOLEAN], NEW a, Sound(a, ins, rd),
         NEW t \in InLine(a.queue)
  PROVE  Sound([a EXCEPT !.queue = Effects!Without(@, t)], ins, rd)
<1> DEFINE s == Effects!Without(a.queue, t)
           b == [a EXCEPT !.queue = s]
<1>1. a.queue \in Seq(Waiter) /\ OnceEach(a.queue)  BY DEF Sound, Accounts, LinedUp
<1>2. /\ s \in Seq(Waiter) /\ OnceEach(s) /\ InLine(s) = InLine(a.queue) \ {t}
      /\ \A i \in 1..Len(s) : \E j \in 1..Len(a.queue) : s[i] = a.queue[j]
  BY <1>1, WithoutOne
<1> HIDE DEF s
<1>3. b \in Accounts /\ b.queue = s /\ b.granted = a.granted /\ b.readers = a.readers /\ b.writer = a.writer
  BY <1>2 DEF Sound, Accounts
<1> HIDE DEF b
<1>4. LinedUp(s, ins \cup a.granted, rd)  BY <1>2 DEF Sound, LinedUp
<1>5. Sound(b, ins, rd)  BY <1>3, <1>4 DEF Sound, Counted
<1> QED  BY <1>5 DEF b, s

\* The end of a section, which grants what it can.
LEMMA GrantStep ==
  ASSUME NEW ins \in SUBSET Tasks, NEW rd \in [Tasks -> BOOLEAN], NEW a, Sound(a, ins, rd),
         Effects!Become(Effects!GrantWaiters(a))
  PROVE  /\ Sound(Effects!Current', ins, rd)
         /\ InLine(waiters') \cup granted' = InLine(a.queue) \cup a.granted
         /\ \A u \in granted' \ a.granted, v \in InLine(waiters') : Before(a.queue, u, v)
<1> DEFINE b == Effects!GrantWaiters(a)
<1>1. Sound(b, ins, rd) /\ \E n : Advances(a, b, n)  BY GrantingIsSound
<1>2. PICK n : Advances(a, b, n)  BY <1>1
<1> HIDE DEF b
<1>3. b = [readers |-> b.readers, writer |-> b.writer, queue |-> b.queue, granted |-> b.granted]
  BY <1>1, SoundIsRecord DEF Sound
<1>4. Effects!Current' = b /\ waiters' = b.queue /\ granted' = b.granted
  BY <1>3 DEF Effects!Become, Effects!Current, Effects!Account, b
<1>5. a.queue \in Seq(Waiter) /\ n \in 0..Len(a.queue)  BY <1>2 DEF Sound, Accounts, Advances
<1>6. /\ waiters' = SubSeq(a.queue, n + 1, Len(a.queue))
      /\ granted' = a.granted \cup First(a.queue, n)
  BY <1>2, <1>4 DEF Advances
<1>7. Len(waiters') = Len(a.queue) - n /\ \A i \in 1..(Len(a.queue) - n) : waiters'[i] = a.queue[n + i]
  BY <1>5, <1>6, RestOfQueue
<1>8. \A v \in InLine(waiters') : \E j \in 1..Len(a.queue) : j > n /\ a.queue[j].task = v
  <2> SUFFICES ASSUME NEW i \in 1..Len(waiters')
               PROVE  \E j \in 1..Len(a.queue) : j > n /\ a.queue[j].task = waiters'[i].task
    BY DEF InLine
  <2>1. n + i \in 1..Len(a.queue) /\ n + i > n  BY <1>5, <1>7
  <2> QED  BY <2>1, <1>7
<1>9. \A j \in 1..Len(a.queue) : a.queue[j].task \in First(a.queue, n) \cup InLine(waiters')
  <2> SUFFICES ASSUME NEW j \in 1..Len(a.queue), j > n PROVE a.queue[j].task \in InLine(waiters')
    BY <1>5 DEF First
  <2>1. j - n \in 1..(Len(a.queue) - n) /\ n + (j - n) = j  BY <1>5
  <2> QED  BY <2>1, <1>7 DEF InLine
<1>10. InLine(waiters') \cup granted' = InLine(a.queue) \cup a.granted
  <2>1. First(a.queue, n) \subseteq InLine(a.queue)  BY <1>5 DEF First, InLine
  <2>2. InLine(waiters') \subseteq InLine(a.queue)  BY <1>8 DEF InLine
  <2>3. InLine(a.queue) \subseteq First(a.queue, n) \cup InLine(waiters')  BY <1>9 DEF InLine
  <2> QED  BY <2>1, <2>2, <2>3, <1>6
<1>11. \A u \in granted' \ a.granted, v \in InLine(waiters') : Before(a.queue, u, v)
  <2> SUFFICES ASSUME NEW u \in First(a.queue, n), NEW v \in InLine(waiters') PROVE Before(a.queue, u, v)
    BY <1>6
  <2>1. PICK i \in 1..n : a.queue[i].task = u  BY DEF First
  <2>2. PICK j \in 1..Len(a.queue) : j > n /\ a.queue[j].task = v  BY <1>8
  <2>3. i \in 1..Len(a.queue) /\ i < j  BY <2>1, <2>2, <1>5
  <2> QED  BY <2>1, <2>2, <2>3 DEF Before
<1> QED  BY <1>1, <1>4, <1>10, <1>11

-----------------------------------------------------------------------------
(* The actions of the gate.                                                 *)

Account == Effects!Current

LEMMA Fields ==
  /\ Account = [readers |-> activeReaders, writer |-> writerActive, queue |-> waiters, granted |-> granted]
  /\ Account.readers = activeReaders /\ Account.writer = writerActive
  /\ Account.queue = waiters /\ Account.granted = granted
  BY DEF Account, Effects!Current, Effects!Account

LEMMA GateTypes ==
  ASSUME GateInv
  PROVE  /\ activeReaders \in 0..MaxReaders /\ writerActive \in BOOLEAN
         /\ waiters \in Seq(Waiter) /\ granted \in SUBSET Tasks /\ InLine(waiters) \subseteq Tasks
         /\ OnceEach(waiters) /\ Sound(Account, Inside, read)
<1>1. Sound(Account, Inside, read)  BY DEF GateInv, Account
<1>2. /\ activeReaders \in 0..MaxReaders /\ writerActive \in BOOLEAN
      /\ waiters \in Seq(Waiter) /\ granted \in SUBSET Tasks
  BY <1>1, Fields DEF Sound, Accounts
<1>3. InLine(waiters) \subseteq Tasks
  <2> SUFFICES ASSUME NEW i \in 1..Len(waiters) PROVE waiters[i].task \in Tasks  BY DEF InLine
  <2>1. waiters[i] \in Waiter  BY <1>2
  <2> QED  BY <2>1 DEF Waiter
<1>4. OnceEach(waiters)  BY <1>1, Fields DEF Sound, LinedUp
<1> QED  BY <1>1, <1>2, <1>3, <1>4

LEMMA GateInit == CallsInit => GateInv
<1> SUFFICES ASSUME CallsInit PROVE GateInv  OBVIOUS
<1> USE DEF CallsInit, Effects!Init
<1>1. Inside = {}  BY DEF Inside
<1>2. waiters = <<>> /\ granted = {} /\ Len(waiters) = 0  OBVIOUS
<1>3. InLine(waiters) = {}  BY <1>2 DEF InLine
<1>4. LinedUp(waiters, {}, read)  BY <1>2, <1>3 DEF LinedUp, OnceEach
<1>5. {t \in {} : read[t]} = {} /\ Cardinality({}) = 0  BY FS_EmptySet
<1>6. Sound(Account, Inside, read)
  <2>1. Account \in Accounts
    <3>1. 0 \in 0..MaxReaders /\ <<>> \in Seq(Waiter)  BY CallsAssumption
    <3>2. Account = [readers |-> 0, writer |-> FALSE, queue |-> <<>>, granted |-> {}]  BY Fields
    <3> QED  BY <3>1, <3>2 DEF Accounts
  <2>2. Inside \cup granted = {}  BY <1>1, <1>2
  <2>3. activeReaders = 0 /\ writerActive = FALSE  OBVIOUS
  <2>4. Counted(Account, {}, read)  BY <1>5, <2>3, Fields DEF Counted
  <2>5. Alone({}, read)  BY DEF Alone
  <2> QED  BY <2>1, <2>2, <2>4, <2>5, <1>2, <1>4, Fields DEF Sound
<1> QED  BY <1>3, <1>6 DEF GateInv, Account

LEMMA OrderIsKept ==
  ASSUME \A v \in InLine(waiters) : v \in InLine(waiters') =>
            \A u \in Inside' \cup granted' : u \notin Inside \cup granted => Before(waiters, u, v)
  PROVE  Effects!KeepsOrder
<1>1. Effects!Queued = InLine(waiters) /\ Effects!Queued' = InLine(waiters')
  BY DEF Effects!Queued, InLine
<1>2. Effects!Admitted = Inside \cup granted /\ Effects!Admitted' = Inside' \cup granted'
  BY DEF Effects!Admitted, Inside
<1>3. \A v \in Effects!Queued \cap Effects!Queued' : \A u \in Effects!Admitted' \ Effects!Admitted :
        Before(waiters, u, v)
  BY <1>1, <1>2
<1> QED  BY <1>3 DEF Effects!KeepsOrder, Before

LEMMA GateEnter ==
  ASSUME GateInv, NEW t \in Tasks, NEW r \in BOOLEAN, Effects!Enter(t, r)
  PROVE  GateInv' /\ Effects!KeepsOrder
<1> USE DEF Effects!Enter, Effects!CanEnterImmediately
<1>1. Sound(Account, Inside, read) /\ waiters = <<>> /\ Len(waiters) = 0  BY GateTypes
<1>2. InLine(waiters) = {}  BY <1>1 DEF InLine
<1>3. t \notin Inside \cup granted /\ Inside' = Inside \cup {t}  BY DEF GateInv, Inside
<1>4. Account' = [readers |-> IF r THEN activeReaders + 1 ELSE activeReaders,
                  writer |-> IF r THEN writerActive ELSE TRUE,
                  queue |-> waiters, granted |-> granted]
  BY DEF Account, Effects!Current, Effects!Account
<1>5. read' = [read EXCEPT ![t] = r]  OBVIOUS
<1>6. Sound(Account', Inside \cup {t}, [read EXCEPT ![t] = r])
  <2>1. Inside \in SUBSET Tasks /\ read \in [Tasks -> BOOLEAN]  BY DEF Inside, GateInv
  <2>2. ~writerActive /\ (r => activeReaders < MaxReaders) /\ (~r => activeReaders = 0)  OBVIOUS
  <2>3. /\ Account.queue = <<>> /\ ~Account.writer /\ (r => Account.readers < MaxReaders)
        /\ (~r => Account.readers = 0) /\ t \notin Inside \cup Account.granted
        /\ Account' = [readers |-> IF r THEN Account.readers + 1 ELSE Account.readers,
                       writer |-> IF r THEN Account.writer ELSE TRUE,
                       queue |-> Account.queue, granted |-> Account.granted]
    BY <1>1, <1>3, <1>4, <2>2, Fields
  <2> HIDE DEF Effects!Enter, Effects!CanEnterImmediately
  <2>4. \A b : b = [readers |-> IF r THEN Account.readers + 1 ELSE Account.readers,
                    writer |-> IF r THEN Account.writer ELSE TRUE,
                    queue |-> Account.queue, granted |-> Account.granted]
               => Sound(b, Inside \cup {t}, [read EXCEPT ![t] = r])
    BY <1>1, <2>1, <2>3, EnteringIsSound
  <2> QED  BY <2>3, <2>4
<1>7. GateInv'
  <2>1. \A u \in Tasks : where'[u] = "waiting" <=> u \in InLine(waiters') \cup granted'
    BY <1>2 DEF GateInv
  <2> QED  BY <1>3, <1>5, <1>6, <2>1 DEF GateInv, Account
<1>8. Effects!KeepsOrder  BY <1>2 DEF Effects!KeepsOrder, Effects!Queued, InLine
<1> QED  BY <1>7, <1>8

LEMMA GateQueue ==
  ASSUME GateInv, NEW t \in Tasks, NEW r \in BOOLEAN, Effects!Queue(t, r)
  PROVE  GateInv' /\ Effects!KeepsOrder
<1> DEFINE w == [task |-> t, read |-> r]
           q == Append(waiters, w)
           a == [Account EXCEPT !.queue = Append(@, w)]
<1>0. /\ where[t] = "out" /\ where' = [where EXCEPT ![t] = "waiting"] /\ cancelled' = cancelled
      /\ read' = [read EXCEPT ![t] = r]
      /\ Effects!Become(Effects!GrantWaiters(a))
  BY DEF Effects!Queue, Account
<1>1. t \notin Inside \cup granted \cup InLine(waiters)  BY <1>0 DEF GateInv, Inside
<1>2. Inside' = Inside /\ Inside \in SUBSET Tasks /\ read \in [Tasks -> BOOLEAN]
  BY <1>0 DEF GateInv, Inside
<1>3. Sound(a, Inside, [read EXCEPT ![t] = r])
  BY <1>1, <1>2, GateTypes, Fields, QueueingIsSound
<1>4. a.queue = q /\ a.granted = granted  BY Fields
<1> HIDE DEF a
<1>5. /\ Sound(Account', Inside, [read EXCEPT ![t] = r])
      /\ InLine(waiters') \cup granted' = InLine(q) \cup granted
      /\ \A u \in granted' \ granted, v \in InLine(waiters') : Before(q, u, v)
  <2>1. [read EXCEPT ![t] = r] \in [Tasks -> BOOLEAN]  BY <1>2
  <2>2. /\ Sound(Effects!Current', Inside, [read EXCEPT ![t] = r])
        /\ InLine(waiters') \cup granted' = InLine(a.queue) \cup a.granted
        /\ \A u \in granted' \ a.granted, v \in InLine(waiters') : Before(a.queue, u, v)
    BY <1>0, <1>2, <1>3, <2>1, GrantStep
  <2> QED  BY <1>4, <2>2 DEF Account
<1>6. /\ Len(q) = Len(waiters) + 1 /\ q[Len(waiters) + 1] = w /\ Len(waiters) \in Nat
      /\ \A i \in 1..Len(waiters) : q[i] = waiters[i]
  <2>1. w \in Waiter  BY DEF Waiter
  <2> QED  BY <2>1, GateTypes, AppendProperties
<1> HIDE DEF q
<1>7. InLine(q) = InLine(waiters) \cup {t}
  <2>1. \A i \in 1..Len(q) : i = Len(waiters) + 1 \/ i \in 1..Len(waiters)  BY <1>6
  <2>2. InLine(q) \subseteq InLine(waiters) \cup {t}  BY <2>1, <1>6 DEF InLine
  <2>3. \A i \in 1..Len(waiters) : waiters[i].task \in InLine(q)  BY <1>6 DEF InLine
  <2>4. t \in InLine(q)
    <3>1. Len(waiters) + 1 \in 1..Len(q) /\ q[Len(waiters) + 1].task = t  BY <1>6
    <3> QED  BY <3>1 DEF InLine
  <2> QED  BY <2>2, <2>3, <2>4 DEF InLine
<1>8. GateInv'
  <2>1. \A u \in Tasks : where'[u] = "waiting" <=> u \in InLine(waiters') \cup granted'
    BY <1>0, <1>5, <1>7 DEF GateInv
  <2> QED  BY <1>0, <1>2, <1>5, <2>1 DEF GateInv, Account
<1>9. Effects!KeepsOrder
  <2> SUFFICES ASSUME NEW v \in InLine(waiters), v \in InLine(waiters'),
                      NEW u \in Inside' \cup granted', u \notin Inside \cup granted
               PROVE  Before(waiters, u, v)
    BY OrderIsKept
  <2>1. Before(q, u, v)  BY <1>2, <1>5
  <2>2. PICK i \in 1..Len(q), j \in 1..Len(q) : i < j /\ q[i].task = u /\ q[j].task = v
    BY <2>1 DEF Before
  <2>3. v # t  BY <1>1
  <2>4. j # Len(waiters) + 1  BY <2>2, <2>3, <1>6
  <2>5. i \in 1..Len(waiters) /\ j \in 1..Len(waiters)  BY <2>2, <2>4, <1>6
  <2> QED  BY <2>2, <2>5, <1>6 DEF Before
<1> QED  BY <1>8, <1>9

LEMMA GateWake ==
  ASSUME GateInv, NEW t \in Tasks, Effects!Wake(t)
  PROVE  GateInv' /\ Effects!KeepsOrder
<1> USE DEF Effects!Wake
<1>1. Inside' = Inside \cup {t} /\ t \in granted /\ granted' = granted \ {t}  BY DEF Inside, GateInv
<1>2. Inside' \cup granted' = Inside \cup granted  BY <1>1
<1>3. Sound(Account', Inside', read')
  <2>1. Account' = [readers |-> Account.readers, writer |-> Account.writer, queue |-> Account.queue,
                    granted |-> Account.granted \ {t}]
    BY Fields DEF Account, Effects!Current, Effects!Account
  <2>2. Sound(Account, Inside, read) /\ read' = read  BY GateTypes
  <2>3. Account' \in Accounts  BY <2>1, <2>2 DEF Sound, Accounts
  <2>4. Inside' \cap Account'.granted = {}  BY <2>1, <2>2, <1>1, Fields DEF Sound
  <2>5. Inside' \cup Account'.granted = Inside \cup Account.granted  BY <1>2, <2>1, <1>1, Fields
  <2>6. /\ Account'.readers = Account.readers /\ Account'.writer = Account.writer
        /\ Account'.queue = Account.queue
    BY <2>1
  <2> QED  BY <2>2, <2>3, <2>4, <2>5, <2>6 DEF Sound, Counted
<1>4. GateInv'
  <2>1. t \notin InLine(waiters)
    BY <1>1, GateTypes, Fields DEF Sound, LinedUp
  <2>2. \A u \in Tasks : where'[u] = "waiting" <=> u \in InLine(waiters') \cup granted'
    BY <1>1, <2>1 DEF GateInv
  <2> QED  BY <1>3, <2>2 DEF GateInv, Account
<1>5. Effects!KeepsOrder  BY <1>2 DEF Effects!KeepsOrder, Effects!Admitted, Inside
<1> QED  BY <1>4, <1>5

\* A section that ends with granting, from an account `a' with the waiters of `q'
\* in the order they have, after which t is out.
LEMMA GateLeft ==
  ASSUME GateInv, NEW t \in Tasks, NEW a, Sound(a, Inside \ {t}, read),
         Effects!Become(Effects!GrantWaiters(a)), read' = read,
         InLine(a.queue) \cup a.granted = (InLine(waiters) \cup granted) \ {t},
         a.granted = granted \ {t}, where[t] # "out",
         \A u, v : Before(a.queue, u, v) => Before(waiters, u, v),
         where' = [where EXCEPT ![t] = "out"], cancelled' \in [Tasks -> BOOLEAN]
  PROVE  GateInv' /\ Effects!KeepsOrder
<1>1. Inside' = Inside \ {t} /\ Inside \ {t} \in SUBSET Tasks /\ read \in [Tasks -> BOOLEAN]
  BY DEF GateInv, Inside
<1>2. /\ Sound(Account', Inside \ {t}, read)
      /\ InLine(waiters') \cup granted' = InLine(a.queue) \cup a.granted
      /\ \A u \in granted' \ a.granted, v \in InLine(waiters') : Before(a.queue, u, v)
  BY <1>1, GrantStep DEF Account
<1>3. GateInv'
  <2>1. \A u \in Tasks : where'[u] = "waiting" <=> u \in InLine(waiters') \cup granted'
    BY <1>2 DEF GateInv
  <2> QED  BY <1>1, <1>2, <2>1 DEF GateInv, Account
<1>4. Effects!KeepsOrder
  <2> SUFFICES ASSUME NEW v \in InLine(waiters), v \in InLine(waiters'),
                      NEW u \in Inside' \cup granted', u \notin Inside \cup granted
               PROVE  Before(waiters, u, v)
    BY OrderIsKept
  <2> QED  BY <1>1, <1>2
<1> QED  BY <1>3, <1>4

LEMMA GateRelease ==
  ASSUME GateInv, NEW t \in Tasks, Effects!Release(t)
  PROVE  GateInv' /\ Effects!KeepsOrder
<1> DEFINE a == Effects!Released(t, Account)
<1>0. /\ where[t] = "inside" /\ where' = [where EXCEPT ![t] = "out"] /\ read' = read
      /\ cancelled' = [cancelled EXCEPT ![t] = FALSE] /\ Effects!Become(Effects!GrantWaiters(a))
  BY DEF Effects!Release, Account
<1>1. t \in Inside /\ t \notin granted /\ t \notin InLine(waiters)  BY <1>0 DEF GateInv, Inside
<1>2. a = [readers |-> IF read[t] THEN Account.readers - 1 ELSE Account.readers,
           writer |-> IF read[t] THEN Account.writer ELSE FALSE,
           queue |-> Account.queue, granted |-> Account.granted \ {t}]
  <2>1. granted \ {t} = granted  BY <1>1
  <2> QED  BY <2>1, Fields DEF Effects!Released
<1> HIDE DEF a
<1>3. Inside \in SUBSET Tasks /\ read \in [Tasks -> BOOLEAN]  BY DEF Inside, GateInv
<1>4. Sound(a, Inside \ {t}, read)
  BY <1>1, <1>2, <1>3, GateTypes, ReleasingIsSound
<1>5. a.queue = waiters /\ a.granted = granted \ {t}  BY <1>2, Fields
<1>6. cancelled' \in [Tasks -> BOOLEAN]  BY <1>0 DEF GateInv
<1>7. InLine(a.queue) \cup a.granted = (InLine(waiters) \cup granted) \ {t}  BY <1>1, <1>5
<1>8. \A u, v : Before(a.queue, u, v) => Before(waiters, u, v)  BY <1>5
<1> QED  BY <1>0, <1>4, <1>5, <1>6, <1>7, <1>8, GateLeft

LEMMA GateAbandon ==
  ASSUME GateInv, NEW t \in Tasks, Effects!Abandon(t)
  PROVE  GateInv' /\ Effects!KeepsOrder
<1> DEFINE a == Effects!Abandoned(t)
<1>0. /\ where[t] = "waiting" /\ where' = [where EXCEPT ![t] = "out"] /\ read' = read
      /\ cancelled' = [cancelled EXCEPT ![t] = FALSE] /\ Effects!Become(Effects!GrantWaiters(a))
  BY DEF Effects!Abandon
<1>1. t \notin Inside /\ Inside \ {t} = Inside  BY <1>0 DEF GateInv, Inside
<1>2. Inside \in SUBSET Tasks /\ read \in [Tasks -> BOOLEAN]  BY DEF Inside, GateInv
<1>3. cancelled' \in [Tasks -> BOOLEAN]  BY <1>0 DEF GateInv
<1>4. CASE t \in granted
  <2>1. a = [readers |-> IF read[t] THEN Account.readers - 1 ELSE Account.readers,
             writer |-> IF read[t] THEN Account.writer ELSE FALSE,
             queue |-> Account.queue, granted |-> Account.granted \ {t}]
    BY <1>4, Fields DEF Effects!Abandoned, Effects!Released, Account
  <2> HIDE DEF a
  <2>2. Sound(a, Inside \ {t}, read)
    BY <1>2, <1>4, <2>1, Fields, GateTypes, ReleasingIsSound
  <2>3. a.queue = waiters /\ a.granted = granted \ {t}  BY <2>1, Fields
  <2>4. t \notin InLine(waiters)  BY <1>4, GateTypes, Fields DEF Sound, LinedUp
  <2>5. InLine(a.queue) \cup a.granted = (InLine(waiters) \cup granted) \ {t}  BY <2>3, <2>4
  <2>6. \A u, v : Before(a.queue, u, v) => Before(waiters, u, v)  BY <2>3
  <2> QED  BY <1>0, <1>3, <2>2, <2>3, <2>5, <2>6, GateLeft
<1>5. CASE t \notin granted
  <2>1. t \in InLine(waiters)  BY <1>0, <1>5 DEF GateInv
  <2>2. a = [Account EXCEPT !.queue = Effects!Without(@, t)]
    BY <1>5 DEF Effects!Abandoned, Account
  <2> HIDE DEF a
  <2>3. Sound(a, Inside, read)  BY <1>2, <2>1, <2>2, Fields, GateTypes, LeavingIsSound
  <2>4. a.queue = Effects!Without(waiters, t) /\ a.granted = granted  BY <2>2, Fields
  <2>5. /\ InLine(a.queue) = InLine(waiters) \ {t}
        /\ \A u, v : Before(a.queue, u, v) => Before(waiters, u, v)
    BY <2>1, <2>4, GateTypes, WithoutOne
  <2>6. a.granted = granted \ {t} /\ InLine(a.queue) \cup a.granted = (InLine(waiters) \cup granted) \ {t}
    BY <2>4, <2>5, <1>5
  <2> QED  BY <1>0, <1>1, <1>3, <2>3, <2>5, <2>6, GateLeft
<1> QED  BY <1>4, <1>5

\* What leaves the gate as it is.
LEMMA GateStays ==
  ASSUME GateInv, UNCHANGED gateVars, cancelled' \in [Tasks -> BOOLEAN]
  PROVE  GateInv' /\ Effects!KeepsOrder
<1> USE DEF gateVars
<1>1. Account' = Account /\ Inside' = Inside  BY DEF Account, Effects!Current, Effects!Account, Inside
<1>2. GateInv'  BY <1>1 DEF GateInv, Account, InLine
<1>3. Effects!KeepsOrder  BY <1>1 DEF Effects!KeepsOrder, Effects!Admitted, Inside
<1> QED  BY <1>2, <1>3

-----------------------------------------------------------------------------
(* The inductive invariant of the locks.                                    *)

Increasing(s) == \A i, j \in DOMAIN s : i < j => s[i] < s[j]
NamesOnce(s) == \A i, j \in 1..Len(s) : s[i] = s[j] => i = j
InUse == {"entered", "requested", "leaving"}

\* A call takes the keys it wants in their order, each once.
Orderly(t) ==
    /\ NamesOnce(wanted[t])
    /\ Len(keysHeld[t]) <= Len(wanted[t])
    /\ \A i \in 1..Len(keysHeld[t]) : Locks!KeyOf(keysHeld[t][i]) = wanted[t][i]
    /\ at[t] \in InUse =>
         /\ Len(keysHeld[t]) < Len(wanted[t])
         /\ trying[t] \in Locks!Entries
         /\ Locks!KeyOf(trying[t]) = wanted[t][Len(keysHeld[t]) + 1]
    /\ at[t] = "out" => keysHeld[t] = <<>>

\* It holds the locks of the entries it has got.
Holding == \A t \in Tasks : \A i \in 1..Len(keysHeld[t]) : holder[keysHeld[t][i]] = t

Users(e) == {t \in Tasks : Locks!Using(t, e)}

LocksInv ==
    /\ Locks!TypeOK
    /\ \A t \in Tasks : Orderly(t)
    /\ Holding
    /\ \A e \in Locks!Entries : references[e] = Cardinality(Users(e))
    /\ \A e \in Locks!Entries : references[e] > 0 <=> current[Locks!KeyOf(e)] = e
    /\ \A k \in Locks!Keys : current[k] # Locks!NoEntry => Locks!KeyOf(current[k]) = k

-----------------------------------------------------------------------------
(* The keys of a call can be sorted.                                        *)

LEMMA BoundedSetsCanBeSorted ==
  ASSUME NEW N \in Nat
  PROVE  \A S \in SUBSET (0..(N - 1)) :
            IsFiniteSet(S) /\ \E s \in [1..Cardinality(S) -> S] : Increasing(s)
<1> DEFINE Sorts(S) == \E s \in [1..Cardinality(S) -> S] : Increasing(s)
           good == {n \in Nat : \A S \in SUBSET (0..(n - 1)) : IsFiniteSet(S) /\ Sorts(S)}
<1>1. \A n \in Nat : \A S \in SUBSET (0..(n - 1)) : IsFiniteSet(S) /\ Cardinality(S) \in Nat
  <2> SUFFICES ASSUME NEW n \in Nat, NEW S \in SUBSET (0..(n - 1))
               PROVE  IsFiniteSet(S) /\ Cardinality(S) \in Nat
    OBVIOUS
  <2>1. IsFiniteSet(0..(n - 1))  BY FS_Interval
  <2>2. IsFiniteSet(S)  BY <2>1, FS_Subset
  <2> QED  BY <2>2, FS_CardinalityType
<1>2. 0 \in good
  <2> SUFFICES ASSUME NEW S \in SUBSET (0..(0 - 1)) PROVE Sorts(S)  BY <1>1
  <2>1. S = {}  OBVIOUS
  <2>2. Cardinality(S) = 0  BY <2>1, FS_EmptySet
  <2> DEFINE s == [i \in 1..0 |-> 0]
  <2>3. s \in [1..Cardinality(S) -> S] /\ Increasing(s)  BY <2>2 DEF Increasing
  <2> QED  BY <2>3
<1>3. ASSUME NEW n \in Nat, n \in good PROVE n + 1 \in good
  <2> SUFFICES ASSUME NEW S \in SUBSET (0..n) PROVE Sorts(S)
    <3>1. (n + 1) - 1 = n /\ n + 1 \in Nat  OBVIOUS
    <3>2. \A S \in SUBSET (0..n) : IsFiniteSet(S)  BY <1>1, <3>1
    <3> HIDE DEF Sorts
    <3> QED  BY <3>1, <3>2
  <2>1. CASE n \notin S
    <3>1. S \in SUBSET (0..(n - 1))  BY <2>1
    <3> QED  BY <3>1, <1>3
  <2>2. CASE n \in S
    <3> DEFINE R == S \ {n}
               c == Cardinality(R)
    <3>1. R \in SUBSET (0..(n - 1)) /\ n \notin R /\ S = R \cup {n}  BY <2>2
    <3>2. IsFiniteSet(R) /\ c \in Nat /\ Sorts(R)
      <4> HIDE DEF R
      <4> QED  BY <3>1, <1>1, <1>3
    <3>3. Cardinality(S) = c + 1
      <4> HIDE DEF R
      <4> QED  BY <3>1, <3>2, FS_AddElement
    <3>4. PICK r \in [1..c -> R] : Increasing(r)  BY <3>2
    <3> DEFINE s == [i \in 1..(c + 1) |-> IF i = c + 1 THEN n ELSE r[i]]
    <3> HIDE DEF R, c
    <3>5. s \in [1..(c + 1) -> S]
      <4>1. \A i \in 1..(c + 1) : i # c + 1 => i \in 1..c  BY <3>2
      <4> QED  BY <4>1, <3>1
    <3>6. Increasing(s)
      <4> SUFFICES ASSUME NEW i \in 1..(c + 1), NEW j \in 1..(c + 1), i < j PROVE s[i] < s[j]
        BY DEF Increasing
      <4>1. i \in 1..c /\ s[i] = r[i]  BY <3>2
      <4>2. r[i] \in 0..(n - 1)  BY <4>1, <3>1
      <4>3. CASE j = c + 1  BY <4>1, <4>2, <4>3
      <4>4. CASE j # c + 1
        <5>1. j \in 1..c /\ s[j] = r[j]  BY <4>4, <3>2
        <5> QED  BY <4>1, <5>1, <3>4 DEF Increasing
      <4> QED  BY <4>3, <4>4
    <3> HIDE DEF s
    <3> QED  BY <3>3, <3>5, <3>6
  <2> QED  BY <2>1, <2>2
<1>4. Nat \subseteq good
  <2> HIDE DEF good
  <2> QED  BY <1>2, <1>3, Induction
<1> QED  BY <1>4

LEMMA KeysAreBounded ==
  ASSUME NEW q \in Seq(Nat)
  PROVE  \E b \in Nat : \A i \in 1..Len(q) : q[i] <= b
<1> DEFINE good == {n \in Nat : n <= Len(q) => \E b \in Nat : \A i \in 1..n : q[i] <= b}
<1>1. 0 \in good  OBVIOUS
<1>2. ASSUME NEW n \in Nat, n \in good PROVE n + 1 \in good
  <2> SUFFICES ASSUME n + 1 <= Len(q) PROVE \E b \in Nat : \A i \in 1..(n + 1) : q[i] <= b  OBVIOUS
  <2>1. PICK b \in Nat : \A i \in 1..n : q[i] <= b  BY <1>2
  <2>2. n + 1 \in 1..Len(q) /\ q[n + 1] \in Nat  OBVIOUS
  <2>3. \A i \in 1..(n + 1) : i = n + 1 \/ i \in 1..n  OBVIOUS
  <2>4. \A i \in 1..(n + 1) : q[i] \in Nat  OBVIOUS
  <2>5. \A i \in 1..(n + 1) : q[i] <= b + q[n + 1]  BY <2>1, <2>2, <2>3, <2>4
  <2>6. b + q[n + 1] \in Nat  BY <2>2
  <2> QED  BY <2>5, <2>6
<1>3. Nat \subseteq good
  <2> HIDE DEF good
  <2> QED  BY <1>1, <1>2, Induction
<1>4. Len(q) \in Nat /\ Len(q) \in good
  <2>1. Len(q) \in Nat  OBVIOUS
  <2> HIDE DEF good
  <2> QED  BY <2>1, <1>3
<1> QED  BY <1>4

\* The operator that KeyedLocks has from the library is the library's.
LEMMA SameCardinality == \A S : Locks!Cardinality(S) = Cardinality(S)
  BY DEF Locks!Cardinality, Cardinality

\* sorted(set(...)) of a list of keys.
LEMMA OrderedNamesOnce ==
  ASSUME NEW q \in KeyLists
  PROVE  Locks!Ordered(q) \in Seq(Locks!Keys) /\ NamesOnce(Locks!Ordered(q))
<1> DEFINE K == Locks!KeysOf(q)
           n == Cardinality(K)
           s == Locks!Ordered(q)
<1>1. q \in Seq(Nat)  BY CallsAssumption
<1>2. PICK b \in Nat : \A i \in 1..Len(q) : q[i] <= b  BY <1>1, KeysAreBounded
<1>3. K \subseteq Nat /\ K \subseteq Locks!Keys  BY <1>1 DEF Locks!KeysOf, Locks!Keys
<1>4. K \in SUBSET (0..((b + 1) - 1))  BY <1>1, <1>2 DEF Locks!KeysOf
<1> HIDE DEF K
<1>5. IsFiniteSet(K) /\ \E r \in [1..n -> K] : Increasing(r)
  <2>1. b + 1 \in Nat  OBVIOUS
  <2> QED  BY <1>4, <2>1, BoundedSetsCanBeSorted
<1>6. n \in Nat  BY <1>5, FS_CardinalityType
<1>7. s \in [1..n -> K] /\ Increasing(s)
  <2>1. s = CHOOSE r \in [1..n -> K] : Increasing(r)
    BY SameCardinality DEF Locks!Ordered, Increasing, K
  <2> HIDE DEF s, n
  <2> QED  BY <1>5, <2>1
<1> HIDE DEF s, n
<1>8. s \in [1..n -> Locks!Keys]  BY <1>3, <1>7
<1>9. s \in Seq(Locks!Keys) /\ Len(s) = n  BY <1>6, <1>8, SeqOfFunction
<1>10. NamesOnce(s)
  <2> SUFFICES ASSUME NEW i \in 1..n, NEW j \in 1..n, s[i] = s[j] PROVE i = j
    BY <1>9 DEF NamesOnce
  <2>1. s[i] \in Nat /\ s[j] \in Nat /\ i \in DOMAIN s /\ j \in DOMAIN s  BY <1>3, <1>7
  <2>2. ~(i < j) /\ ~(j < i)  BY <2>1, <1>7 DEF Increasing
  <2> QED  BY <2>2
<1> QED  BY <1>9, <1>10 DEF s

-----------------------------------------------------------------------------
(* The actions of the locks.                                                *)

LEMMA EntryTypes ==
  ASSUME NEW e \in Locks!Entries
  PROVE  Locks!KeyOf(e) \in Locks!Keys /\ e # Locks!NoEntry
  BY DEF Locks!Entries, Locks!KeyOf, Locks!NoEntry, Locks!Generations

LEMMA LockTypes ==
  ASSUME LocksInv, NEW t \in Tasks
  PROVE  /\ wanted[t] \in Seq(Locks!Keys) /\ keysHeld[t] \in Seq(Locks!Entries)
         /\ Len(wanted[t]) \in Nat /\ Len(keysHeld[t]) \in Nat
         /\ \A i \in 1..Len(keysHeld[t]) : keysHeld[t][i] \in Locks!Entries
         /\ \A i \in 1..Len(wanted[t]) : wanted[t][i] \in Locks!Keys
         /\ trying[t] \in Locks!Entries \cup {Locks!NoEntry}
<1>1. wanted[t] \in Seq(Locks!Keys) /\ keysHeld[t] \in Seq(Locks!Entries)  BY DEF LocksInv, Locks!TypeOK
<1>2. Len(wanted[t]) \in Nat /\ Len(keysHeld[t]) \in Nat  BY <1>1
<1>3. \A i \in 1..Len(keysHeld[t]) : keysHeld[t][i] \in Locks!Entries  BY <1>1
<1>4. \A i \in 1..Len(wanted[t]) : wanted[t][i] \in Locks!Keys  BY <1>1
<1>5. trying[t] \in Locks!Entries \cup {Locks!NoEntry}  BY DEF LocksInv, Locks!TypeOK
<1> QED  BY <1>1, <1>2, <1>3, <1>4, <1>5

\* A call has each entry once, and not the one it is entering or leaving.
LEMMA EntriesOnce ==
  ASSUME LocksInv, NEW t \in Tasks
  PROVE  /\ NamesOnce(keysHeld[t])
         /\ at[t] \in InUse => \A i \in 1..Len(keysHeld[t]) : keysHeld[t][i] # trying[t]
<1>1. Orderly(t) /\ Len(keysHeld[t]) \in Nat /\ Len(wanted[t]) \in Nat  BY LockTypes DEF LocksInv
<1>2. \A i \in 1..Len(keysHeld[t]) : i \in 1..Len(wanted[t]) /\ Locks!KeyOf(keysHeld[t][i]) = wanted[t][i]
  BY <1>1 DEF Orderly
<1>3. NamesOnce(keysHeld[t])
  <2> SUFFICES ASSUME NEW i \in 1..Len(keysHeld[t]), NEW j \in 1..Len(keysHeld[t]),
                      keysHeld[t][i] = keysHeld[t][j]
               PROVE  i = j
    BY DEF NamesOnce
  <2>1. wanted[t][i] = wanted[t][j]  BY <1>2
  <2> QED  BY <1>1, <1>2, <2>1 DEF Orderly, NamesOnce
<1>4. ASSUME at[t] \in InUse, NEW i \in 1..Len(keysHeld[t]), keysHeld[t][i] = trying[t] PROVE FALSE
  <2>1. Len(keysHeld[t]) + 1 \in 1..Len(wanted[t]) /\ i # Len(keysHeld[t]) + 1  BY <1>1, <1>4 DEF Orderly
  <2>2. wanted[t][i] = wanted[t][Len(keysHeld[t]) + 1]  BY <1>1, <1>2, <1>4 DEF Orderly
  <2> QED  BY <1>1, <1>2, <2>1, <2>2 DEF Orderly, NamesOnce
<1> QED  BY <1>3, <1>4

LEMMA LocksInit == CallsInit => LocksInv
<1> SUFFICES ASSUME CallsInit PROVE LocksInv  OBVIOUS
<1> USE DEF CallsInit, Locks!Init, Effects!Init
<1>1. Locks!TypeOK  BY DEF Locks!TypeOK
<1>2. \A t \in Tasks : keysHeld[t] = <<>> /\ wanted[t] = <<>> /\ at[t] = "out" /\ Len(keysHeld[t]) = 0
  OBVIOUS
<1>3. \A t \in Tasks : Orderly(t)  BY <1>2 DEF Orderly, NamesOnce, InUse
<1>4. Holding  BY <1>2 DEF Holding
<1>5. \A e \in Locks!Entries : Users(e) = {}  BY <1>2 DEF Users, Locks!Using
<1>6. \A e \in Locks!Entries : references[e] = 0 /\ current[Locks!KeyOf(e)] # e
  BY EntryTypes
<1>7. \A k \in Locks!Keys : current[k] = Locks!NoEntry  OBVIOUS
<1>8. \A e \in Locks!Entries : references[e] = Cardinality(Users(e))
  <2>1. Cardinality({}) = 0  BY FS_EmptySet
  <2> QED  BY <1>5, <1>6, <2>1
<1>9. \A e \in Locks!Entries : references[e] > 0 <=> current[Locks!KeyOf(e)] = e  BY <1>6
<1> HIDE DEF CallsInit, Locks!Init, Effects!Init
<1> QED  BY <1>1, <1>3, <1>4, <1>7, <1>8, <1>9 DEF LocksInv

\* What neither refers to an entry nor lets go of one.
LEMMA UsersStay ==
  ASSUME LocksInv, UNCHANGED <<current, references>>,
         \A u \in Tasks, e \in Locks!Entries : Locks!Using(u, e)' <=> Locks!Using(u, e)
  PROVE  /\ \A e \in Locks!Entries : references'[e] = Cardinality(Users(e)')
         /\ \A e \in Locks!Entries : references'[e] > 0 <=> current'[Locks!KeyOf(e)] = e
         /\ \A k \in Locks!Keys : current'[k] # Locks!NoEntry => Locks!KeyOf(current'[k]) = k
<1>1. \A e \in Locks!Entries : Users(e)' = Users(e)  BY DEF Users
<1> QED  BY <1>1 DEF LocksInv

\* The other calls are as they were.
LEMMA OthersStay ==
  ASSUME LocksInv, NEW t \in Tasks,
         \A u \in Tasks : u # t => /\ at'[u] = at[u] /\ wanted'[u] = wanted[u]
                                  /\ keysHeld'[u] = keysHeld[u] /\ trying'[u] = trying[u],
         Orderly(t)'
  PROVE  \A u \in Tasks : Orderly(u)'
  BY DEF LocksInv, Orderly

LEMMA LockBegin ==
  ASSUME LocksInv, NEW t \in Tasks, NEW q \in KeyLists, Locks!Begin(t, q)
  PROVE  LocksInv'
<1> USE DEF Locks!Begin, Locks!Moves, Locks!pool
<1>1. Locks!Ordered(q) \in Seq(Locks!Keys) /\ NamesOnce(Locks!Ordered(q))  BY OrderedNamesOnce
<1>2. Locks!TypeOK'  BY <1>1 DEF LocksInv, Locks!TypeOK
<1>3. keysHeld[t] = <<>> /\ Len(keysHeld[t]) = 0  BY DEF LocksInv, Orderly
<1>4. wanted'[t] = Locks!Ordered(q) /\ at'[t] = "next"  BY DEF LocksInv, Locks!TypeOK
<1>5. Len(Locks!Ordered(q)) \in Nat  BY <1>1
<1>6. Orderly(t)'  BY <1>1, <1>3, <1>4, <1>5 DEF Orderly, InUse, NamesOnce
<1>7. \A u \in Tasks : Orderly(u)'  BY <1>6, OthersStay DEF LocksInv, Locks!TypeOK
<1>8. Holding'  BY DEF LocksInv, Holding
<1>9. \A u \in Tasks, e \in Locks!Entries : Locks!Using(u, e)' <=> Locks!Using(u, e)
  BY DEF Locks!Using, LocksInv, Locks!TypeOK
<1> QED  BY <1>2, <1>7, <1>8, <1>9, UsersStay DEF LocksInv

LEMMA LockEnter ==
  ASSUME LocksInv, NEW t \in Tasks, Locks!Enter(t)
  PROVE  LocksInv'
<1> DEFINE k == wanted[t][Len(keysHeld[t]) + 1]
           e == Locks!EntryFor(k)
<1>0. /\ at[t] = "next" /\ Len(keysHeld[t]) < Len(wanted[t])
      /\ current' = [current EXCEPT ![k] = e]
      /\ references' = [references EXCEPT ![e] = @ + 1]
      /\ trying' = [trying EXCEPT ![t] = e]
      /\ at' = [at EXCEPT ![t] = "entered"]
      /\ UNCHANGED <<holder, queue, wanted, keysHeld, cancelled>>
  BY DEF Locks!Enter, Locks!Moves
<1>1. k \in Locks!Keys  BY <1>0, LockTypes
<1> HIDE DEF k
<1>2. e \in Locks!Entries /\ Locks!KeyOf(e) = k
      /\ \A f \in Locks!Entries : Locks!KeyOf(f) = k /\ f # e => references[f] = 0 /\ current[k] # f
  <2>1. \A f \in Locks!Entries : references[f] \in Nat /\ (references[f] > 0 <=> current[Locks!KeyOf(f)] = f)
    BY DEF LocksInv, Locks!TypeOK
  <2>2. CASE current[k] = Locks!NoEntry
    <3>1. \A f \in {k} \X Locks!Generations :
             f \in Locks!Entries /\ Locks!KeyOf(f) = k /\ references[f] = 0
      <4> SUFFICES ASSUME NEW f \in {k} \X Locks!Generations
                   PROVE  f \in Locks!Entries /\ Locks!KeyOf(f) = k /\ references[f] = 0
        OBVIOUS
      <4>1. f \in Locks!Entries /\ Locks!KeyOf(f) = k  BY <1>1 DEF Locks!Entries, Locks!KeyOf
      <4>2. current[k] # f  BY <2>2, <4>1, EntryTypes
      <4> QED  BY <4>1, <4>2, <2>1
    <3>2. <<k, 1>> \in {k} \X Locks!Generations  BY DEF Locks!Generations
    <3>3. e = Locks!Unused(k)  BY <2>2 DEF Locks!EntryFor
    <3>4. e \in {k} \X Locks!Generations  BY <3>1, <3>2, <3>3 DEF Locks!Unused
    <3>5. \A f \in Locks!Entries : Locks!KeyOf(f) = k => f \in {k} \X Locks!Generations
      BY DEF Locks!Entries, Locks!KeyOf
    <3> HIDE DEF e
    <3> QED  BY <3>1, <3>4, <3>5, <2>2, EntryTypes
  <2>3. CASE current[k] # Locks!NoEntry
    <3>1. e = current[k]  BY <2>3 DEF Locks!EntryFor
    <3>2. e \in Locks!Entries  BY <1>1, <2>3, <3>1 DEF LocksInv, Locks!TypeOK
    <3> HIDE DEF e
    <3>3. Locks!KeyOf(e) = k  BY <1>1, <2>3, <3>1 DEF LocksInv
    <3> QED  BY <2>1, <3>1, <3>2, <3>3
  <2> QED  BY <2>2, <2>3
<1> HIDE DEF e
<1>3. Locks!TypeOK'
  <2>1. references[e] + 1 \in Nat  BY <1>2 DEF LocksInv, Locks!TypeOK
  <2>2. references' \in [Locks!Entries -> Nat]
    <3>1. references' = [references EXCEPT ![e] = references[e] + 1]  BY <1>0
    <3>2. references \in [Locks!Entries -> Nat]  BY DEF LocksInv, Locks!TypeOK
    <3> QED  BY <2>1, <3>1, <3>2
  <2>3. current' \in [Locks!Keys -> Locks!Entries \cup {Locks!NoEntry}]
    BY <1>0, <1>2 DEF LocksInv, Locks!TypeOK
  <2>4. trying' \in [Tasks -> Locks!Entries \cup {Locks!NoEntry}]
    BY <1>0, <1>2 DEF LocksInv, Locks!TypeOK
  <2>5. at' \in [Tasks -> {"out", "next", "entered", "requested", "leaving", "unwinding"}]
    BY <1>0 DEF LocksInv, Locks!TypeOK
  <2> QED  BY <1>0, <2>2, <2>3, <2>4, <2>5 DEF LocksInv, Locks!TypeOK
<1>4. at'[t] = "entered" /\ trying'[t] = e  BY <1>0 DEF LocksInv, Locks!TypeOK
<1>5. Orderly(t)'  BY <1>0, <1>2, <1>4 DEF LocksInv, Orderly, k
<1>6. \A u \in Tasks : Orderly(u)'  BY <1>0, <1>5, OthersStay DEF LocksInv, Locks!TypeOK
<1>7. Holding'  BY <1>0 DEF LocksInv, Holding
<1>8. t \notin Users(e)
  <2>1. \A i \in 1..Len(keysHeld[t]) : keysHeld[t][i] # e
    <3> SUFFICES ASSUME NEW i \in 1..Len(keysHeld[t]), keysHeld[t][i] = e PROVE FALSE  OBVIOUS
    <3>1. wanted[t][i] = k  BY <1>2 DEF LocksInv, Orderly
    <3>2. i \in 1..Len(wanted[t]) /\ Len(keysHeld[t]) + 1 \in 1..Len(wanted[t]) /\ i # Len(keysHeld[t]) + 1
      BY <1>0, LockTypes
    <3> QED  BY <3>1, <3>2 DEF LocksInv, Orderly, NamesOnce, k
  <2> QED  BY <2>1, <1>0 DEF Users, Locks!Using
<1>9. \A f \in Locks!Entries : Users(f)' = IF f = e THEN Users(f) \cup {t} ELSE Users(f)
  <2>1. \A u \in Tasks, f \in Locks!Entries : u # t => (Locks!Using(u, f)' <=> Locks!Using(u, f))
    BY <1>0 DEF Locks!Using, LocksInv, Locks!TypeOK
  <2>2. \A f \in Locks!Entries : Locks!Using(t, f)' <=> Locks!Using(t, f) \/ f = e
    BY <1>0, <1>4 DEF Locks!Using
  <2> QED  BY <2>1, <2>2 DEF Users
<1>10. \A f \in Locks!Entries : references'[f] = Cardinality(Users(f)')
  <2>1. IsFiniteSet(Users(e))  BY CallsAssumption, FS_Subset DEF Users
  <2>2. Cardinality(Users(e) \cup {t}) = Cardinality(Users(e)) + 1  BY <1>8, <2>1, FS_AddElement
  <2>3. references'[e] = references[e] + 1  BY <1>0, <1>2 DEF LocksInv, Locks!TypeOK
  <2>4. \A f \in Locks!Entries : f # e => references'[f] = references[f]
    BY <1>0 DEF LocksInv, Locks!TypeOK
  <2> QED  BY <1>2, <1>9, <2>2, <2>3, <2>4 DEF LocksInv
<1>11. \A f \in Locks!Entries : references'[f] > 0 <=> current'[Locks!KeyOf(f)] = f
  <2> SUFFICES ASSUME NEW f \in Locks!Entries PROVE references'[f] > 0 <=> current'[Locks!KeyOf(f)] = f
    OBVIOUS
  <2>0. Locks!KeyOf(f) \in Locks!Keys /\ references[f] \in Nat /\ (references[f] > 0 <=> current[Locks!KeyOf(f)] = f)
    BY EntryTypes DEF LocksInv, Locks!TypeOK
  <2>1. CASE f = e
    <3>1. references'[f] = references[f] + 1 /\ current'[k] = e
      BY <1>0, <1>1, <1>2, <2>1 DEF LocksInv, Locks!TypeOK
    <3> QED  BY <3>1, <2>0, <2>1, <1>2
  <2>2. CASE f # e /\ Locks!KeyOf(f) = k
    <3>1. references'[f] = 0 /\ current'[k] = e
      BY <1>0, <1>1, <1>2, <2>2 DEF LocksInv, Locks!TypeOK
    <3> QED  BY <3>1, <2>2
  <2>3. CASE f # e /\ Locks!KeyOf(f) # k
    <3>1. references'[f] = references[f] /\ current'[Locks!KeyOf(f)] = current[Locks!KeyOf(f)]
      BY <1>0, <2>0, <2>3 DEF LocksInv, Locks!TypeOK
    <3> QED  BY <3>1, <2>0
  <2> QED  BY <2>1, <2>2, <2>3
<1>12. \A c \in Locks!Keys : current'[c] # Locks!NoEntry => Locks!KeyOf(current'[c]) = c
  BY <1>0, <1>1, <1>2 DEF LocksInv, Locks!TypeOK
<1> QED  BY <1>3, <1>6, <1>7, <1>10, <1>11, <1>12 DEF LocksInv

LEMMA LockRequest ==
  ASSUME LocksInv, NEW t \in Tasks, Locks!Request(t)
  PROVE  LocksInv'
<1> DEFINE e == trying[t]
<1>0. /\ at[t] = "entered" /\ at' = [at EXCEPT ![t] = "requested"]
      /\ UNCHANGED <<current, references, wanted, keysHeld, trying, cancelled>>
      /\ \/ holder[e] = Locks!NoTask /\ holder' = [holder EXCEPT ![e] = t] /\ queue' = queue
         \/ holder' = holder /\ queue' = [queue EXCEPT ![e] = Append(@, t)]
  BY DEF Locks!Request, Locks!Moves
<1>1. e \in Locks!Entries  BY <1>0 DEF LocksInv, Orderly, InUse
<1> HIDE DEF e
<1>2. Locks!TypeOK'
  <2>1. at' \in [Tasks -> {"out", "next", "entered", "requested", "leaving", "unwinding"}]
    BY <1>0 DEF LocksInv, Locks!TypeOK
  <2>2. holder' \in [Locks!Entries -> Tasks \cup {Locks!NoTask}]
    BY <1>0, <1>1 DEF LocksInv, Locks!TypeOK
  <2>3. queue' \in [Locks!Entries -> Seq(Tasks)]
    <3>1. queue \in [Locks!Entries -> Seq(Tasks)]  BY DEF LocksInv, Locks!TypeOK
    <3>2. Append(queue[e], t) \in Seq(Tasks)  BY <1>1, <3>1
    <3> QED  BY <1>0, <3>1, <3>2
  <2> QED  BY <1>0, <2>1, <2>2, <2>3 DEF LocksInv, Locks!TypeOK
<1>3. at'[t] = "requested"  BY <1>0 DEF LocksInv, Locks!TypeOK
<1>4. Orderly(t)'  BY <1>0, <1>3 DEF LocksInv, Orderly, InUse
<1>5. \A u \in Tasks : Orderly(u)'  BY <1>0, <1>4, OthersStay DEF LocksInv, Locks!TypeOK
<1>6. Holding'
  <2> SUFFICES ASSUME NEW u \in Tasks, NEW i \in 1..Len(keysHeld[u]) PROVE holder'[keysHeld[u][i]] = u
    BY <1>0 DEF Holding
  <2>1. holder[keysHeld[u][i]] = u /\ keysHeld[u][i] \in Locks!Entries  BY LockTypes DEF LocksInv, Holding
  <2>2. u # Locks!NoTask  BY CallsAssumption DEF Locks!NoTask
  <2>3. holder'[keysHeld[u][i]] = holder[keysHeld[u][i]]
    BY <1>0, <1>1, <2>1, <2>2 DEF LocksInv, Locks!TypeOK
  <2> QED  BY <2>1, <2>3
<1>7. \A u \in Tasks, f \in Locks!Entries : Locks!Using(u, f)' <=> Locks!Using(u, f)
  BY <1>0 DEF Locks!Using, LocksInv, Locks!TypeOK
<1> QED  BY <1>0, <1>2, <1>5, <1>6, <1>7, UsersStay DEF LocksInv

LEMMA LockAcquired ==
  ASSUME LocksInv, NEW t \in Tasks, Locks!Acquired(t)
  PROVE  LocksInv'
<1> DEFINE e == trying[t]
           n == Len(keysHeld[t])
<1>0. /\ at[t] = "requested" /\ holder[e] = t
      /\ keysHeld' = [keysHeld EXCEPT ![t] = Append(@, e)]
      /\ at' = [at EXCEPT ![t] = "next"]
      /\ UNCHANGED <<current, references, holder, queue, wanted, trying, cancelled>>
  BY DEF Locks!Acquired, Locks!Moves, Locks!pool
<1>1. /\ e \in Locks!Entries /\ n < Len(wanted[t]) /\ Locks!KeyOf(e) = wanted[t][n + 1]
  BY <1>0 DEF LocksInv, Orderly, InUse
<1>2. n \in Nat /\ Len(wanted[t]) \in Nat /\ keysHeld[t] \in Seq(Locks!Entries)  BY LockTypes
<1>3. at'[t] = "next" /\ keysHeld'[t] = Append(keysHeld[t], e)
  BY <1>0 DEF LocksInv, Locks!TypeOK
<1>4. /\ keysHeld'[t] \in Seq(Locks!Entries) /\ Len(keysHeld'[t]) = n + 1 /\ keysHeld'[t][n + 1] = e
      /\ \A i \in 1..n : keysHeld'[t][i] = keysHeld[t][i]
  BY <1>1, <1>2, <1>3, AppendProperties
<1> HIDE DEF e, n
<1>5. \A i \in 1..(n + 1) : i = n + 1 \/ i \in 1..n  BY <1>2
<1>6. Locks!TypeOK'
  <2>1. at' \in [Tasks -> {"out", "next", "entered", "requested", "leaving", "unwinding"}]
    BY <1>0 DEF LocksInv, Locks!TypeOK
  <2>2. keysHeld' \in [Tasks -> Seq(Locks!Entries)]
    BY <1>0, <1>3, <1>4 DEF LocksInv, Locks!TypeOK
  <2> QED  BY <1>0, <2>1, <2>2 DEF LocksInv, Locks!TypeOK
<1>7. Orderly(t)'
  <2>1. NamesOnce(wanted[t]) /\ \A i \in 1..n : Locks!KeyOf(keysHeld[t][i]) = wanted[t][i]
    BY DEF LocksInv, Orderly, n
  <2>2. \A i \in 1..Len(keysHeld'[t]) : Locks!KeyOf(keysHeld'[t][i]) = wanted[t][i]
    BY <1>1, <1>4, <1>5, <2>1
  <2>3. Len(keysHeld'[t]) <= Len(wanted[t])  BY <1>1, <1>2, <1>4
  <2> QED  BY <1>0, <1>3, <2>1, <2>2, <2>3 DEF Orderly, InUse
<1>8. \A u \in Tasks : Orderly(u)'  BY <1>0, <1>7, OthersStay DEF LocksInv, Locks!TypeOK
<1>9. Holding'
  <2>1. \A u \in Tasks : u # t => keysHeld'[u] = keysHeld[u]  BY <1>0 DEF LocksInv, Locks!TypeOK
  <2>2. \A i \in 1..Len(keysHeld'[t]) : holder[keysHeld'[t][i]] = t
    BY <1>0, <1>4, <1>5 DEF LocksInv, Holding, n
  <2> QED  BY <1>0, <2>1, <2>2 DEF LocksInv, Holding
<1>10. \A u \in Tasks, f \in Locks!Entries : Locks!Using(u, f)' <=> Locks!Using(u, f)
  <2>1. ASSUME NEW u \in Tasks, u # t, NEW f \in Locks!Entries PROVE Locks!Using(u, f)' <=> Locks!Using(u, f)
    BY <1>0, <2>1 DEF Locks!Using, LocksInv, Locks!TypeOK
  <2>2. ASSUME NEW f \in Locks!Entries PROVE Locks!Using(t, f)' <=> Locks!Using(t, f)
    <3>1. Locks!Using(t, f) <=> (\E i \in 1..n : keysHeld[t][i] = f) \/ f = e
      BY <1>0 DEF Locks!Using, n, e
    <3>2. Locks!Using(t, f)' <=> \E i \in 1..(n + 1) : keysHeld'[t][i] = f
      BY <1>3, <1>4 DEF Locks!Using
    <3>3. (\E i \in 1..(n + 1) : keysHeld'[t][i] = f) <=> (\E i \in 1..n : keysHeld[t][i] = f) \/ f = e
      <4>1. 1..n \subseteq 1..(n + 1) /\ n + 1 \in 1..(n + 1)  BY <1>2
      <4> QED  BY <4>1, <1>4, <1>5
    <3> QED  BY <3>1, <3>2, <3>3
  <2> QED  BY <2>1, <2>2
<1> QED  BY <1>0, <1>6, <1>8, <1>9, <1>10, UsersStay DEF LocksInv

\* A lock passes on.
LEMMA HandedOver ==
  ASSUME LocksInv, NEW e \in Locks!Entries, Locks!HandOver(e)
  PROVE  /\ holder' \in [Locks!Entries -> Tasks \cup {Locks!NoTask}]
         /\ queue' \in [Locks!Entries -> Seq(Tasks)]
         /\ \A f \in Locks!Entries : f # e => holder'[f] = holder[f]
<1>1. /\ queue[e] \in Seq(Tasks) /\ holder \in [Locks!Entries -> Tasks \cup {Locks!NoTask}]
      /\ queue \in [Locks!Entries -> Seq(Tasks)]
  BY DEF LocksInv, Locks!TypeOK
<1>2. queue[e] # <<>> => Head(queue[e]) \in Tasks /\ Tail(queue[e]) \in Seq(Tasks)
  BY <1>1, HeadTailProperties
<1>3. /\ (IF queue[e] = <<>> THEN Locks!NoTask ELSE Head(queue[e])) \in Tasks \cup {Locks!NoTask}
      /\ (IF queue[e] = <<>> THEN queue[e] ELSE Tail(queue[e])) \in Seq(Tasks)
  BY <1>1, <1>2
<1> QED  BY <1>1, <1>3 DEF Locks!HandOver

LEMMA WithoutTask ==
  ASSUME NEW q \in Seq(Tasks), NEW t
  PROVE  Locks!Without(q, t) \in Seq(Tasks)
<1>1. CASE ~Locks!Queued(q, t)  BY <1>1 DEF Locks!Without
<1>2. CASE Locks!Queued(q, t)
  <2> DEFINE p == Locks!Place(q, t)
             s == [i \in 1..(Len(q) - 1) |-> q[IF i < p THEN i ELSE i + 1]]
  <2>1. p \in 1..Len(q)  BY <1>2 DEF Locks!Place, Locks!Queued
  <2> HIDE DEF p
  <2>2. Len(q) - 1 \in Nat  BY <2>1
  <2>3. s \in [1..(Len(q) - 1) -> Tasks]
    <3>1. \A i \in 1..(Len(q) - 1) : (IF i < p THEN i ELSE i + 1) \in 1..Len(q)  BY <2>1
    <3> QED  BY <3>1
  <2> HIDE DEF s
  <2>4. s \in Seq(Tasks)  BY <2>2, <2>3, SeqOfFunction
  <2> QED  BY <1>2, <2>4 DEF Locks!Without, s, p
<1> QED  BY <1>1, <1>2

LEMMA LockWithdraw ==
  ASSUME LocksInv, NEW t \in Tasks, Locks!Withdraw(t)
  PROVE  LocksInv'
<1> DEFINE e == trying[t]
<1>0. /\ at[t] \in {"entered", "requested"} /\ Locks!GiveUp(t, e)
      /\ at' = [at EXCEPT ![t] = "leaving"]
      /\ UNCHANGED <<current, references, wanted, keysHeld, trying, cancelled>>
  BY DEF Locks!Withdraw, Locks!Moves
<1>1. e \in Locks!Entries /\ at[t] \in InUse  BY <1>0 DEF LocksInv, Orderly, InUse
<1> HIDE DEF e
<1>2. /\ holder' \in [Locks!Entries -> Tasks \cup {Locks!NoTask}]
      /\ queue' \in [Locks!Entries -> Seq(Tasks)]
      /\ \A f \in Locks!Entries : (f # e \/ holder[e] # t) => holder'[f] = holder[f]
  <2>1. CASE holder[e] = t
    <3>1. Locks!HandOver(e)  BY <1>0, <2>1 DEF Locks!GiveUp
    <3> QED  BY <1>1, <2>1, <3>1, HandedOver
  <2>2. CASE holder[e] # t
    <3>1. holder' = holder /\ queue' = [queue EXCEPT ![e] = Locks!Without(queue[e], t)]
      BY <1>0, <2>2 DEF Locks!GiveUp
    <3>2. queue \in [Locks!Entries -> Seq(Tasks)]  BY DEF LocksInv, Locks!TypeOK
    <3>3. Locks!Without(queue[e], t) \in Seq(Tasks)  BY <1>1, <3>2, WithoutTask
    <3> QED  BY <3>1, <3>2, <3>3, <2>2 DEF LocksInv, Locks!TypeOK
  <2> QED  BY <2>1, <2>2
<1>3. Locks!TypeOK'
  <2>1. at' \in [Tasks -> {"out", "next", "entered", "requested", "leaving", "unwinding"}]
    BY <1>0 DEF LocksInv, Locks!TypeOK
  <2> QED  BY <1>0, <1>2, <2>1 DEF LocksInv, Locks!TypeOK
<1>4. at'[t] = "leaving"  BY <1>0 DEF LocksInv, Locks!TypeOK
<1>5. Orderly(t)'  BY <1>0, <1>4 DEF LocksInv, Orderly, InUse
<1>6. \A u \in Tasks : Orderly(u)'  BY <1>0, <1>5, OthersStay DEF LocksInv, Locks!TypeOK
<1>7. Holding'
  <2> SUFFICES ASSUME NEW u \in Tasks, NEW i \in 1..Len(keysHeld[u]) PROVE holder'[keysHeld[u][i]] = u
    BY <1>0 DEF Holding
  <2>1. holder[keysHeld[u][i]] = u /\ keysHeld[u][i] \in Locks!Entries  BY LockTypes DEF LocksInv, Holding
  <2>2. u = t => keysHeld[u][i] # e  BY <1>1, EntriesOnce DEF e
  <2> QED  BY <1>2, <2>1, <2>2
<1>8. \A u \in Tasks, f \in Locks!Entries : Locks!Using(u, f)' <=> Locks!Using(u, f)
  BY <1>0 DEF Locks!Using, LocksInv, Locks!TypeOK
<1> QED  BY <1>0, <1>3, <1>6, <1>7, <1>8, UsersStay DEF LocksInv

LEMMA LockRelease ==
  ASSUME LocksInv, NEW t \in Tasks, Locks!Release(t)
  PROVE  LocksInv'
<1>0. /\ at[t] = "next" /\ at' = [at EXCEPT ![t] = "unwinding"]
      /\ UNCHANGED <<current, references, holder, queue, wanted, keysHeld, trying, cancelled>>
  BY DEF Locks!Release, Locks!HasAll, Locks!Moves, Locks!pool
<1>1. Locks!TypeOK'  BY <1>0 DEF LocksInv, Locks!TypeOK
<1>2. at'[t] = "unwinding"  BY <1>0 DEF LocksInv, Locks!TypeOK
<1>3. Orderly(t)'  BY <1>0, <1>2 DEF LocksInv, Orderly, InUse
<1>4. \A u \in Tasks : Orderly(u)'  BY <1>0, <1>3, OthersStay DEF LocksInv, Locks!TypeOK
<1>5. Holding'  BY <1>0 DEF LocksInv, Holding
<1>6. \A u \in Tasks, f \in Locks!Entries : Locks!Using(u, f)' <=> Locks!Using(u, f)
  BY <1>0 DEF Locks!Using, LocksInv, Locks!TypeOK
<1> QED  BY <1>0, <1>1, <1>4, <1>5, <1>6, UsersStay DEF LocksInv

LEMMA LockLeave ==
  ASSUME LocksInv, NEW t \in Tasks, Locks!Leave(t)
  PROVE  LocksInv'
<1> DEFINE e == trying[t]
           k == Locks!KeyOf(e)
<1>0. /\ at[t] = "leaving" /\ at' = [at EXCEPT ![t] = "unwinding"]
      /\ references' = [references EXCEPT ![e] = @ - 1]
      /\ current' = [current EXCEPT ![k] = IF references[e] = 1 /\ @ = e THEN Locks!NoEntry ELSE @]
      /\ UNCHANGED <<holder, queue, wanted, keysHeld, trying, cancelled>>
  BY DEF Locks!Leave, Locks!LastUser, Locks!Moves
<1>1. e \in Locks!Entries /\ at[t] \in InUse  BY <1>0 DEF LocksInv, Orderly, InUse
<1>2. k \in Locks!Keys  BY <1>1, EntryTypes
<1>3. t \in Users(e) /\ \A i \in 1..Len(keysHeld[t]) : keysHeld[t][i] # e
  BY <1>0, <1>1, EntriesOnce DEF Users, Locks!Using
<1>4. IsFiniteSet(Users(e)) /\ references[e] = Cardinality(Users(e)) /\ references[e] \in Nat
  BY <1>1, CallsAssumption, FS_Subset DEF Users, LocksInv, Locks!TypeOK
<1>5. references[e] > 0
  <2>1. Cardinality(Users(e)) # 0  BY <1>3, <1>4, FS_EmptySet
  <2> QED  BY <1>4, <2>1
<1>6. current[k] = e  BY <1>1, <1>5 DEF LocksInv
<1>7. at'[t] = "unwinding"  BY <1>0 DEF LocksInv, Locks!TypeOK
<1>8. /\ references'[e] = references[e] - 1 /\ references'[e] \in Nat
      /\ \A f \in Locks!Entries : f # e => references'[f] = references[f]
      /\ current'[k] = IF references[e] = 1 THEN Locks!NoEntry ELSE e
      /\ \A c \in Locks!Keys : c # k => current'[c] = current[c]
  BY <1>0, <1>1, <1>2, <1>4, <1>5, <1>6 DEF LocksInv, Locks!TypeOK
<1>9. Locks!TypeOK'
  <2>1. at' \in [Tasks -> {"out", "next", "entered", "requested", "leaving", "unwinding"}]
    BY <1>0 DEF LocksInv, Locks!TypeOK
  <2>2. references' \in [Locks!Entries -> Nat]
    <3>1. references \in [Locks!Entries -> Nat] /\ references[e] - 1 \in Nat
      BY <1>4, <1>5 DEF LocksInv, Locks!TypeOK
    <3>2. references' = [references EXCEPT ![e] = references[e] - 1]  BY <1>0
    <3> QED  BY <3>1, <3>2
  <2>3. current' \in [Locks!Keys -> Locks!Entries \cup {Locks!NoEntry}]
    <3>1. current \in [Locks!Keys -> Locks!Entries \cup {Locks!NoEntry}]  BY DEF LocksInv, Locks!TypeOK
    <3> HIDE DEF e, k
    <3> QED  BY <1>0, <3>1
  <2> QED  BY <1>0, <2>1, <2>2, <2>3 DEF LocksInv, Locks!TypeOK
<1>10. \A f \in Locks!Entries : f = e => Users(f)' = Users(f) \ {t}
  <2> SUFFICES ASSUME NEW f \in Locks!Entries, f = e PROVE Users(f)' = Users(f) \ {t}
    OBVIOUS
  <2>1. \A u \in Tasks : u # t => (Locks!Using(u, f)' <=> Locks!Using(u, f))
    BY <1>0 DEF Locks!Using, LocksInv, Locks!TypeOK
  <2>2. ~Locks!Using(t, f)'  BY <1>0, <1>3, <1>7 DEF Locks!Using
  <2> QED  BY <2>1, <2>2 DEF Users
<1>11. \A f \in Locks!Entries : f # e => Users(f)' = Users(f)
  <2> SUFFICES ASSUME NEW f \in Locks!Entries, f # e,
                      NEW u \in Tasks
               PROVE  Locks!Using(u, f)' <=> Locks!Using(u, f)
    BY DEF Users
  <2> QED  BY <1>0 DEF Locks!Using, LocksInv, Locks!TypeOK
<1> HIDE DEF e, k
<1>12. \A f \in Locks!Entries : references'[f] = Cardinality(Users(f)')
  <2>1. Cardinality(Users(e) \ {t}) = Cardinality(Users(e)) - 1  BY <1>3, <1>4, FS_RemoveElement
  <2>2. ASSUME NEW f \in Locks!Entries, f = e
        PROVE  references'[f] = Cardinality(Users(f)')
    BY <1>4, <1>8, <1>10, <2>1, <2>2
  <2>3. ASSUME NEW f \in Locks!Entries, f # e
        PROVE  references'[f] = Cardinality(Users(f)')
    BY <1>8, <1>11, <2>3 DEF LocksInv
  <2> QED  BY <2>2, <2>3
<1>13. \A f \in Locks!Entries : references'[f] > 0 <=> current'[Locks!KeyOf(f)] = f
  <2> SUFFICES ASSUME NEW f \in Locks!Entries PROVE references'[f] > 0 <=> current'[Locks!KeyOf(f)] = f
    OBVIOUS
  <2>0. /\ Locks!KeyOf(f) \in Locks!Keys /\ references[f] \in Nat /\ f # Locks!NoEntry
        /\ (references[f] > 0 <=> current[Locks!KeyOf(f)] = f)
    BY EntryTypes DEF LocksInv, Locks!TypeOK
  <2>1. CASE f = e
    <3>1. Locks!KeyOf(f) = k  BY <2>1 DEF k
    <3>2. CASE references[e] = 1  BY <3>1, <3>2, <2>0, <2>1, <1>8
    <3>3. CASE references[e] # 1
      <4>1. references'[e] > 0  BY <1>4, <1>5, <1>8, <3>3
      <4> QED  BY <4>1, <3>1, <3>3, <2>1, <1>8
    <3> QED  BY <3>2, <3>3
  <2>2. CASE f # e /\ Locks!KeyOf(f) = k
    <3>1. ~(references[f] > 0)  BY <2>0, <2>2, <1>6
    <3>2. current'[k] # f  BY <1>8, <2>0, <2>2
    <3> QED  BY <3>1, <3>2, <2>2, <1>8
  <2>3. CASE Locks!KeyOf(f) # k
    <3>1. f # e  BY <2>3 DEF k
    <3> QED  BY <2>0, <2>3, <3>1, <1>8
  <2> QED  BY <2>1, <2>2, <2>3
<1>14. \A c \in Locks!Keys : current'[c] # Locks!NoEntry => Locks!KeyOf(current'[c]) = c
  BY <1>2, <1>6, <1>8 DEF LocksInv, k
<1>15. Orderly(t)'  BY <1>0, <1>7 DEF LocksInv, Orderly, InUse
<1>16. \A u \in Tasks : Orderly(u)'  BY <1>0, <1>15, OthersStay DEF LocksInv, Locks!TypeOK
<1>17. Holding'  BY <1>0 DEF LocksInv, Holding
<1> QED  BY <1>9, <1>12, <1>13, <1>14, <1>16, <1>17 DEF LocksInv

LEMMA LockUnwind ==
  ASSUME LocksInv, NEW t \in Tasks, Locks!Unwind(t)
  PROVE  LocksInv'
<1> DEFINE n == Len(keysHeld[t])
           e == keysHeld[t][n]
           s == SubSeq(keysHeld[t], 1, n - 1)
<1>0. /\ at[t] = "unwinding" /\ keysHeld[t] # <<>> /\ Locks!HandOver(e)
      /\ trying' = [trying EXCEPT ![t] = e]
      /\ keysHeld' = [keysHeld EXCEPT ![t] = s]
      /\ at' = [at EXCEPT ![t] = "leaving"]
      /\ UNCHANGED <<current, references, wanted, cancelled>>
  BY DEF Locks!Unwind, Locks!Top, Locks!Below, Locks!Moves
<1>1. n \in Nat /\ n # 0 /\ keysHeld[t] \in Seq(Locks!Entries) /\ Len(wanted[t]) \in Nat
  BY <1>0, LockTypes, EmptySeq
<1>2. n \in 1..n /\ e \in Locks!Entries  BY <1>1, LockTypes
<1>3. /\ s \in Seq(Locks!Entries) /\ Len(s) = n - 1
      /\ \A i \in 1..(n - 1) : s[i] = keysHeld[t][i]
  <2>1. \A i \in 1..(n - 1) : keysHeld[t][i] \in Locks!Entries  BY <1>1, LockTypes
  <2>2. /\ s \in Seq(Locks!Entries)
        /\ Len(s) = IF 1 <= n - 1 THEN (n - 1) - 1 + 1 ELSE 0
        /\ \A i \in 1..((n - 1) - 1 + 1) : s[i] = keysHeld[t][1 + i - 1]
    BY <1>1, <2>1, SubSeqProperties
  <2>3. (n - 1) - 1 + 1 = n - 1 /\ \A i \in 1..(n - 1) : 1 + i - 1 = i  BY <1>1
  <2> QED  BY <1>1, <2>2, <2>3
<1> HIDE DEF s
<1>4. at'[t] = "leaving" /\ trying'[t] = e /\ keysHeld'[t] = s
  BY <1>0 DEF LocksInv, Locks!TypeOK
<1>5. \A i \in 1..n : i = n \/ i \in 1..(n - 1)  BY <1>1
<1>6. 1..(n - 1) \subseteq 1..n  BY <1>1
<1>7. \A i \in 1..(n - 1) : keysHeld[t][i] # e  BY <1>1, <1>2, <1>6, EntriesOnce DEF NamesOnce
<1>8. /\ holder' \in [Locks!Entries -> Tasks \cup {Locks!NoTask}]
      /\ queue' \in [Locks!Entries -> Seq(Tasks)]
      /\ \A f \in Locks!Entries : f # e => holder'[f] = holder[f]
  <2> HIDE DEF e
  <2> QED  BY <1>0, <1>2, HandedOver
<1>9. holder[e] = t  BY <1>2 DEF LocksInv, Holding
<1>10. Locks!TypeOK'
  <2>1. at' \in [Tasks -> {"out", "next", "entered", "requested", "leaving", "unwinding"}]
    BY <1>0 DEF LocksInv, Locks!TypeOK
  <2>2. trying' \in [Tasks -> Locks!Entries \cup {Locks!NoEntry}]
    BY <1>0, <1>2 DEF LocksInv, Locks!TypeOK
  <2>3. keysHeld' \in [Tasks -> Seq(Locks!Entries)]
    BY <1>0, <1>3 DEF LocksInv, Locks!TypeOK
  <2> QED  BY <1>0, <1>8, <2>1, <2>2, <2>3 DEF LocksInv, Locks!TypeOK
<1>11. Orderly(t)'
  <2>1. /\ NamesOnce(wanted[t]) /\ n <= Len(wanted[t])
        /\ \A i \in 1..n : Locks!KeyOf(keysHeld[t][i]) = wanted[t][i]
    BY DEF LocksInv, Orderly
  <2>2. \A i \in 1..Len(s) : Locks!KeyOf(s[i]) = wanted[t][i]  BY <1>3, <1>6, <2>1
  <2>3. Len(s) < Len(wanted[t]) /\ Len(s) <= Len(wanted[t]) /\ Len(s) + 1 = n  BY <1>1, <1>3, <2>1
  <2>4. Locks!KeyOf(e) = wanted[t][Len(s) + 1]  BY <1>2, <2>1, <2>3
  <2> HIDE DEF e, n
  <2> QED  BY <1>0, <1>2, <1>4, <2>1, <2>2, <2>3, <2>4 DEF Orderly
<1>12. \A u \in Tasks : Orderly(u)'  BY <1>0, <1>11, OthersStay DEF LocksInv, Locks!TypeOK
<1>13. Holding'
  <2>1. ASSUME NEW i \in 1..Len(s) PROVE holder'[s[i]] = t
    <3>1. i \in 1..n /\ s[i] = keysHeld[t][i] /\ s[i] # e  BY <1>3, <1>6, <1>7
    <3>2. s[i] \in Locks!Entries /\ holder[s[i]] = t  BY <3>1, LockTypes DEF LocksInv, Holding
    <3> QED  BY <3>1, <3>2, <1>8
  <2>2. ASSUME NEW u \in Tasks, u # t, NEW i \in 1..Len(keysHeld[u]) PROVE holder'[keysHeld[u][i]] = u
    <3>1. holder[keysHeld[u][i]] = u /\ keysHeld[u][i] \in Locks!Entries  BY LockTypes DEF LocksInv, Holding
    <3> QED  BY <1>8, <1>9, <2>2, <3>1
  <2>3. \A u \in Tasks : u # t => keysHeld'[u] = keysHeld[u]  BY <1>0 DEF LocksInv, Locks!TypeOK
  <2> HIDE DEF e, n
  <2> QED  BY <1>4, <2>1, <2>2, <2>3 DEF Holding
<1>14. \A u \in Tasks, f \in Locks!Entries : Locks!Using(u, f)' <=> Locks!Using(u, f)
  <2>1. ASSUME NEW u \in Tasks, u # t, NEW f \in Locks!Entries PROVE Locks!Using(u, f)' <=> Locks!Using(u, f)
    BY <1>0, <2>1 DEF Locks!Using, LocksInv, Locks!TypeOK
  <2>2. ASSUME NEW f \in Locks!Entries PROVE Locks!Using(t, f)' <=> Locks!Using(t, f)
    <3>1. Locks!Using(t, f) <=> \E i \in 1..n : keysHeld[t][i] = f  BY <1>0 DEF Locks!Using
    <3>2. Locks!Using(t, f)' <=> (\E i \in 1..(n - 1) : s[i] = f) \/ f = e
      BY <1>3, <1>4 DEF Locks!Using
    <3>3. (\E i \in 1..n : keysHeld[t][i] = f) <=> (\E i \in 1..(n - 1) : s[i] = f) \/ f = e
      <4> HIDE DEF n
      <4> QED  BY <1>2, <1>3, <1>5, <1>6
    <3> QED  BY <3>1, <3>2, <3>3
  <2> QED  BY <2>1, <2>2
<1> HIDE DEF e, n
<1> QED  BY <1>0, <1>10, <1>12, <1>13, <1>14, UsersStay DEF LocksInv

LEMMA LockOut ==
  ASSUME LocksInv, NEW t \in Tasks, Locks!Out(t)
  PROVE  LocksInv'
<1>0. /\ at[t] = "unwinding" /\ keysHeld[t] = <<>> /\ at' = [at EXCEPT ![t] = "out"]
      /\ wanted' = [wanted EXCEPT ![t] = <<>>] /\ trying' = [trying EXCEPT ![t] = Locks!NoEntry]
      /\ UNCHANGED <<current, references, holder, queue, keysHeld, cancelled>>
  BY DEF Locks!Out, Locks!Moves, Locks!pool
<1>1. Locks!TypeOK'
  <2>1. wanted' \in [Tasks -> Seq(Locks!Keys)]
    <3>1. <<>> \in Seq(Locks!Keys)  OBVIOUS
    <3> QED  BY <1>0, <3>1 DEF LocksInv, Locks!TypeOK
  <2>2. at' \in [Tasks -> {"out", "next", "entered", "requested", "leaving", "unwinding"}]
    BY <1>0 DEF LocksInv, Locks!TypeOK
  <2>3. trying' \in [Tasks -> Locks!Entries \cup {Locks!NoEntry}]  BY <1>0 DEF LocksInv, Locks!TypeOK
  <2> QED  BY <1>0, <2>1, <2>2, <2>3 DEF LocksInv, Locks!TypeOK
<1>2. at'[t] = "out" /\ wanted'[t] = <<>>  BY <1>0 DEF LocksInv, Locks!TypeOK
<1>3. Orderly(t)'
  <2>1. Len(<<>>) = 0 /\ \A i \in 1..0 : FALSE  OBVIOUS
  <2> QED  BY <1>0, <1>2, <2>1 DEF Orderly, NamesOnce, InUse
<1>4. \A u \in Tasks : Orderly(u)'  BY <1>0, <1>3, OthersStay DEF LocksInv, Locks!TypeOK
<1>5. Holding'  BY <1>0 DEF LocksInv, Holding
<1>6. \A u \in Tasks, f \in Locks!Entries : Locks!Using(u, f)' <=> Locks!Using(u, f)
  BY <1>0, <1>2 DEF Locks!Using, LocksInv, Locks!TypeOK
<1> QED  BY <1>0, <1>1, <1>4, <1>5, <1>6, UsersStay DEF LocksInv

LEMMA LocksStay ==
  ASSUME LocksInv, UNCHANGED lockVars, cancelled' \in [Tasks -> BOOLEAN]
  PROVE  LocksInv'
<1> USE DEF lockVars
<1>1. Locks!TypeOK'  BY DEF LocksInv, Locks!TypeOK
<1>2. \A u \in Tasks : Orderly(u)'  BY DEF LocksInv, Orderly
<1>3. Holding'  BY DEF LocksInv, Holding
<1>4. \A u \in Tasks, f \in Locks!Entries : Locks!Using(u, f)' <=> Locks!Using(u, f)
  BY DEF Locks!Using
<1>5. UNCHANGED <<current, references>>  OBVIOUS
<1> HIDE DEF lockVars
<1> QED  BY <1>1, <1>2, <1>3, <1>4, <1>5, UsersStay DEF LocksInv

-----------------------------------------------------------------------------
(* Both together.                                                           *)

CallsInv == GateInv /\ LocksInv

\* A step of the locks leaves the gate alone.
LEMMA LockSteps ==
  ASSUME CallsInv, NEW t \in Tasks, UNCHANGED gateVars,
         Locks!LockStep(t) \/ Locks!Release(t) \/ \E q \in KeyLists : Locks!Begin(t, q)
  PROVE  CallsInv' /\ Effects!KeepsOrder
<1>1. LocksInv'
  <2>1. CASE Locks!LockStep(t)
    BY <2>1, LockEnter, LockRequest, LockAcquired, LockWithdraw, LockLeave, LockUnwind, LockOut
       DEF CallsInv, Locks!LockStep
  <2>2. CASE Locks!Release(t)  BY <2>2, LockRelease DEF CallsInv
  <2>3. CASE \E q \in KeyLists : Locks!Begin(t, q)  BY <2>3, LockBegin DEF CallsInv
  <2> QED  BY <2>1, <2>2, <2>3
<1>2. cancelled' \in [Tasks -> BOOLEAN]  BY <1>1 DEF LocksInv, Locks!TypeOK
<1> QED  BY <1>1, <1>2, GateStays DEF CallsInv

\* And the other way about.
LEMMA GateSteps ==
  ASSUME CallsInv, NEW t \in Tasks, UNCHANGED lockVars,
         \/ \E r \in BOOLEAN : Effects!Enter(t, r) \/ Effects!Queue(t, r)
         \/ Effects!Wake(t) \/ Effects!Abandon(t) \/ Effects!Release(t) \/ Effects!Cancel(t)
  PROVE  CallsInv' /\ Effects!KeepsOrder
<1>1. GateInv' /\ Effects!KeepsOrder
  <2>1. CASE \E r \in BOOLEAN : Effects!Enter(t, r)  BY <2>1, GateEnter DEF CallsInv
  <2>2. CASE \E r \in BOOLEAN : Effects!Queue(t, r)  BY <2>2, GateQueue DEF CallsInv
  <2>3. CASE Effects!Wake(t)  BY <2>3, GateWake DEF CallsInv
  <2>4. CASE Effects!Abandon(t)  BY <2>4, GateAbandon DEF CallsInv
  <2>5. CASE Effects!Release(t)  BY <2>5, GateRelease DEF CallsInv
  <2>6. CASE Effects!Cancel(t)
    <3>1. UNCHANGED gateVars /\ cancelled' = [cancelled EXCEPT ![t] = TRUE]
      BY <2>6 DEF Effects!Cancel, Effects!gate, gateVars
    <3>2. cancelled' \in [Tasks -> BOOLEAN]  BY <3>1 DEF CallsInv, GateInv
    <3> QED  BY <3>1, <3>2, GateStays DEF CallsInv
  <2> QED  BY <2>1, <2>2, <2>3, <2>4, <2>5, <2>6
<1>2. cancelled' \in [Tasks -> BOOLEAN]  BY <1>1 DEF GateInv
<1> QED  BY <1>1, <1>2, LocksStay DEF CallsInv

LEMMA CallsStep == CallsInv /\ [CallsNext]_callVars => CallsInv' /\ (Effects!KeepsOrder \/ UNCHANGED callVars)
<1> SUFFICES ASSUME CallsInv, [CallsNext]_callVars
             PROVE  CallsInv' /\ (Effects!KeepsOrder \/ UNCHANGED callVars)
  OBVIOUS
<1>1. ASSUME NEW t \in Tasks, NEW r \in BOOLEAN, Arrive(t, r) PROVE CallsInv' /\ Effects!KeepsOrder
  BY <1>1, GateSteps DEF Arrive
<1>2. ASSUME NEW t \in Tasks, WakeUp(t) \/ Abandon(t) \/ Release(t) \/ CancelCall(t)
      PROVE  CallsInv' /\ Effects!KeepsOrder
  BY <1>2, GateSteps DEF WakeUp, Abandon, Release, CancelCall
<1>3. ASSUME NEW t \in Tasks, NEW q \in KeyLists, NEW b \in Bodies, Guard(t, q, b)
      PROVE  CallsInv' /\ Effects!KeepsOrder
  BY <1>3, LockSteps DEF Guard
<1>4. ASSUME NEW t \in Tasks, LockStep(t) PROVE CallsInv' /\ Effects!KeepsOrder
  BY <1>4, LockSteps DEF LockStep
<1>5. ASSUME NEW t \in Tasks, OwnEnds(t) \/ AwaitedRunEnds(t) \/ WaitTimesOut(t) \/ BodyCancelled(t)
      PROVE  CallsInv' /\ Effects!KeepsOrder
  <2>1. Locks!Release(t) /\ UNCHANGED gateVars
    BY <1>5 DEF OwnEnds, AwaitedRunEnds, WaitTimesOut, BodyCancelled, BodyEnds
  <2> QED  BY <2>1, LockSteps
<1>6. ASSUME NEW t \in Tasks, ChildRunEnds(t) PROVE CallsInv' /\ Effects!KeepsOrder
  <2>1. UNCHANGED gateVars /\ UNCHANGED lockVars /\ cancelled' = cancelled  BY <1>6 DEF ChildRunEnds
  <2>2. cancelled' \in [Tasks -> BOOLEAN]  BY <2>1 DEF CallsInv, GateInv
  <2> QED  BY <2>1, <2>2, GateStays, LocksStay DEF CallsInv
<1>7. CASE UNCHANGED callVars
  <2>1. UNCHANGED gateVars /\ UNCHANGED lockVars /\ cancelled' = cancelled  BY <1>7 DEF callVars
  <2>2. cancelled' \in [Tasks -> BOOLEAN]  BY <2>1 DEF CallsInv, GateInv
  <2> QED  BY <1>7, <2>1, <2>2, GateStays, LocksStay DEF CallsInv
<1> QED  BY <1>1, <1>2, <1>3, <1>4, <1>5, <1>6, <1>7 DEF CallsNext

\* The accounts of the gate and of the lock pool are true at every moment: who
\* waits is queued once or granted, the readers counted are the calls admitted, an
\* entry is referred to by those who use it and by nobody else, and a call holds
\* the lock of every entry it has got.
THEOREM AccountsAreTrue == CallsSpec => []CallsInv
<1>1. CallsInit => CallsInv  BY GateInit, LocksInit DEF CallsInv
<1>2. CallsInv /\ [CallsNext]_callVars => CallsInv'  BY CallsStep
<1> QED  BY <1>1, <1>2, PTL DEF CallsSpec

\* An effectful call is alone inside the gate, and two calls never hold one key,
\* for any number of calls and keys and any ceiling on readers.
THEOREM CallsAreExclusive == CallsSpec => []CallsExclude
<1>1. CallsInv => CallsExclude
  <2> SUFFICES ASSUME CallsInv PROVE CallsExclude  OBVIOUS
  <2>1. Effects!WriterExcludes
    <3>1. Effects!Admitted = Inside \cup granted  BY DEF Effects!Admitted, Inside
    <3>2. Alone(Inside \cup granted, read)  BY GateTypes, Fields DEF CallsInv, Sound
    <3> QED  BY <3>1, <3>2 DEF Alone, Effects!WriterExcludes
  <2>2. Locks!KeysExclude
    <3> SUFFICES ASSUME NEW t \in Tasks, NEW u \in Tasks, NEW k \in Locks!Keys,
                        NEW i \in 1..Len(keysHeld[t]), Locks!KeyOf(keysHeld[t][i]) = k,
                        NEW j \in 1..Len(keysHeld[u]), Locks!KeyOf(keysHeld[u][j]) = k
                 PROVE  t = u
      BY DEF Locks!KeysExclude, Locks!Holds
    <3>1. ASSUME NEW v \in Tasks, NEW l \in 1..Len(keysHeld[v]), Locks!KeyOf(keysHeld[v][l]) = k
          PROVE  keysHeld[v][l] = current[k]
      <4> DEFINE e == keysHeld[v][l]
      <4>1. e \in Locks!Entries  BY LockTypes DEF CallsInv
      <4>2. v \in Users(e)  BY DEF Users, Locks!Using
      <4>3. IsFiniteSet(Users(e)) /\ references[e] = Cardinality(Users(e)) /\ references[e] \in Nat
        BY <4>1, CallsAssumption, FS_Subset DEF Users, CallsInv, LocksInv, Locks!TypeOK
      <4>4. Cardinality(Users(e)) # 0  BY <4>2, <4>3, FS_EmptySet
      <4>5. references[e] > 0  BY <4>3, <4>4
      <4> QED  BY <3>1, <4>1, <4>5 DEF CallsInv, LocksInv
    <3>2. keysHeld[t][i] = keysHeld[u][j]  BY <3>1
    <3> QED  BY <3>2 DEF CallsInv, LocksInv, Holding
  <2> QED  BY <2>1, <2>2 DEF CallsExclude
<1> QED  BY <1>1, AccountsAreTrue, PTL

\* The gate admits in the order of its queue.
THEOREM FirstComeFirstAdmitted == CallsSpec => NoOvertaking
<1>1. CallsInv /\ [CallsNext]_callVars => [Effects!KeepsOrder]_callVars  BY CallsStep
<1> QED  BY <1>1, AccountsAreTrue, PTL DEF CallsSpec, NoOvertaking
=============================================================================

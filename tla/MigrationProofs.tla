-------------------------- MODULE MigrationProofs --------------------------
(***************************************************************************)
(* Proofs about Migration for every set of builds, however many connections*)
(* migrate at once and however often the process dies.                     *)
(*                                                                         *)
(* A migrator reads the history once and then works through its todo list; *)
(* what makes that safe is that until the process ends the history stays a *)
(* prefix of the list, that each migrator's list of steps left begins at or*)
(* before the end of that prefix, and that the key of the next step is free*)
(* only when it begins exactly there (Working).                            *)
(***************************************************************************)
EXTENDS Migration, FiniteSetTheorems, SequenceTheorems, WellFoundedInduction, TLAPS

-----------------------------------------------------------------------------
(* The inductive invariant.                                                 *)

\* A list of steps in the order of their versions.
Increasing(list) == \A i, j \in DOMAIN list : i < j => list[i].version < list[j].version

\* The sequence lists the set, each element once.
Enumerates(list, set) ==
    /\ list \in [1..Cardinality(set) -> set]
    /\ Increasing(list)
    /\ \A row \in set : \E i \in DOMAIN list : list[i] = row

HistorySound == IsFiniteSet(rows) /\ Enumerates(Ordered(rows), rows)

Begun == {"exists", "create", "read", "apply", "step", "commit", "verify", "Ok"}
Past == {"apply", "step", "commit", "verify", "Ok"}

\* A call that has read the history: the history is a prefix of the list, and the steps it
\* has left begin within that prefix or right after it.
InOrder(call, list, set) ==
    LET j == Len(list) - Len(call.todo)  \* the steps it no longer has before it
        n == Cardinality(set)
        done == call.applied IN
    /\ call.pc \in Begun => CheckVersions(list)
    /\ call.pc \in {"step", "commit"} => call.todo # <<>>
    /\ call.pc \in {"verify", "Ok"} => call.todo = <<>>
    /\ call.pc \in Past =>
        /\ j \in 0..n /\ n <= Len(list)
        /\ \A i \in 1..n : Ordered(set)[i] = list[i]
        /\ \A i \in 1..Len(call.todo) : call.todo[i] = list[j + i]
        /\ Len(done) <= j /\ \A i \in 1..Len(done) : done[i] = list[j - Len(done) + i].version
    /\ call.pc \in Begun \ Past => done = <<>>

Working(m) == InOrder(apply[m], steps, rows)

\* What a call has applied is recorded, and by no other call.
Claims(m) ==
    /\ \A i \in 1..Len(apply[m].applied) : \E row \in rows : row.version = apply[m].applied[i]
    /\ \A other \in Migrators \ {m} : Range(apply[m].applied) \cap Range(apply[other].applied) = {}

IInv ==
    /\ TypeOK
    /\ HistorySound
    /\ AppliedWhole
    /\ \A m \in Migrators : Working(m) /\ Claims(m)

-----------------------------------------------------------------------------
(* Lists in order.                                                          *)

\* The steps of every build are steps.
LEMMA AllStepsAreSteps == AllSteps \subseteq Step
<1>. SUFFICES ASSUME NEW list \in Lists, NEW s \in Range(list)
              PROVE  s \in Step
  BY DEF AllSteps
<1>1. list \in Seq(Step)
  BY ListsAssumption
<1>. QED
  BY <1>1, RangeOfSeq DEF Range

\* A map of 1..n is a list of n.
LEMMA TableIsList ==
    ASSUME NEW n \in Nat, NEW S, NEW a \in [1..n -> S]
    PROVE  a \in Seq(S) /\ Len(a) = n
<1>1. a \in Seq(S)
  OBVIOUS
<1>2. Len(a) \in Nat /\ DOMAIN a = 1..Len(a)
  BY <1>1, LenProperties
<1>. QED
  BY <1>1, <1>2

\* A set of numbers has a least one.
LEMMA Least ==
    ASSUME NEW T \in SUBSET Nat, T # {}
    PROVE  \E x \in T : \A y \in T : x <= y
<1>. DEFINE Less == {p \in Nat \X Nat : p[1] < p[2]}
<1>1. IsWellFoundedOn(Less, Nat)
  BY NatLessThanWellFounded DEF OpToRel
<1>2. PICK x \in T : \A y \in T : ~(<<y, x>> \in Less)
  BY <1>1, WFMin
<1>3. ASSUME NEW y \in T
      PROVE  x <= y
  <2>1. <<y, x>> \in Nat \X Nat /\ <<y, x>>[1] = y /\ <<y, x>>[2] = x
    OBVIOUS
  <2>2. ~(y < x)
    BY <1>2, <2>1
  <2>. QED
    BY <2>2
<1>. QED
  BY <1>3

\* check_versions compares neighbours; that orders the whole list.
LEMMA NeighboursOrder ==
    ASSUME NEW list \in Seq(Step), CheckVersions(list)
    PROVE  Increasing(list)
<1>0. Len(list) \in Nat /\ DOMAIN list = 1..Len(list) /\ \A i \in 1..Len(list) : list[i].version \in Nat
  <2>1. Len(list) \in Nat /\ DOMAIN list = 1..Len(list)
    BY LenProperties
  <2>2. \A i \in 1..Len(list) : list[i] \in Step
    BY ElementOfSeq
  <2>. QED
    BY <2>1, <2>2 DEF Step
<1>. SUFFICES ASSUME NEW i \in 1..Len(list), NEW j0 \in 1..Len(list), i < j0,
                     ~(list[i].version < list[j0].version)
              PROVE  FALSE
  BY <1>0 DEF Increasing
<1>. DEFINE T == {j \in 1..Len(list) : i < j /\ ~(list[i].version < list[j].version)}
<1>1. T \in SUBSET Nat /\ T # {}
  BY <1>0
<1>2. PICK j \in T : \A k \in T : j <= k
  BY <1>1, Least, Zenon
<1>3. j \in 1..Len(list) /\ i < j /\ ~(list[i].version < list[j].version)
  BY <1>2
<1>4. j - 1 \in 1..(Len(list) - 1) /\ list[j - 1].version < list[j].version
  <2>1. j - 1 \in 1..(Len(list) - 1) /\ (j - 1) + 1 = j
    BY <1>0, <1>3
  <2>. QED
    BY <2>1 DEF CheckVersions
<1>5. CASE j - 1 = i
  BY <1>3, <1>4, <1>5
<1>6. CASE j - 1 # i
  <2>1. j - 1 \in 1..Len(list) /\ i < j - 1 /\ ~(j <= j - 1)
    BY <1>0, <1>3, <1>6
  <2>2. list[i].version < list[j - 1].version
    BY <1>2, <2>1
  <2>. QED
    BY <1>0, <1>3, <1>4, <2>1, <2>2
<1>. QED
  BY <1>5, <1>6

\* A map of 1..n into itself that keeps the order is the identity.
LEMMA OrderedMapIsIdentity ==
    ASSUME NEW n \in Nat, NEW h \in [1..n -> 1..n],
           \A i, j \in 1..n : i < j => h[i] < h[j], NEW i \in 1..n
    PROVE  h[i] = i
<1>1. ASSUME NEW j \in 1..n, h[j] < j
      PROVE  FALSE
  <2>. DEFINE T == {k \in 1..n : h[k] < k}
  <2>1. T \in SUBSET Nat /\ T # {}
    BY <1>1
  <2>2. PICK k \in T : \A l \in T : k <= l
    BY <2>1, Least, Zenon
  <2>3. k \in 1..n /\ h[k] \in 1..n /\ h[k] < k
    BY <2>2
  <2>4. h[h[k]] < h[k]
    BY <2>3
  <2>. QED
    BY <2>2, <2>3, <2>4
<1>2. ASSUME NEW j \in 1..n, j < h[j]
      PROVE  FALSE
  <2>. DEFINE T == {l \in 0..n : n - l \in 1..n /\ n - l < h[n - l]}
  <2>1. T \in SUBSET Nat /\ n - j \in T
    BY <1>2
  <2>2. PICK l \in T : \A o \in T : l <= o
    BY <2>1, Least, Zenon
  <2>. DEFINE k == n - l
  <2>3. k \in 1..n /\ h[k] \in 1..n /\ k < h[k] /\ l = n - k
    BY <2>2
  <2>4. h[k] < h[h[k]]
    BY <2>3
  <2>. HIDE DEF k
  <2>5. n - h[k] \in 0..n /\ n - (n - h[k]) = h[k]
    BY <2>3
  <2>6. n - h[k] \in T
    BY <2>3, <2>4, <2>5
  <2>7. ~(l <= n - h[k])
    BY <2>3
  <2>. QED
    BY <2>2, <2>6, <2>7
<1>. QED
  BY <1>1, <1>2

\* ORDER BY "version" has one result.
LEMMA OneOrder ==
    ASSUME NEW S \in SUBSET Step, IsFiniteSet(S), NEW a, Enumerates(a, S)
    PROVE  Ordered(S) = a
<1>. DEFINE n == Cardinality(S)
            b == Ordered(S)
<1>1. n \in Nat
  BY FS_CardinalityType
<1>2. a \in [1..n -> S] /\ Increasing(a) /\ \A row \in S : \E i \in 1..n : a[i] = row
  BY DEF Enumerates
<1>3. b \in [1..n -> S] /\ Increasing(b)
  BY <1>2, Zenon DEF Ordered, Increasing
<1>. HIDE DEF n, b
<1>. DEFINE h == [i \in 1..n |-> CHOOSE j \in 1..n : a[j] = b[i]]
<1>4. \A i \in 1..n : h[i] \in 1..n /\ a[h[i]] = b[i]
  BY <1>2, <1>3
<1>5. h \in [1..n -> 1..n]
  BY <1>4
<1>. HIDE DEF h
<1>6. ASSUME NEW i \in 1..n, NEW j \in 1..n, i < j
      PROVE  h[i] < h[j]
  <2>1. b[i].version < b[j].version
    BY <1>3, <1>6 DEF Increasing
  <2>2. a[h[i]].version < a[h[j]].version
    BY <1>4, <2>1
  <2>3. h[i] # h[j] /\ ~(h[j] < h[i])
    <3>1. a[h[i]].version \in Nat /\ a[h[j]].version \in Nat
      BY <1>2, <1>4 DEF Step
    <3>2. ~(a[h[j]].version < a[h[i]].version) /\ a[h[i]].version # a[h[j]].version
      BY <2>2, <3>1
    <3>. QED
      BY <1>2, <1>4, <3>2 DEF Increasing
  <2>. QED
    BY <1>1, <1>4, <2>3
<1>7. \A i \in 1..n : h[i] = i
  BY <1>1, <1>5, <1>6, OrderedMapIsIdentity
<1>8. \A i \in 1..n : b[i] = a[i]
  BY <1>4, <1>7
<1>9. a = b
  <2>1. a = [i \in 1..n |-> a[i]] /\ b = [i \in 1..n |-> b[i]]
    BY <1>2, <1>3
  <2>. QED
    BY <1>8, <2>1
<1>. QED
  BY <1>9 DEF b

\* A step later than all that are recorded becomes the last of the history.
LEMMA RecordedLast ==
    ASSUME NEW S \in SUBSET Step, IsFiniteSet(S), Enumerates(Ordered(S), S), NEW s \in Step,
           \A row \in S : row.version < s.version
    PROVE  LET n == Cardinality(S)
               T == S \cup {s} IN
           /\ IsFiniteSet(T) /\ n \in Nat /\ Cardinality(T) = n + 1
           /\ Enumerates(Ordered(T), T)
           /\ \A i \in 1..n : Ordered(T)[i] = Ordered(S)[i]
           /\ Ordered(T)[n + 1] = s
<1>. DEFINE n == Cardinality(S)
            T == S \cup {s}
            a == Ordered(S)
            b == [i \in 1..(n + 1) |-> IF i = n + 1 THEN s ELSE a[i]]
<1>1. s \notin S
  BY DEF Step
<1>2. n \in Nat /\ IsFiniteSet(T) /\ Cardinality(T) = n + 1
  BY <1>1, FS_CardinalityType, FS_AddElement
<1>3. a \in [1..n -> S] /\ Increasing(a) /\ \A row \in S : \E i \in 1..n : a[i] = row
  BY DEF Enumerates
<1>. HIDE DEF n, a
<1>4. b \in [1..(n + 1) -> T] /\ b[n + 1] = s /\ \A i \in 1..n : b[i] = a[i]
  BY <1>2, <1>3
<1>. HIDE DEF b
<1>5. Increasing(b)
  <2>. SUFFICES ASSUME NEW i \in 1..(n + 1), NEW j \in 1..(n + 1), i < j
                PROVE  b[i].version < b[j].version
    BY <1>4 DEF Increasing
  <2>1. i \in 1..n
    BY <1>2
  <2>2. CASE j = n + 1
    BY <1>3, <1>4, <2>1, <2>2
  <2>3. CASE j # n + 1
    <3>1. j \in 1..n
      BY <1>2, <2>3
    <3>. QED
      BY <1>3, <1>4, <2>1, <3>1 DEF Increasing
  <2>. QED
    BY <2>2, <2>3
<1>6. \A row \in T : \E i \in 1..(n + 1) : b[i] = row
  <2>1. \A i \in 1..n : i \in 1..(n + 1)
    BY <1>2
  <2>2. n + 1 \in 1..(n + 1)
    BY <1>2
  <2>. QED
    BY <1>3, <1>4, <2>1, <2>2
<1>7. Enumerates(b, T)
  BY <1>2, <1>4, <1>5, <1>6 DEF Enumerates
<1>8. Ordered(T) = b
  BY <1>2, <1>7, OneOrder
<1>. QED
  BY <1>2, <1>4, <1>7, <1>8 DEF n, a

\* The statements of the first n steps fill the first n blocks.
LEMMA Block ==
    ASSUME NEW n \in Nat, NEW size \in Nat, NEW i \in 1..n, NEW k \in 1..size
    PROVE  (i - 1) * size + k \in 1..(n * size)
<1>. DEFINE before == (i - 1) * size
            after == (n - i) * size
<1>1. before \in Nat /\ after \in Nat
  <2>1. i - 1 \in Nat /\ n - i \in Nat
    OBVIOUS
  <2>2. \A x, y \in Nat : x * y \in Nat
    OBVIOUS
  <2>. QED
    BY <2>1, <2>2
<1>2. n * size = before + size + after
  OBVIOUS
<1>. HIDE DEF before, after
<1>3. n * size \in Nat /\ before + k \in 1..(n * size)
  BY <1>1, <1>2
<1>. QED
  BY <1>3 DEF before

\* A step committed after the others leaves a database on which every step ran whole.
LEMMA WholeAfterCommit ==
    ASSUME TypeOK, HistorySound, AppliedWhole, NEW s \in AllSteps,
           \A row \in rows : row.version < s.version,
           rows' = rows \cup {s}, effects' = effects \o Work(s)
    PROVE  /\ rows' \subseteq AllSteps /\ effects' \in Seq(AllSteps \X (1..Statements))
           /\ HistorySound' /\ AppliedWhole'
           /\ Cardinality(rows) \in Nat /\ Cardinality(rows') = Cardinality(rows) + 1
           /\ \A i \in 1..Cardinality(rows) : Ordered(rows')[i] = Ordered(rows)[i]
           /\ Ordered(rows')[Cardinality(rows) + 1] = s
<1>. DEFINE n == Cardinality(rows)
            a == Ordered(rows)
            b == Ordered(rows')
<1>1. AllSteps \subseteq Step
  BY AllStepsAreSteps
<1>2. /\ IsFiniteSet(rows') /\ n \in Nat /\ Cardinality(rows') = n + 1
      /\ Enumerates(b, rows') /\ b[n + 1] = s
      /\ \A i \in 1..n : b[i] = a[i]
  <2>1. rows \in SUBSET Step /\ s \in Step /\ IsFiniteSet(rows) /\ Enumerates(a, rows)
    BY <1>1 DEF TypeOK, HistorySound
  <2>. QED
    BY <2>1, RecordedLast
<1>3. a \in [1..n -> rows] /\ b \in [1..(n + 1) -> rows']
  BY <1>2 DEF HistorySound, Enumerates
<1>4. Len(a) = n /\ DOMAIN a = 1..n /\ Len(b) = n + 1 /\ DOMAIN b = 1..(n + 1)
  <2>1. a \in Seq(rows) /\ Len(a) = n
    BY <1>2, <1>3, TableIsList
  <2>2. b \in Seq(rows') /\ Len(b) = n + 1
    <3>1. n + 1 \in Nat
      BY <1>2
    <3>. HIDE DEF n, b
    <3>. QED
      BY <1>3, <3>1, TableIsList
  <2>. QED
    BY <1>3, <2>1, <2>2
<1>5. Statements \in Nat /\ Statements # 0
  BY ListsAssumption
<1>. HIDE DEF n, a, b
<1>6. Work(s) \in Seq(AllSteps \X (1..Statements)) /\ Len(Work(s)) = Statements
      /\ \A k \in 1..Statements : Work(s)[k] = <<s, k>>
  BY <1>5 DEF Work
<1>7. /\ effects \in Seq(AllSteps \X (1..Statements)) /\ Len(effects) = n * Statements
      /\ \A i \in 1..n, k \in 1..Statements : effects[(i - 1) * Statements + k] = Work(a[i])[k]
  BY <1>4 DEF TypeOK, AppliedWhole, a
<1>8. n * Statements \in Nat /\ (n + 1) * Statements = n * Statements + Statements
  BY <1>2, <1>5
<1>9. /\ effects' \in Seq(AllSteps \X (1..Statements))
      /\ Len(effects') = (n + 1) * Statements
      /\ \A p \in 1..(n * Statements) : effects'[p] = effects[p]
      /\ \A k \in 1..Statements : effects'[n * Statements + k] = <<s, k>>
  <2>. DEFINE D == AllSteps \X (1..Statements)
              w == Work(s)
              l == n * Statements
  <2>1. effects \in Seq(D) /\ w \in Seq(D) /\ Len(effects) = l /\ Len(w) = Statements
    BY <1>6, <1>7
  <2>. HIDE DEF D, w, l
  <2>2. /\ effects \o w \in Seq(D) /\ Len(effects \o w) = l + Statements
        /\ \A p \in 1..(l + Statements) :
              (effects \o w)[p] = IF p <= l THEN effects[p] ELSE w[p - l]
    BY <2>1, ConcatProperties
  <2>3. l \in Nat
    BY <1>8 DEF l
  <2>4. \A p \in 1..l : (effects \o w)[p] = effects[p]
    BY <1>5, <2>2, <2>3
  <2>5. \A k \in 1..Statements : (effects \o w)[l + k] = w[k]
    <3>. TAKE k \in 1..Statements
    <3>1. l + k \in 1..(l + Statements) /\ ~(l + k <= l) /\ (l + k) - l = k
      BY <1>5, <2>3
    <3>. QED
      BY <2>2, <3>1
  <2>6. effects' = effects \o w
    BY DEF w
  <2>. QED
    BY <1>6, <1>8, <2>2, <2>4, <2>5, <2>6 DEF D, w, l
<1>10. ASSUME NEW i \in 1..(n + 1), NEW k \in 1..Statements
       PROVE  effects'[(i - 1) * Statements + k] = Work(b[i])[k]
  <2>1. CASE i = n + 1
    <3>1. i - 1 = n
      BY <1>2, <2>1
    <3>2. Work(b[i])[k] = <<s, k>>
      BY <1>2, <1>6, <2>1 DEF n, b
    <3>. QED
      BY <1>9, <3>1, <3>2
  <2>2. CASE i # n + 1
    <3>1. i \in 1..n
      BY <1>2, <2>2
    <3>2. (i - 1) * Statements + k \in 1..(n * Statements)
      BY <1>2, <1>5, <3>1, Block
    <3>3. effects'[(i - 1) * Statements + k] = effects[(i - 1) * Statements + k]
      BY <1>9, <3>2
    <3>. QED
      BY <1>2, <1>7, <3>1, <3>3 DEF n, a, b
  <2>. QED
    BY <2>1, <2>2
<1>11. AppliedWhole'
  BY <1>4, <1>9, <1>10 DEF AppliedWhole, b, Work
<1>12. HistorySound'
  BY <1>2 DEF HistorySound, b
<1>13. rows' \subseteq AllSteps
  BY DEF TypeOK
<1>. QED
  BY <1>2, <1>9, <1>11, <1>12, <1>13 DEF n, a, b

-----------------------------------------------------------------------------
(* Every step keeps the invariant.                                          *)

\* A fresh database: no history, and nobody has begun.
LEMMA InitEstablishes == Init => IInv
<1>. SUFFICES ASSUME Init
              PROVE  IInv
  OBVIOUS
<1>1. IsFiniteSet(rows) /\ Cardinality(rows) = 0
  BY FS_EmptySet DEF Init
<1>2. Enumerates(<<>>, rows)
  <2>1. <<>> \in [1..0 -> rows] /\ DOMAIN <<>> = {}
    OBVIOUS
  <2>2. Increasing(<<>>)
    BY <2>1 DEF Increasing
  <2>. QED
    BY <1>1, <2>1, <2>2 DEF Enumerates, Init
<1>3. Ordered(rows) = <<>>
  <2>1. rows \in SUBSET Step
    BY DEF Init
  <2>. QED
    BY <1>1, <1>2, <2>1, OneOrder
<1>4. HistorySound
  BY <1>1, <1>2, <1>3 DEF HistorySound
<1>5. AppliedWhole
  <2>1. Len(<<>>) = 0 /\ DOMAIN <<>> = {} /\ 0 * Statements = 0
    BY ListsAssumption
  <2>. QED
    BY <1>3, <2>1 DEF AppliedWhole, Init
<1>6. NoCall \in Call /\ NoCall.pc = "idle" /\ NoCall.applied = <<>>
  BY ListsAssumption DEF NoCall, Call
<1>7. TypeOK
  <2>1. effects \in Seq(AllSteps \X (1..Statements))
    BY EmptySeq DEF Init
  <2>2. apply \in [Migrators -> Call]
    BY <1>6 DEF Init
  <2>. QED
    BY <2>1, <2>2, ListsAssumption DEF TypeOK, Init
<1>8. ASSUME NEW m \in Migrators
      PROVE  Working(m) /\ Claims(m)
  <2>1. apply[m].pc = "idle" /\ \A o \in Migrators : apply[o].applied = <<>>
    BY <1>6 DEF Init
  <2>2. Working(m)
    BY <2>1 DEF Working, InOrder, Begun, Past
  <2>3. Len(<<>>) = 0 /\ Range(<<>>) = {}
    BY DEF Range
  <2>. QED
    BY <2>1, <2>2, <2>3 DEF Claims
<1>. QED
  BY <1>4, <1>5, <1>7, <1>8 DEF IInv

\* A step that changes one migrator's call, and not the database, keeps the invariant when
\* that call is in order.
LEMMA OneCallMoves ==
    ASSUME IInv, NEW m \in Migrators, NEW c \in Call,
           apply' = [apply EXCEPT ![m] = c], UNCHANGED <<steps, rows, effects>>,
           table' \in BOOLEAN, c.applied \in {<<>>, apply[m].applied}, Working(m)'
    PROVE  IInv'
<1>1. TypeOK'
  BY DEF IInv, TypeOK
<1>2. HistorySound' /\ AppliedWhole'
  BY DEF IInv, HistorySound, AppliedWhole
<1>3. apply'[m] = c /\ \A o \in Migrators \ {m} : apply'[o] = apply[o]
  BY DEF IInv, TypeOK
<1>4. ASSUME NEW o \in Migrators \ {m}
      PROVE  Working(o)'
  <2>1. apply'[o] = apply[o] /\ Working(o) /\ rows' = rows /\ steps' = steps
    BY <1>3 DEF IInv
  <2>. QED
    BY <2>1 DEF Working
<1>5. \A o \in Migrators : apply'[o].applied \in {<<>>, apply[o].applied}
  BY <1>3
<1>6. ASSUME NEW o \in Migrators
      PROVE  Claims(o)'
  <2>1. Len(<<>>) = 0 /\ Range(<<>>) = {}
    BY DEF Range
  <2>2. \A i \in 1..Len(apply'[o].applied) : \E row \in rows' : row.version = apply'[o].applied[i]
    <3>1. CASE apply'[o].applied = <<>>
      BY <2>1, <3>1
    <3>2. CASE apply'[o].applied = apply[o].applied
      BY <3>2 DEF IInv, Claims
    <3>. QED
      BY <1>5, <3>1, <3>2
  <2>3. \A other \in Migrators \ {o} :
            Range(apply'[o].applied) \cap Range(apply'[other].applied) = {}
    <3>1. \A x \in Migrators : Range(apply'[x].applied) \subseteq Range(apply[x].applied)
      BY <1>5, <2>1
    <3>2. \A other \in Migrators \ {o} :
            Range(apply[o].applied) \cap Range(apply[other].applied) = {}
      BY DEF IInv, Claims
    <3>. QED
      BY <3>1, <3>2
  <2>. QED
    BY <2>2, <2>3 DEF Claims
<1>. QED
  BY <1>1, <1>2, <1>4, <1>6 DEF IInv

\* The same for a step that only moves the call on: it may not enter the work, nor a phase
\* of it, that it was not ready for.
LEMMA PcMoves ==
    ASSUME IInv, NEW m \in Migrators, NEW pc, Goto(m, pc), UNCHANGED <<steps, rows, effects>>,
           table' \in BOOLEAN,
           pc \in Begun \cup {"Error", "Mismatch"},
           pc \in Begun => apply[m].pc \in Begun,
           pc \in Past <=> pc \in Begun /\ apply[m].pc \in Past,
           pc \in {"step", "commit"} => apply[m].todo # <<>>,
           pc \in {"verify", "Ok"} => apply[m].todo = <<>>
    PROVE  IInv'
<1>. DEFINE c == [apply[m] EXCEPT !.pc = pc]
<1>1. apply[m] \in Call
  BY DEF IInv, TypeOK
<1>2. c \in Call /\ c.pc = pc /\ c.todo = apply[m].todo /\ c.applied = apply[m].applied
  BY <1>1 DEF Call, Begun
<1>3. apply' = [apply EXCEPT ![m] = c]
  BY DEF Goto
<1>. HIDE DEF c
<1>4. apply'[m] = c /\ steps' = steps /\ rows' = rows
  BY <1>3 DEF IInv, TypeOK
<1>5. Working(m)'
  <2>1. Working(m)
    BY DEF IInv
  <2>2. pc \in Begun => CheckVersions(steps)
    BY <2>1 DEF Working, InOrder
  <2>3. pc \in Begun \ Past => apply[m].applied = <<>>
    BY <2>1 DEF Working, InOrder
  <2>4. InOrder(c, steps, rows)
    BY <1>2, <2>1, <2>2, <2>3 DEF Working, InOrder, Begun, Past
  <2>. QED
    BY <1>4, <2>4 DEF Working
<1>. QED
  BY <1>2, <1>3, <1>5, OneCallMoves

\* A call may end in an error at any point.
LEMMA FailKeeps ==
    ASSUME IInv, NEW m \in Migrators, Fail(m), UNCHANGED steps
    PROVE  IInv'
<1>1. Goto(m, "Error") /\ UNCHANGED <<steps, rows, effects>> /\ table' \in BOOLEAN
  BY DEF Fail, IInv, TypeOK
<1>. QED
  BY <1>1, PcMoves DEF Begun, Past

\* A call begins: the list it is given is checked before anything is read.
LEMMA ApplyKeeps ==
    ASSUME IInv, NEW m \in Migrators, Apply(m)
    PROVE  IInv'
<1>. DEFINE c == [NoCall EXCEPT !.pc = IF CheckVersions(steps) THEN "exists" ELSE "Invalid"]
<1>1. c \in Call /\ c.applied = <<>> /\ c.pc = IF CheckVersions(steps) THEN "exists" ELSE "Invalid"
  <2>1. /\ c.pc = IF CheckVersions(steps) THEN "exists" ELSE "Invalid"
        /\ c.pc \in {"exists", "Invalid"} /\ c.todo = <<>> /\ c.applied = <<>> /\ c.did = 0
        /\ c = [pc |-> c.pc, todo |-> c.todo, applied |-> c.applied, did |-> c.did]
    BY DEF NoCall
  <2>2. <<>> \in Seq(AllSteps) /\ <<>> \in Seq(Nat) /\ 0 \in 0..Statements
    BY EmptySeq, ListsAssumption
  <2>. HIDE DEF c
  <2>. QED
    BY <2>1, <2>2 DEF Call
<1>2. apply' = [apply EXCEPT ![m] = c] /\ UNCHANGED <<steps, rows, effects>> /\ table' \in BOOLEAN
  BY DEF Apply, IInv, TypeOK
<1>. HIDE DEF c
<1>3. apply'[m] = c
  BY <1>2 DEF IInv, TypeOK
<1>4. Working(m)'
  <2>1. InOrder(c, steps, rows)
    BY <1>1 DEF InOrder, Begun, Past
  <2>. QED
    BY <1>2, <1>3, <2>1 DEF Working
<1>. QED
  BY <1>1, <1>2, <1>4, OneCallMoves

\* The history table is looked for: the connection learns whether it is there.
LEMMA HistoryExistsKeeps ==
    ASSUME IInv, NEW m \in Migrators, HistoryExists(m)
    PROVE  IInv'
<1>1. CASE Fail(m)
  BY <1>1, FailKeeps DEF HistoryExists
<1>2. CASE Goto(m, IF table THEN "read" ELSE "create") /\ UNCHANGED <<table, rows, effects>>
  <2>1. apply[m].pc = "exists" /\ UNCHANGED <<steps, rows, effects>> /\ table' \in BOOLEAN
    BY <1>2 DEF HistoryExists, IInv, TypeOK
  <2>2. CASE table
    <3>1. Goto(m, "read")
      BY <1>2, <2>2
    <3>. QED
      BY <2>1, <3>1, PcMoves DEF Begun, Past
  <2>3. CASE ~table
    <3>1. Goto(m, "create")
      BY <1>2, <2>3
    <3>. QED
      BY <2>1, <3>1, PcMoves DEF Begun, Past
  <2>. QED
    BY <2>2, <2>3
<1>. QED
  BY <1>1, <1>2 DEF HistoryExists

\* The history table is created, or that fails.
LEMMA CreateHistoryKeeps ==
    ASSUME IInv, NEW m \in Migrators, CreateHistory(m)
    PROVE  IInv'
<1>1. CASE Fail(m)
  BY <1>1, FailKeeps DEF CreateHistory
<1>2. CASE Goto(m, "read") /\ table' = TRUE /\ UNCHANGED <<rows, effects>>
  <2>1. apply[m].pc = "create" /\ UNCHANGED <<steps, rows, effects>> /\ table' \in BOOLEAN
    BY <1>2 DEF CreateHistory
  <2>. QED
    BY <1>2, <2>1, PcMoves DEF Begun, Past
<1>. QED
  BY <1>1, <1>2 DEF CreateHistory

\* pending leaves exactly the steps after a history that is a prefix of the list.
LEMMA ReadHistoryKeeps ==
    ASSUME IInv, NEW m \in Migrators, ReadHistory(m)
    PROVE  IInv'
<1>. DEFINE a == Ordered(rows)
            n == Cardinality(rows)
<1>0. /\ apply[m].pc = "read" /\ UNCHANGED steps /\ Working(m) /\ apply[m] \in Call
      /\ steps \in Seq(AllSteps)
  <2>1. steps \in Lists /\ steps \in Seq(Step)
    BY ListsAssumption DEF IInv, TypeOK
  <2>2. Range(steps) \subseteq AllSteps
    BY <2>1, Zenon DEF AllSteps
  <2>3. steps \in Seq(AllSteps)
    BY <2>1, <2>2, SeqOfRange, SeqMonotonic
  <2>. QED
    BY <2>3 DEF ReadHistory, IInv, TypeOK
<1>1. CASE Fail(m)
  BY <1>0, <1>1, FailKeeps
<1>2. CASE Goto(m, "Mismatch") /\ UNCHANGED <<table, rows, effects>>
  <2>1. table' \in BOOLEAN
    BY <1>2 DEF IInv, TypeOK
  <2>. QED
    BY <1>0, <1>2, <2>1, PcMoves DEF Begun, Past
<1>3. ASSUME NEW todo \in Pending(steps, a),
             apply' = [apply EXCEPT ![m].pc = "apply", ![m].todo = todo],
             UNCHANGED <<table, rows, effects>>
      PROVE  IInv'
  <2>1. a \in [1..n -> rows] /\ n \in Nat /\ Len(a) = n
    <3>1. a \in [1..n -> rows] /\ n \in Nat
      BY FS_CardinalityType DEF IInv, HistorySound, Enumerates
    <3>. QED
      BY <3>1, TableIsList
  <2>2. Len(steps) \in Nat /\ DOMAIN steps = 1..Len(steps)
    BY <1>0, LenProperties
  <2>. HIDE DEF a, n
  <2>3. /\ \A i \in 1..n : i \in 1..Len(steps) /\ steps[i] = a[i]
        /\ todo = SubSeq(steps, n + 1, Len(steps))
    BY <1>3, <2>1, <2>2 DEF Pending
  <2>4. n <= Len(steps)
    <3>1. CASE n = 0
      BY <2>2, <3>1
    <3>2. CASE n # 0
      BY <2>1, <2>2, <2>3, <3>2
    <3>. QED
      BY <3>1, <3>2
  <2>5. /\ todo \in Seq(AllSteps) /\ Len(todo) = Len(steps) - n
        /\ \A i \in 1..Len(todo) : todo[i] = steps[n + i]
    <3>1. /\ n + 1 \in Int /\ Len(steps) \in Int
          /\ \A i \in (n + 1)..Len(steps) : steps[i] \in AllSteps
      <4>1. \A i \in (n + 1)..Len(steps) : i \in 1..Len(steps)
        BY <2>1, <2>2
      <4>. QED
        BY <1>0, <2>1, <2>2, <4>1, ElementOfSeq
    <3>2. /\ todo \in Seq(AllSteps)
          /\ Len(todo) = IF n + 1 <= Len(steps) THEN Len(steps) - (n + 1) + 1 ELSE 0
          /\ \A i \in 1..(Len(steps) - (n + 1) + 1) : todo[i] = steps[(n + 1) + i - 1]
      BY <2>3, <3>1, SubSeqProperties
    <3>3. Len(todo) = Len(steps) - n /\ Len(steps) - (n + 1) + 1 = Len(steps) - n
      <4>. DEFINE l == Len(steps)
                  k == Len(todo)
      <4>1. n \in Nat /\ l \in Nat /\ n <= l /\ k = IF n + 1 <= l THEN l - (n + 1) + 1 ELSE 0
        BY <2>1, <2>2, <2>4, <3>2
      <4>. HIDE DEF l, k
      <4>2. k = l - n /\ l - (n + 1) + 1 = l - n
        BY <4>1
      <4>. QED
        BY <4>2 DEF l, k
    <3>4. \A i \in 1..Len(todo) : (n + 1) + i - 1 = n + i
      BY <2>1, <3>3
    <3>. QED
      BY <3>2, <3>3, <3>4
  <2>. DEFINE c == [apply[m] EXCEPT !.pc = "apply", !.todo = todo]
  <2>6. c \in Call /\ c.pc = "apply" /\ c.todo = todo /\ c.applied = apply[m].applied
    BY <1>0, <2>5 DEF Call
  <2>7. apply' = [apply EXCEPT ![m] = c]
    BY <1>3
  <2>8. CheckVersions(steps) /\ apply[m].applied = <<>>
    BY <1>0 DEF Working, InOrder, Begun, Past
  <2>. HIDE DEF c
  <2>9. InOrder(c, steps, rows)
    <3>1. Len(steps) - Len(c.todo) = n /\ n \in 0..n /\ Len(c.applied) = 0 /\ 0 <= n
      <4>. DEFINE all == Len(steps)
                  left == Len(c.todo)
      <4>1. left = all - n /\ all \in Nat /\ n \in Nat
        BY <2>1, <2>2, <2>5, <2>6
      <4>2. Len(c.applied) = 0
        BY <2>6, <2>8
      <4>. HIDE DEF all, left
      <4>3. all - left = n /\ n \in 0..n /\ 0 <= n
        BY <4>1
      <4>. QED
        BY <4>2, <4>3 DEF all, left
    <3>2. \A i \in 1..n : Ordered(rows)[i] = steps[i]
      BY <2>3 DEF a
    <3>3. \A i \in 1..Len(c.todo) : c.todo[i] = steps[n + i]
      BY <2>5, <2>6
    <3>4. c.pc \in Begun /\ c.pc \in Past /\ c.pc \notin {"step", "commit", "verify", "Ok"}
      BY <2>6 DEF Begun, Past
    <3>5. \A i \in 1..Len(c.applied) : FALSE
      BY <3>1
    <3>6. n = Cardinality(rows)
      BY DEF n
    <3>. QED
      BY <2>4, <2>8, <3>1, <3>2, <3>3, <3>4, <3>5, <3>6 DEF InOrder
  <2>10. Working(m)'
    <3>1. apply'[m] = c
      BY <2>7 DEF IInv, TypeOK
    <3>. QED
      BY <1>0, <1>3, <2>9, <3>1 DEF Working
  <2>11. table' \in BOOLEAN
    BY <1>3 DEF IInv, TypeOK
  <2>. QED
    BY <1>0, <1>3, <2>6, <2>7, <2>10, <2>11, OneCallMoves
<1>4. \/ Fail(m)
      \/ Goto(m, "Mismatch") /\ UNCHANGED <<table, rows, effects>>
      \/ /\ \E todo \in Pending(steps, a) :
              apply' = [apply EXCEPT ![m].pc = "apply", ![m].todo = todo]
         /\ UNCHANGED <<table, rows, effects>>
  BY DEF ReadHistory
<1>. QED
  BY <1>1, <1>2, <1>3, <1>4

\* One turn of the loop over the list: skip, mismatch, begin a step, or end.
LEMMA ApplyAllKeeps ==
    ASSUME IInv, NEW m \in Migrators, ApplyAll(m)
    PROVE  IInv'
<1>1. apply[m].pc = "apply" /\ UNCHANGED steps /\ Working(m) /\ apply[m] \in Call
  BY DEF ApplyAll, IInv, TypeOK
<1>2. CASE Fail(m)
  BY <1>1, <1>2, FailKeeps
<1>3. CASE apply[m].todo = <<>> /\ Goto(m, "verify") /\ UNCHANGED <<table, rows, effects>>
  <2>1. table' \in BOOLEAN
    BY <1>3 DEF IInv, TypeOK
  <2>. QED
    BY <1>1, <1>3, <2>1, PcMoves DEF Begun, Past
<1>4. CASE /\ apply[m].todo # <<>> /\ UNCHANGED <<table, rows, effects>>
           /\ apply' = [apply EXCEPT ![m].pc = "step", ![m].did = 0]
  <2>. DEFINE c == [apply[m] EXCEPT !.pc = "step", !.did = 0]
  <2>0. 0 \in 0..Statements
    BY ListsAssumption
  <2>1. c \in Call /\ c.pc = "step" /\ c.todo = apply[m].todo /\ c.applied = apply[m].applied
    BY <1>1, <2>0 DEF Call
  <2>2. apply' = [apply EXCEPT ![m] = c]
    BY <1>4
  <2>. HIDE DEF c
  <2>3. InOrder(c, steps, rows)
    BY <1>1, <1>4, <2>1 DEF Working, InOrder, Begun, Past
  <2>4. Working(m)'
    <3>1. apply'[m] = c
      BY <2>2 DEF IInv, TypeOK
    <3>. QED
      BY <1>1, <1>4, <2>3, <3>1 DEF Working
  <2>5. table' \in BOOLEAN
    BY <1>4 DEF IInv, TypeOK
  <2>. QED
    BY <1>1, <1>4, <2>1, <2>2, <2>4, <2>5, OneCallMoves
<1>. QED
  BY <1>2, <1>3, <1>4 DEF ApplyAll

\* A statement of a step runs inside the open transaction, or fails.
LEMMA RunStatementKeeps ==
    ASSUME IInv, NEW m \in Migrators, RunStatement(m)
    PROVE  IInv'
<1>1. /\ apply[m].pc = "step" /\ UNCHANGED steps /\ Working(m) /\ apply[m] \in Call
      /\ apply[m].did < Statements
  BY DEF RunStatement, IInv, TypeOK
<1>2. CASE Fail(m)
  BY <1>1, <1>2, FailKeeps
<1>3. CASE /\ apply' = [apply EXCEPT ![m].did = @ + 1] /\ UNCHANGED <<table, rows, effects>>
  <2>. DEFINE c == [apply[m] EXCEPT !.did = @ + 1]
  <2>0. apply[m].did + 1 \in 0..Statements
    BY <1>1, ListsAssumption DEF Call
  <2>1. c \in Call /\ c.pc = "step" /\ c.todo = apply[m].todo /\ c.applied = apply[m].applied
    BY <1>1, <2>0 DEF Call
  <2>2. apply' = [apply EXCEPT ![m] = c]
    BY <1>3
  <2>. HIDE DEF c
  <2>3. InOrder(c, steps, rows)
    BY <1>1, <2>1 DEF Working, InOrder
  <2>4. Working(m)'
    <3>1. apply'[m] = c
      BY <2>2 DEF IInv, TypeOK
    <3>. QED
      BY <1>1, <1>3, <2>3, <3>1 DEF Working
  <2>5. table' \in BOOLEAN
    BY <1>3 DEF IInv, TypeOK
  <2>. QED
    BY <1>1, <1>3, <2>1, <2>2, <2>4, <2>5, OneCallMoves
<1>. QED
  BY <1>2, <1>3 DEF RunStatement

\* The step's row is inserted into the history, which fails when its version is taken.
LEMMA RecordKeeps ==
    ASSUME IInv, NEW m \in Migrators, Record(m)
    PROVE  IInv'
<1>1. CASE Fail(m)
  BY <1>1, FailKeeps DEF Record
<1>2. CASE Goto(m, "commit") /\ UNCHANGED <<table, rows, effects>>
  <2>1. apply[m].pc = "step" /\ UNCHANGED steps /\ table' \in BOOLEAN /\ Working(m)
    BY <1>2 DEF Record, IInv, TypeOK
  <2>2. apply[m].todo # <<>>
    BY <2>1 DEF Working, InOrder
  <2>. QED
    BY <1>2, <2>1, <2>2, PcMoves DEF Begun, Past
<1>. QED
  BY <1>1, <1>2 DEF Record

\* The tables are verified at the end, or that fails.
LEMMA VerifyKeeps ==
    ASSUME IInv, NEW m \in Migrators, Verify(m)
    PROVE  IInv'
<1>1. CASE Fail(m)
  BY <1>1, FailKeeps DEF Verify
<1>2. CASE Goto(m, "Ok") /\ UNCHANGED <<table, rows, effects>>
  <2>1. apply[m].pc = "verify" /\ UNCHANGED steps /\ table' \in BOOLEAN /\ Working(m)
    BY <1>2 DEF Verify, IInv, TypeOK
  <2>2. apply[m].todo = <<>>
    BY <2>1 DEF Working, InOrder
  <2>. QED
    BY <1>2, <2>1, <2>2, PcMoves DEF Begun, Past
<1>. QED
  BY <1>1, <1>2 DEF Verify

\* The process ends: what is durable stays, and nobody has begun.
LEMMA RestartKeeps ==
    ASSUME IInv, Restart
    PROVE  IInv'
<1>1. NoCall \in Call /\ NoCall.pc = "idle" /\ NoCall.applied = <<>>
  BY ListsAssumption DEF NoCall, Call
<1>2. TypeOK'
  BY <1>1 DEF IInv, TypeOK, Restart
<1>3. HistorySound' /\ AppliedWhole'
  BY DEF IInv, HistorySound, AppliedWhole, Restart
<1>4. ASSUME NEW m \in Migrators
      PROVE  Working(m)' /\ Claims(m)'
  <2>1. apply'[m] = NoCall /\ \A o \in Migrators : apply'[o].applied = <<>>
    BY <1>1 DEF Restart
  <2>2. Working(m)'
    BY <1>1, <2>1 DEF Working, InOrder, Begun, Past
  <2>3. Len(<<>>) = 0 /\ Range(<<>>) = {}
    BY DEF Range
  <2>. QED
    BY <2>1, <2>2, <2>3 DEF Claims
<1>. QED
  BY <1>2, <1>3, <1>4 DEF IInv

\* The key of a step is free only for the migrator whose next step is the first one that is
\* not recorded: everyone else finds the key committed.
LEMMA NextInLine ==
    ASSUME IInv, NEW m \in Migrators, apply[m].pc = "commit", KeyFree(Head(apply[m].todo))
    PROVE  LET n == Cardinality(rows)
               s == Head(apply[m].todo) IN
           /\ n \in Nat /\ Len(steps) \in Nat /\ n + 1 <= Len(steps)
           /\ Len(steps) - Len(apply[m].todo) = n
           /\ s = steps[n + 1] /\ s \in AllSteps
           /\ \A row \in rows : row.version < s.version
<1>. DEFINE n == Cardinality(rows)
            todo == apply[m].todo
            s == Head(todo)
            j == Len(steps) - Len(todo)
            a == Ordered(rows)
<1>1. /\ CheckVersions(steps) /\ todo # <<>> /\ j \in 0..n /\ n <= Len(steps)
      /\ \A i \in 1..n : a[i] = steps[i]
      /\ \A i \in 1..Len(todo) : todo[i] = steps[j + i]
  <2>1. InOrder(apply[m], steps, rows)
    BY DEF IInv, Working
  <2>. QED
    BY <2>1 DEF InOrder, Begun, Past
<1>2. n \in Nat /\ a \in [1..n -> rows] /\ \A row \in rows : \E i \in 1..n : a[i] = row
  BY FS_CardinalityType DEF IInv, HistorySound, Enumerates
<1>3. steps \in Seq(Step) /\ Len(steps) \in Nat
  <2>1. steps \in Seq(Step)
    BY ListsAssumption DEF IInv, TypeOK
  <2>. QED
    BY <2>1, LenProperties
<1>4. todo \in Seq(AllSteps) /\ Len(todo) \in Nat \ {0} /\ s \in AllSteps /\ s = todo[1]
  <2>1. todo \in Seq(AllSteps)
    BY DEF IInv, TypeOK, Call
  <2>2. Len(todo) \in Nat \ {0} /\ Head(todo) = todo[1]
    BY <1>1, <2>1, EmptySeq
  <2>. QED
    BY <1>1, <2>1, <2>2, HeadTailProperties
<1>. HIDE DEF n, todo, j, a
<1>5. s = steps[j + 1] /\ j + 1 <= Len(steps)
  <2>1. j + 1 <= Len(steps)
    BY <1>3, <1>4 DEF j
  <2>2. 1 \in 1..Len(todo)
    BY <1>4
  <2>. QED
    BY <1>1, <1>4, <2>1, <2>2
<1>6. j = n
  <2>. SUFFICES ASSUME j # n
                PROVE  FALSE
    OBVIOUS
  <2>1. j + 1 \in 1..n
    BY <1>1, <1>2
  <2>2. s \in rows
    BY <1>1, <1>2, <1>5, <2>1
  <2>. QED
    BY <2>2 DEF KeyFree, todo
<1>7. \A row \in rows : row.version < s.version
  <2>. TAKE row \in rows
  <2>1. PICK i \in 1..n : row = steps[i]
    BY <1>1, <1>2
  <2>2. i \in DOMAIN steps /\ n + 1 \in DOMAIN steps /\ i < n + 1
    <3>1. DOMAIN steps = 1..Len(steps)
      BY <1>3, LenProperties
    <3>. QED
      BY <1>1, <1>2, <1>3, <1>5, <1>6, <3>1
  <2>3. Increasing(steps)
    BY <1>1, <1>3, NeighboursOrder
  <2>4. steps[i].version < steps[n + 1].version
    BY <2>2, <2>3 DEF Increasing
  <2>. QED
    BY <1>5, <1>6, <2>1, <2>4
<1>. QED
  BY <1>2, <1>3, <1>4, <1>5, <1>6, <1>7 DEF n, todo, j

\* What another migrator has read stays true when the next step of the list is recorded.
LEMMA OthersGoOn ==
    ASSUME NEW call, NEW list, NEW S, NEW T, InOrder(call, list, S),
           Cardinality(S) \in Nat, Cardinality(T) = Cardinality(S) + 1,
           Len(list) \in Nat, Cardinality(T) <= Len(list),
           \A i \in 1..Cardinality(S) : Ordered(T)[i] = Ordered(S)[i],
           Ordered(T)[Cardinality(S) + 1] = list[Cardinality(S) + 1]
    PROVE  InOrder(call, list, T)
<1>. DEFINE n == Cardinality(S)
            j == Len(list) - Len(call.todo)
<1>1. CASE call.pc \notin Past
  BY <1>1 DEF InOrder
<1>2. CASE call.pc \in Past
  <2>1. /\ j \in 0..n /\ \A i \in 1..n : Ordered(S)[i] = list[i]
    BY <1>2 DEF InOrder
  <2>2. j \in 0..(n + 1)
    BY <2>1
  <2>3. \A i \in 1..(n + 1) : Ordered(T)[i] = list[i]
    <3>. TAKE i \in 1..(n + 1)
    <3>1. i = n + 1 \/ i \in 1..n
      OBVIOUS
    <3>. QED
      BY <2>1, <3>1
  <2>. QED
    BY <2>2, <2>3 DEF InOrder
<1>. QED
  BY <1>1, <1>2

\* The step and its row become durable: the history grows by the next step of the list, and
\* nobody else has applied it.
LEMMA DurableKeeps ==
    ASSUME IInv, NEW m \in Migrators, apply[m].pc = "commit", Durable(m), NEW c \in Call,
           apply' = [apply EXCEPT ![m] = c], UNCHANGED <<steps, table>>,
           \/ c = [apply[m] EXCEPT !.pc = "Error"]
           \/ /\ c.pc = "apply" /\ c.todo = Tail(apply[m].todo)
              /\ c.applied = Append(apply[m].applied, Head(apply[m].todo).version)
    PROVE  IInv'
<1>. DEFINE n == Cardinality(rows)
            todo == apply[m].todo
            done == apply[m].applied
            s == Head(todo)
            j == Len(steps) - Len(todo)
<1>1. KeyFree(s) /\ rows' = rows \cup {s} /\ effects' = effects \o Work(s)
  BY DEF Durable
<1>2. /\ n \in Nat /\ Len(steps) \in Nat /\ n + 1 <= Len(steps) /\ j = n
      /\ s = steps[n + 1] /\ s \in AllSteps
      /\ \A row \in rows : row.version < s.version
  BY <1>1, NextInLine
<1>3. /\ rows' \subseteq AllSteps /\ effects' \in Seq(AllSteps \X (1..Statements))
      /\ HistorySound' /\ AppliedWhole'
      /\ Cardinality(rows') = n + 1
      /\ \A i \in 1..n : Ordered(rows')[i] = Ordered(rows)[i]
      /\ Ordered(rows')[n + 1] = s
  BY <1>1, <1>2, WholeAfterCommit DEF IInv
<1>. HIDE DEF n, s
<1>4. /\ steps' = steps /\ apply \in [Migrators -> Call] /\ apply'[m] = c
      /\ \A o \in Migrators \ {m} : apply'[o] = apply[o]
  BY DEF IInv, TypeOK
<1>5. TypeOK'
  <2>1. apply' \in [Migrators -> Call]
    BY <1>4
  <2>2. steps' \in Lists /\ table' \in BOOLEAN
    BY DEF IInv, TypeOK
  <2>. QED
    BY <1>3, <2>1, <2>2 DEF TypeOK
<1>6. \A call : InOrder(call, steps, rows) => InOrder(call, steps, rows')
  <2>1. Cardinality(rows) = n /\ Cardinality(rows') = Cardinality(rows) + 1
    BY <1>3 DEF n
  <2>. QED
    BY <1>2, <1>3, <2>1, OthersGoOn
<1>7. /\ done \in Seq(Nat) /\ Len(done) \in Nat /\ s.version \in Nat
      /\ todo \in Seq(AllSteps) /\ todo # <<>> /\ Len(todo) \in Nat
      /\ InOrder(apply[m], steps, rows)
  <2>1. done \in Seq(Nat) /\ todo \in Seq(AllSteps)
    BY <1>4 DEF Call
  <2>2. s.version \in Nat
    BY <1>2, AllStepsAreSteps DEF Step
  <2>3. InOrder(apply[m], steps, rows)
    BY DEF IInv, Working
  <2>. QED
    BY <2>1, <2>2, <2>3, LenProperties DEF InOrder
<1>8. InOrder(c, steps, rows')
  <2>1. CASE c = [apply[m] EXCEPT !.pc = "Error"]
    <3>1. c.pc = "Error"
      BY <1>4, <2>1 DEF Call
    <3>. QED
      BY <3>1 DEF InOrder, Begun, Past
  <2>2. CASE /\ c.pc = "apply" /\ c.todo = Tail(todo)
             /\ c.applied = Append(done, s.version)
    <3>1. /\ CheckVersions(steps) /\ Len(done) <= n
          /\ \A i \in 1..n : Ordered(rows)[i] = steps[i]
          /\ \A i \in 1..Len(todo) : todo[i] = steps[n + i]
          /\ \A i \in 1..Len(done) : done[i] = steps[n - Len(done) + i].version
      BY <1>2, <1>7 DEF InOrder, Begun, Past, n
    <3>2. /\ Len(c.todo) = Len(todo) - 1
          /\ \A i \in 1..Len(c.todo) : c.todo[i] = todo[i + 1]
      BY <1>7, <2>2, HeadTailProperties
    <3>3. /\ Len(c.applied) = Len(done) + 1 /\ c.applied[Len(done) + 1] = s.version
          /\ \A i \in 1..Len(done) : c.applied[i] = done[i]
      BY <1>7, <2>2, AppendProperties
    <3>4. Len(steps) - Len(c.todo) = n + 1 /\ n + 1 \in 0..(n + 1)
      <4>. DEFINE all == Len(steps)
                  left == Len(todo)
                  after == Len(c.todo)
      <4>1. all \in Nat /\ left \in Nat /\ n \in Nat /\ all - left = n /\ after = left - 1
        BY <1>2, <1>7, <3>2
      <4>. HIDE DEF all, left, after
      <4>2. all - after = n + 1 /\ n + 1 \in 0..(n + 1)
        BY <4>1
      <4>. QED
        BY <4>2 DEF all, after
    <3>5. \A i \in 1..Len(c.todo) : c.todo[i] = steps[(n + 1) + i]
      <4>. TAKE i \in 1..Len(c.todo)
      <4>1. i + 1 \in 1..Len(todo) /\ n + (i + 1) = (n + 1) + i
        <5>. DEFINE left == Len(todo)
                    after == Len(c.todo)
        <5>1. left \in Nat /\ n \in Nat /\ after = left - 1 /\ i \in 1..after
          BY <1>2, <1>7, <3>2
        <5>. HIDE DEF left, after
        <5>2. i + 1 \in 1..left /\ n + (i + 1) = (n + 1) + i
          BY <5>1
        <5>. QED
          BY <5>2 DEF left
      <4>. QED
        BY <3>1, <3>2, <4>1
    <3>6. \A i \in 1..Len(c.applied) :
              c.applied[i] = steps[(n + 1) - Len(c.applied) + i].version
      <4>. TAKE i \in 1..Len(c.applied)
      <4>. DEFINE past == Len(done)
                  now == Len(c.applied)
      <4>0. past \in Nat /\ n \in Nat /\ now = past + 1 /\ i \in 1..now
        BY <1>2, <1>7, <3>3
      <4>. HIDE DEF past, now
      <4>1. /\ (n + 1) - now + i = n - past + i
            /\ i \in 1..past \/ (i = past + 1 /\ n - past + i = n + 1)
        BY <4>0
      <4>2. c.applied[past + 1] = s.version /\ \A k \in 1..past : c.applied[k] = done[k]
        BY <3>3 DEF past
      <4>3. \A k \in 1..past : done[k] = steps[n - past + k].version
        BY <3>1 DEF past
      <4>4. c.applied[i] = steps[n - past + i].version
        BY <1>2, <4>1, <4>2, <4>3
      <4>5. c.applied[i] = steps[(n + 1) - now + i].version
        BY <4>1, <4>4
      <4>. QED
        BY <4>5 DEF now
    <3>7. \A i \in 1..(n + 1) : Ordered(rows')[i] = steps[i]
      <4>. TAKE i \in 1..(n + 1)
      <4>1. i = n + 1 \/ i \in 1..n
        BY <1>2
      <4>. QED
        BY <1>2, <1>3, <3>1, <4>1
    <3>8. c.pc \in Begun /\ c.pc \in Past /\ c.pc \notin {"step", "commit", "verify", "Ok"}
      BY <2>2 DEF Begun, Past
    <3>9. Len(c.applied) <= n + 1
      BY <1>2, <1>7, <3>1, <3>3
    <3>. QED
      BY <1>2, <1>3, <3>1, <3>4, <3>5, <3>6, <3>7, <3>8, <3>9 DEF InOrder
  <2>3. \/ c = [apply[m] EXCEPT !.pc = "Error"]
        \/ c.pc = "apply" /\ c.todo = Tail(todo) /\ c.applied = Append(done, s.version)
    BY DEF s
  <2>. QED
    BY <2>1, <2>2, <2>3
<1>9. \A o \in Migrators : Working(o)'
  <2>1. \A o \in Migrators : InOrder(apply'[o], steps, rows')
    BY <1>4, <1>6, <1>8 DEF IInv, Working
  <2>. QED
    BY <1>4, <2>1 DEF Working
<1>10. \A o \in Migrators : Range(apply'[o].applied) \subseteq
                             Range(apply[o].applied) \cup (IF o = m THEN {s.version} ELSE {})
  <2>1. CASE c = [apply[m] EXCEPT !.pc = "Error"]
    <3>1. c.applied = done
      BY <1>4, <2>1 DEF Call
    <3>. QED
      BY <1>4, <3>1
  <2>2. CASE c.applied = Append(done, s.version)
    <3>1. Range(c.applied) \subseteq Range(done) \cup {s.version}
      <4>. SUFFICES ASSUME NEW i \in DOMAIN c.applied
                    PROVE  c.applied[i] \in Range(done) \cup {s.version}
        BY DEF Range
      <4>1. /\ Len(c.applied) = Len(done) + 1 /\ c.applied[Len(done) + 1] = s.version
            /\ DOMAIN c.applied = 1..Len(c.applied) /\ DOMAIN done = 1..Len(done)
            /\ \A k \in 1..Len(done) : c.applied[k] = done[k]
        BY <1>7, <2>2, AppendProperties, LenProperties
      <4>2. i = Len(done) + 1 \/ i \in 1..Len(done)
        BY <1>7, <4>1
      <4>. QED
        BY <4>1, <4>2 DEF Range
    <3>. QED
      BY <1>4, <3>1
  <2>. QED
    BY <2>1, <2>2 DEF s
<1>11. \A o \in Migrators : \A v \in Range(apply[o].applied) : \E row \in rows : row.version = v
  <2>. TAKE o \in Migrators
  <2>1. apply[o].applied \in Seq(Nat)
    BY <1>4 DEF Call
  <2>2. DOMAIN apply[o].applied = 1..Len(apply[o].applied)
    BY <2>1, LenProperties
  <2>3. \A i \in 1..Len(apply[o].applied) : \E row \in rows : row.version = apply[o].applied[i]
    BY DEF IInv, Claims
  <2>. QED
    BY <2>2, <2>3 DEF Range
<1>12. \A o \in Migrators : s.version \notin Range(apply[o].applied)
  BY <1>1, <1>11 DEF KeyFree
<1>13. ASSUME NEW o \in Migrators
       PROVE  Claims(o)'
  <2>1. \A v \in Range(apply'[o].applied) : \E row \in rows' : row.version = v
    BY <1>1, <1>10, <1>11
  <2>2. \A i \in 1..Len(apply'[o].applied) : \E row \in rows' : row.version = apply'[o].applied[i]
    <3>1. apply'[o].applied \in Seq(Nat)
      BY <1>5 DEF TypeOK, Call
    <3>2. DOMAIN apply'[o].applied = 1..Len(apply'[o].applied)
      BY <3>1, LenProperties
    <3>. QED
      BY <2>1, <3>2 DEF Range
  <2>3. \A other \in Migrators \ {o} :
            Range(apply'[o].applied) \cap Range(apply'[other].applied) = {}
    <3>. TAKE other \in Migrators \ {o}
    <3>1. Range(apply[o].applied) \cap Range(apply[other].applied) = {}
      BY DEF IInv, Claims
    <3>. QED
      BY <1>10, <1>12, <3>1
  <2>. QED
    BY <2>2, <2>3 DEF Claims
<1>. QED
  BY <1>3, <1>5, <1>9, <1>13 DEF IInv

\* Commit makes the connection's work durable, with or without saying so, or fails.
LEMMA CommitKeeps ==
    ASSUME IInv, NEW m \in Migrators, Commit(m)
    PROVE  IInv'
<1>1. /\ apply[m].pc = "commit" /\ UNCHANGED <<steps, table>> /\ apply[m] \in Call
      /\ table' \in BOOLEAN
  BY DEF Commit, IInv, TypeOK
<1>2. CASE UNCHANGED <<rows, effects>> /\ Goto(m, "Error")
  BY <1>1, <1>2, PcMoves DEF Begun, Past
<1>3. CASE Durable(m) /\ Goto(m, "Error")
  <2>. DEFINE c == [apply[m] EXCEPT !.pc = "Error"]
  <2>1. c \in Call
    BY <1>1 DEF Call
  <2>2. apply' = [apply EXCEPT ![m] = c]
    BY <1>3 DEF Goto
  <2>. QED
    BY <1>1, <1>3, <2>1, <2>2, DurableKeeps
<1>4. CASE /\ Durable(m)
           /\ apply' = [apply EXCEPT ![m].pc = "apply", ![m].todo = Tail(@), ![m].did = 0,
                            ![m].applied = Append(@, Head(apply[m].todo).version)]
  <2>. DEFINE v == Head(apply[m].todo).version
              c == [apply[m] EXCEPT !.pc = "apply", !.todo = Tail(@), !.did = 0,
                                    !.applied = Append(@, v)]
  <2>1. KeyFree(Head(apply[m].todo))
    BY <1>4 DEF Durable
  <2>2. v \in Nat /\ apply[m].todo # <<>>
    <3>1. Head(apply[m].todo) \in AllSteps
      BY <1>1, <2>1, NextInLine
    <3>2. Working(m)
      BY DEF IInv
    <3>. QED
      BY <1>1, <3>1, <3>2, AllStepsAreSteps DEF Step, Working, InOrder
  <2>3. /\ Tail(apply[m].todo) \in Seq(AllSteps) /\ Append(apply[m].applied, v) \in Seq(Nat)
        /\ 0 \in 0..Statements
    <3>1. apply[m].todo \in Seq(AllSteps) /\ apply[m].applied \in Seq(Nat)
      BY <1>1 DEF Call
    <3>2. 0 \in 0..Statements
      BY ListsAssumption
    <3>. QED
      BY <2>2, <3>1, <3>2, HeadTailProperties, AppendProperties
  <2>. HIDE DEF v
  <2>4. /\ c \in Call /\ c.pc = "apply" /\ c.todo = Tail(apply[m].todo)
        /\ c.applied = Append(apply[m].applied, v)
    BY <1>1, <2>3 DEF Call
  <2>5. apply' = [apply EXCEPT ![m] = c]
    BY <1>4 DEF v
  <2>. HIDE DEF c
  <2>. QED
    BY <1>1, <1>4, <2>4, <2>5, DurableKeeps DEF v
<1>. QED
  BY <1>2, <1>3, <1>4 DEF Commit

\* Every step of the specification keeps the invariant.
LEMMA NextKeeps == IInv /\ [Next]_vars => IInv'
<1>. SUFFICES ASSUME IInv, [Next]_vars
              PROVE  IInv'
  OBVIOUS
<1>1. CASE UNCHANGED vars
  <2>1. TypeOK' /\ HistorySound' /\ AppliedWhole'
    BY <1>1 DEF IInv, TypeOK, HistorySound, AppliedWhole, vars
  <2>2. \A m \in Migrators : Working(m)' /\ Claims(m)'
    BY <1>1 DEF IInv, Working, Claims, vars
  <2>. QED
    BY <2>1, <2>2 DEF IInv
<1>2. CASE Restart
  BY <1>2, RestartKeeps
<1>3. ASSUME NEW m \in Migrators,
             \/ Apply(m) \/ HistoryExists(m) \/ CreateHistory(m) \/ ReadHistory(m) \/ ApplyAll(m)
             \/ RunStatement(m) \/ Record(m) \/ Commit(m) \/ Verify(m)
      PROVE  IInv'
  BY <1>3, ApplyKeeps, HistoryExistsKeeps, CreateHistoryKeeps, ReadHistoryKeeps, ApplyAllKeeps,
     RunStatementKeeps, RecordKeeps, CommitKeeps, VerifyKeeps
<1>. QED
  BY <1>1, <1>2, <1>3 DEF Next

\* The invariant holds in every reachable state.
LEMMA IInvAlways == Spec => []IInv
BY InitEstablishes, NextKeeps, PTL DEF Spec

-----------------------------------------------------------------------------
(* The results.                                                             *)

\* Every variable keeps its type.
THEOREM TypeCorrect == Spec => []TypeOK
<1>1. IInv => TypeOK
  BY DEF IInv
<1>. QED
  BY <1>1, IInvAlways, PTL

\* The database is what the bookkeeping table says: every recorded step of apply ran whole,
\* once and in the order of the versions, and nothing else ran, whatever fails, dies or
\* migrates at the same time.
THEOREM StepsAreWhole == Spec => []AppliedWhole
<1>1. IInv => AppliedWhole
  BY DEF IInv
<1>. QED
  BY <1>1, IInvAlways, PTL

\* apply answers Ok only when the history is the whole list, and the versions it returns are
\* the last of the list and no other call's.
THEOREM ReportsAreHonest == Spec => []HonestReport
<1>1. ASSUME IInv
      PROVE  HonestReport
  <2>. SUFFICES ASSUME NEW m \in Migrators
                PROVE  LET done == apply[m].applied
                           n == Len(steps) - Len(done) IN
                       /\ apply[m].pc = "Ok" =>
                           /\ Ordered(rows) = steps /\ n >= 0
                           /\ \A i \in DOMAIN done : done[i] = steps[n + i].version
                       /\ \A other \in Migrators \ {m} :
                           Range(done) \cap Range(apply[other].applied) = {}
    BY DEF HonestReport
  <2>1. \A other \in Migrators \ {m} : Range(apply[m].applied) \cap Range(apply[other].applied) = {}
    BY <1>1 DEF IInv, Claims
  <2>2. ASSUME apply[m].pc = "Ok"
        PROVE  LET done == apply[m].applied
                   n == Len(steps) - Len(done) IN
               /\ Ordered(rows) = steps /\ n >= 0
               /\ \A i \in DOMAIN done : done[i] = steps[n + i].version
    <3>. DEFINE done == apply[m].applied
                all == Len(steps)
                k == Cardinality(rows)
                a == Ordered(rows)
    <3>1. /\ steps \in Seq(Step) /\ done \in Seq(Nat) /\ all \in Nat /\ Len(done) \in Nat
          /\ DOMAIN done = 1..Len(done)
      <4>1. steps \in Seq(Step) /\ done \in Seq(Nat)
        BY <1>1, ListsAssumption DEF IInv, TypeOK, Call
      <4>. QED
        BY <4>1, LenProperties
    <3>2. k \in Nat /\ a \in [1..k -> rows]
      BY <1>1, FS_CardinalityType DEF IInv, HistorySound, Enumerates
    <3>3. Len(apply[m].todo) = 0 /\ all - 0 = all
      <4>1. apply[m].todo = <<>>
        BY <1>1, <2>2 DEF IInv, Working, InOrder
      <4>. QED
        BY <3>1, <4>1
    <3>4. /\ all \in 0..k /\ k <= all /\ Len(done) <= all
          /\ \A i \in 1..k : a[i] = steps[i]
          /\ \A i \in 1..Len(done) : done[i] = steps[all - Len(done) + i].version
      <4>1. InOrder(apply[m], steps, rows) /\ apply[m].pc \in Past
        BY <1>1, <2>2 DEF IInv, Working, Past
      <4>2. /\ all - Len(apply[m].todo) \in 0..k /\ k <= all
            /\ \A i \in 1..k : a[i] = steps[i]
            /\ Len(done) <= all - Len(apply[m].todo)
            /\ \A i \in 1..Len(done) :
                  done[i] = steps[all - Len(apply[m].todo) - Len(done) + i].version
        BY <4>1 DEF InOrder
      <4>. QED
        BY <3>3, <4>2
    <3>5. k = all
      BY <3>1, <3>2, <3>4
    <3>6. a = steps
      <4>. HIDE DEF a, k
      <4>1. rows \subseteq Step
        BY <1>1, AllStepsAreSteps DEF IInv, TypeOK
      <4>2. a \in Seq(Step) /\ Len(a) = k
        <5>1. a \in [1..k -> Step]
          BY <3>2, <4>1
        <5>. QED
          BY <3>2, <5>1, TableIsList
      <4>. QED
        BY <3>1, <3>4, <3>5, <4>2, SeqEqual
    <3>7. all - Len(done) >= 0
      BY <3>1, <3>4
    <3>. QED
      BY <3>1, <3>4, <3>6, <3>7
  <2>. QED
    BY <2>1, <2>2
<1>. QED
  BY <1>1, IInvAlways, PTL

\* Only a database whose history is a prefix of the list is changed: one with an edited, a
\* missing or an unknown step is left as it is.
THEOREM MismatchIsUntouched == Spec => MismatchUntouched
<1>1. ASSUME IInv, [Next]_vars
      PROVE  [effects' # effects \/ rows' # rows => IsPrefix(Ordered(rows), steps)]_vars
  <2>. SUFFICES ASSUME effects' # effects \/ rows' # rows
                PROVE  IsPrefix(Ordered(rows), steps)
    OBVIOUS
  <2>1. PICK m \in Migrators : Commit(m)
    BY <1>1 DEF Next, vars, Restart, Apply, HistoryExists, CreateHistory, ReadHistory, ApplyAll,
         RunStatement, Record, Verify, Fail
  <2>. DEFINE n == Cardinality(rows)
              a == Ordered(rows)
  <2>2. n <= Len(steps) /\ \A i \in 1..n : a[i] = steps[i]
    <3>1. InOrder(apply[m], steps, rows) /\ apply[m].pc \in Past
      BY <1>1, <2>1 DEF IInv, Working, Past, Commit
    <3>. QED
      BY <3>1 DEF InOrder
  <2>3. n \in Nat /\ a \in [1..n -> rows] /\ steps \in Seq(Step)
    <3>1. n \in Nat /\ a \in [1..n -> rows]
      BY <1>1, FS_CardinalityType DEF IInv, HistorySound, Enumerates
    <3>2. steps \in Seq(Step)
      BY <1>1, ListsAssumption DEF IInv, TypeOK
    <3>. QED
      BY <3>1, <3>2
  <2>. HIDE DEF n, a
  <2>4. Len(a) = n
    BY <2>3, TableIsList
  <2>5. SubSeq(a, 1, n) = SubSeq(steps, 1, n)
    BY <2>2, <2>3
  <2>. QED
    BY <2>2, <2>4, <2>5 DEF IsPrefix, a
<1>. QED
  BY <1>1, IInvAlways, PTL DEF Spec, MismatchUntouched
=============================================================================

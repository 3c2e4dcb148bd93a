----------------------------- MODULE TableProofs ------------------------------
(***************************************************************************)
(* The tables that guest threads share: of objects and handles, for any    *)
(* number of threads, objects, names and slots, and of functions, for any  *)
(* number of threads and functions and any call graph.                     *)
(*                                                                         *)
(* ObjectTable: CountsExact and NamesResolve, for a careful guest.  The    *)
(* counts are sums over the threads: a sum is the size of a set of pairs,  *)
(* so that a step of one thread adds a pair to it or takes one away        *)
(* (TotalMoves).  The invariant TableInv adds that the handles of an       *)
(* object are its slots, each once (Listed); that a handle by which        *)
(* threads open its object by name keeps a reference when they all have    *)
(* given theirs back (Kept), which makes the handle they retain the one    *)
(* they found; that guest code finds an object it has a pointer to by its  *)
(* first handle (Stashed); and that an object without a name yet is known  *)
(* to its maker only (Unknown), so that no name is overwritten.            *)
(*                                                                         *)
(* FunctionTable: TranslatedOnce, and AnswersAgree where stores are seen   *)
(* in order.  TranslatedOnce holds because a symbol that is being declared *)
(* or translated is "defining", and one thread only is at it (OneWorker);  *)
(* AnswersAgree because one thread only fills an entry (OneFiller), and an *)
(* entry that was read is not written any more.  Whoever waits in it waits *)
(* for a thread that is at work (Attended), however functions call one     *)
(* another: HasFiller for entries, HasWorker for symbols.                  *)
(***************************************************************************)
EXTENDS ObjectTable, FunctionTable, FiniteSetTheorems, SequenceTheorems,
        WellFoundedInduction, TLAPS

------------------------------------------------------------------------------
(* Sums over the callers, lists of handles, and the free slot.              *)

Pairs(f) == UNION {{t} \X (1 .. f[t]) : t \in Callers}

LEMMA PairsFinite ==
  ASSUME NEW f \in [Callers -> Nat]
  PROVE  IsFiniteSet(Pairs(f)) /\ Total(f) = Cardinality(Pairs(f)) /\ Total(f) \in Nat
<1> DEFINE Row(t) == {t} \X (1 .. f[t])
           Rows == {Row(t) : t \in Callers}
           row == [t \in Callers |-> Row(t)]
<1>1. ASSUME NEW t \in Callers PROVE IsFiniteSet(Row(t))
  <2>1. IsFiniteSet({t}) /\ IsFiniteSet(1 .. f[t])
    <3>1. 1 \in Int /\ f[t] \in Int
      OBVIOUS
    <3>2. IsFiniteSet(1 .. f[t])
      BY <3>1, FS_Interval
    <3> QED BY <3>2, FS_Singleton
  <2>2. IsFiniteSet({t} \X (1 .. f[t]))
    BY <2>1, FS_Product
  <2> QED BY <2>2
<1>2. IsFiniteSet(Rows)
  <2>1. row \in Surjection(Callers, Rows)
    BY DEF Surjection
  <2> QED BY <2>1, FS_Surjection, CallersAssumption
<1>3. \A T \in Rows : IsFiniteSet(T)
  BY <1>1
<1>4. IsFiniteSet(UNION Rows)
  BY <1>2, <1>3, FS_UNION
<1>5. UNION Rows = Pairs(f)
  BY DEF Pairs
<1>6. IsFiniteSet(Pairs(f))
  BY <1>4, <1>5
<1>7. Total(f) = Cardinality(Pairs(f))
  BY DEF Total, Pairs
<1> QED BY <1>6, <1>7, FS_CardinalityType

LEMMA PairsMember ==
  ASSUME NEW f \in [Callers -> Nat], NEW t \in Callers, NEW i
  PROVE  <<t, i>> \in Pairs(f) <=> i \in 1 .. f[t]
BY DEF Pairs

(* A sum grows by what one of its terms grows by.                           *)
LEMMA TotalGrows ==
  ASSUME NEW f \in [Callers -> Nat], NEW g \in [Callers -> Nat], NEW t \in Callers,
         g[t] = f[t] + 1, \A u \in Callers \ {t} : g[u] = f[u]
  PROVE  Total(g) = Total(f) + 1
<1>1. Pairs(g) = Pairs(f) \cup {<<t, g[t]>>}
  <2>1. 1 .. g[t] = (1 .. f[t]) \cup {g[t]}
    OBVIOUS
  <2>2. \A u \in Callers \ {t} : 1 .. g[u] = 1 .. f[u]
    OBVIOUS
  <2>3. ASSUME NEW x \in Pairs(g) PROVE x \in Pairs(f) \cup {<<t, g[t]>>}
    <3>1. PICK u \in Callers : x \in {u} \X (1 .. g[u])
      BY DEF Pairs
    <3>2. PICK i \in 1 .. g[u] : x = <<u, i>>
      BY <3>1
    <3>3. CASE u = t
      BY <2>1, <3>2, <3>3, PairsMember
    <3>4. CASE u # t
      BY <2>2, <3>2, <3>4, PairsMember
    <3> QED BY <3>3, <3>4
  <2>4. ASSUME NEW x \in Pairs(f) PROVE x \in Pairs(g)
    <3>1. PICK u \in Callers : x \in {u} \X (1 .. f[u])
      BY DEF Pairs
    <3>2. PICK i \in 1 .. f[u] : x = <<u, i>>
      BY <3>1
    <3>3. CASE u = t
      BY <2>1, <3>2, <3>3, PairsMember
    <3>4. CASE u # t
      BY <2>2, <3>2, <3>4, PairsMember
    <3> QED BY <3>3, <3>4
  <2>5. <<t, g[t]>> \in Pairs(g)
    BY PairsMember
  <2> QED BY <2>3, <2>4, <2>5
<1>2. <<t, g[t]>> \notin Pairs(f)
  BY PairsMember
<1>3. Cardinality(Pairs(g)) = Cardinality(Pairs(f)) + 1
  BY <1>1, <1>2, PairsFinite, FS_AddElement
<1> QED BY <1>3, PairsFinite

(* A sum of natural numbers bounds its terms.                               *)
LEMMA TotalBounds ==
  ASSUME NEW f \in [Callers -> Nat]
  PROVE  /\ \A t \in Callers : f[t] > 0 => Total(f) > 0
         /\ Total(f) > 0 => \E t \in Callers : f[t] > 0
<1>1. Total(f) = Cardinality(Pairs(f)) /\ IsFiniteSet(Pairs(f)) /\ Total(f) \in Nat
  BY PairsFinite
<1>2. Total(f) = 0 <=> Pairs(f) = {}
  BY <1>1, FS_EmptySet
<1>3. ASSUME NEW t \in Callers, f[t] > 0 PROVE <<t, 1>> \in Pairs(f)
  BY <1>3, PairsMember
<1>4. ASSUME Pairs(f) # {} PROVE \E t \in Callers : f[t] > 0
  <2>1. PICK x \in Pairs(f) : TRUE
    BY <1>4
  <2>2. PICK t \in Callers : x \in {t} \X (1 .. f[t])
    BY DEF Pairs
  <2>3. f[t] > 0
    BY <2>2
  <2> QED BY <2>3
<1>5. Total(f) > 0 <=> Pairs(f) # {}
  BY <1>1, <1>2
<1>6. ASSUME NEW t \in Callers, f[t] > 0 PROVE Total(f) > 0
  BY <1>3, <1>5, <1>6
<1> QED BY <1>4, <1>5, <1>6

(* What lies before and behind a place of a list, put together.             *)
LEMMA Joined ==
  ASSUME NEW n \in Nat, NEW k \in Nat, k >= 1, k <= n, NEW s, NEW a, NEW b, NEW r,
         \A i \in 1 .. k - 1 : a[i] = s[i], \A i \in 1 .. n - k : b[i] = s[k + i],
         \A i \in 1 .. n - 1 : r[i] = IF i <= k - 1 THEN a[i] ELSE b[i - (k - 1)]
  PROVE  \A i \in 1 .. n - 1 : r[i] = s[IF i < k THEN i ELSE i + 1]
<1> SUFFICES ASSUME NEW i \in 1 .. n - 1 PROVE r[i] = s[IF i < k THEN i ELSE i + 1]
  OBVIOUS
<1>1. CASE i < k
  BY <1>1
<1>2. CASE ~(i < k)
  <2>1. i - (k - 1) \in 1 .. n - k /\ k + (i - (k - 1)) = i + 1
    BY <1>2
  <2>2. r[i] = b[i - (k - 1)]
    BY <1>2
  <2> QED BY <1>2, <2>1, <2>2
<1> QED BY <1>1, <1>2

(* What erasing and appending do to a list without repetitions.             *)
LEMMA EraseOne ==
  ASSUME NEW S, NEW s \in Seq(S), NEW x, IsInjective(s), Contains(s, x)
  PROVE  LET r == RemoveFirst(s, x) IN
         /\ r \in Seq(S) /\ IsInjective(r) /\ \A y : Contains(r, y) <=> Contains(s, y) /\ y # x
         /\ s # <<>> /\ Head(s) # x => r # <<>> /\ Head(r) = Head(s)
<1> DEFINE I == {i \in 1 .. Len(s) : s[i] = x}
           r == RemoveFirst(s, x)
<1>1. PICK k \in 1 .. Len(s) : s[k] = x
  BY DEF Contains
<1>2. I = {k}
  BY <1>1 DEF IsInjective
<1>3. SelectInSeq(s, LAMBDA v : v = x) = k
  <2>1. Min({k}) = k
    BY DEF Min
  <2> QED BY <1>2, <2>1 DEF SelectInSeq
<1>4. r = RemoveAt(s, k)
  BY <1>1, <1>3 DEF RemoveFirst
<1> DEFINE a == SubSeq(s, 1, k - 1)
           b == SubSeq(s, k + 1, Len(s))
<1>5. /\ Len(s) \in Nat /\ k \in Nat /\ k >= 1 /\ k <= Len(s)
      /\ \A i \in 1 .. Len(s) : s[i] \in S
  BY LenProperties, ElementOfSeq
<1>6. /\ a \in Seq(S) /\ Len(a) = k - 1 /\ \A i \in 1 .. k - 1 : a[i] = s[i]
  <2>1. \A i \in 1 .. k - 1 : s[i] \in S
    BY <1>5
  <2>2. /\ a \in Seq(S) /\ Len(a) = IF 1 <= k - 1 THEN (k - 1) - 1 + 1 ELSE 0
        /\ \A i \in 1 .. (k - 1) - 1 + 1 : a[i] = s[1 + i - 1]
    BY <1>5, <2>1, SubSeqProperties
  <2> QED BY <1>5, <2>2
<1>7. /\ b \in Seq(S) /\ Len(b) = Len(s) - k
      /\ \A i \in 1 .. Len(s) - k : b[i] = s[k + i]
  <2>1. \A i \in k + 1 .. Len(s) : s[i] \in S
    BY <1>5
  <2>2. /\ b \in Seq(S) /\ Len(b) = IF k + 1 <= Len(s) THEN Len(s) - (k + 1) + 1 ELSE 0
        /\ \A i \in 1 .. Len(s) - (k + 1) + 1 : b[i] = s[k + 1 + i - 1]
    BY <1>5, <2>1, SubSeqProperties
  <2> QED BY <1>5, <2>2
<1>8. /\ a \o b \in Seq(S) /\ Len(a \o b) = Len(a) + Len(b)
      /\ \A i \in 1 .. Len(a) + Len(b) :
           (a \o b)[i] = IF i <= Len(a) THEN a[i] ELSE b[i - Len(a)]
  <2> HIDE DEF a, b
  <2> QED BY <1>6, <1>7, ConcatProperties
<1>9. /\ r \in Seq(S) /\ Len(r) = Len(s) - 1
      /\ \A i \in 1 .. Len(s) - 1 : r[i] = s[IF i < k THEN i ELSE i + 1]
  <2>1. r = a \o b
    BY <1>4 DEF RemoveAt
  <2> HIDE DEF a, b, r
  <2>2. r \in Seq(S) /\ Len(r) = Len(s) - 1
    <3>1. Len(a) + Len(b) = Len(s) - 1
      BY <1>5, <1>6, <1>7
    <3>2. r \in Seq(S) /\ Len(r) = Len(a) + Len(b)
      BY <1>8, <2>1
    <3> QED BY <3>1, <3>2
  <2>3. \A i \in 1 .. Len(s) - 1 : r[i] = IF i <= k - 1 THEN a[i] ELSE b[i - (k - 1)]
    <3>1. Len(a) = k - 1 /\ Len(a) + Len(b) = Len(s) - 1
      BY <1>5, <1>6, <1>7
    <3> QED BY <1>8, <2>1, <3>1
  <2>4. \A i \in 1 .. Len(s) - 1 : r[i] = s[IF i < k THEN i ELSE i + 1]
    BY <1>5, <1>6, <1>7, <2>3, Joined
  <2> QED BY <2>2, <2>4
<1> HIDE DEF r, a, b
<1> DEFINE M(i) == IF i < k THEN i ELSE i + 1
<1>91. \A i \in 1 .. Len(s) - 1 : M(i) \in 1 .. Len(s) /\ M(i) # k
  BY <1>5
<1>92. \A i, j \in 1 .. Len(s) - 1 : M(i) = M(j) => i = j
  BY <1>5
<1>93. \A i \in 1 .. Len(s) - 1 : r[i] = s[M(i)]
  BY <1>9
<1>94. DOMAIN r = 1 .. Len(s) - 1 /\ DOMAIN s = 1 .. Len(s)
  BY <1>9, LenProperties
<1>95. \A i, j \in 1 .. Len(s) : s[i] = s[j] => i = j
  BY <1>94 DEF IsInjective
<1> HIDE DEF M
<1>10. IsInjective(r)
  BY <1>91, <1>92, <1>93, <1>94, <1>95 DEF IsInjective
<1>11. ASSUME NEW y PROVE Contains(r, y) <=> Contains(s, y) /\ y # x
  <2>1. ASSUME Contains(r, y) PROVE Contains(s, y) /\ y # x
    <3>1. PICK i \in 1 .. Len(s) - 1 : r[i] = y
      BY <1>9, <2>1 DEF Contains
    <3>2. M(i) \in 1 .. Len(s) /\ s[M(i)] = y /\ M(i) # k
      BY <1>91, <1>93, <3>1
    <3> QED BY <1>1, <1>95, <3>2 DEF Contains
  <2>2. ASSUME Contains(s, y), y # x PROVE Contains(r, y)
    <3>1. PICK j \in 1 .. Len(s) : s[j] = y
      BY <2>2 DEF Contains
    <3>2. j # k
      BY <1>1, <2>2, <3>1
    <3>3. CASE j < k
      BY <1>5, <1>9, <3>1, <3>3 DEF Contains
    <3>4. CASE j > k
      <4>1. j - 1 \in 1 .. Len(s) - 1 /\ ~(j - 1 < k) /\ (j - 1) + 1 = j
        BY <1>5, <3>4
      <4> QED BY <1>5, <1>9, <3>1, <4>1 DEF Contains
    <3> QED BY <1>5, <3>2, <3>3, <3>4
  <2> QED BY <2>1, <2>2
<1>12. ASSUME s # <<>>, Head(s) # x PROVE r # <<>> /\ Head(r) = Head(s)
  <2>1. Head(s) = s[1]
    BY <1>12
  <2>2. k > 1
    BY <1>1, <1>5, <1>12, <2>1
  <2>3. Len(r) > 0 /\ r[1] = s[1]
    BY <1>5, <1>9, <2>2
  <2>4. r # <<>> /\ Head(r) = r[1]
    BY <1>9, <2>3
  <2> QED BY <2>1, <2>3, <2>4
<1> QED BY <1>9, <1>10, <1>11, <1>12 DEF r

LEMMA AppendOne ==
  ASSUME NEW S, NEW s \in Seq(S), NEW x \in S, IsInjective(s), ~Contains(s, x)
  PROVE  LET r == Append(s, x) IN
         /\ r \in Seq(S) /\ IsInjective(r) /\ \A y : Contains(r, y) <=> Contains(s, y) \/ y = x
         /\ r # <<>> /\ Head(r) = IF s = <<>> THEN x ELSE Head(s)
<1> DEFINE r == Append(s, x)
<1>1. /\ r \in Seq(S) /\ r # <<>> /\ Len(r) = Len(s) + 1
      /\ \A i \in 1 .. Len(s) : r[i] = s[i]
      /\ r[Len(s) + 1] = x /\ Len(s) \in Nat
  BY AppendProperties, LenProperties
<1>2. Head(r) = IF s = <<>> THEN x ELSE Head(s)
  BY HeadTailAppend
<1> HIDE DEF r
<1>3. IsInjective(r)
  BY <1>1 DEF IsInjective, Contains
<1>4. ASSUME NEW y PROVE Contains(r, y) <=> Contains(s, y) \/ y = x
  BY <1>1 DEF Contains
<1> QED BY <1>1, <1>2, <1>3, <1>4 DEF r

LEMMA HeadIn ==
  ASSUME NEW S, NEW s \in Seq(S)
  PROVE  /\ s # <<>> => Head(s) \in S /\ Contains(s, Head(s))
         /\ \A x : Contains(s, x) => s # <<>>
<1>1. ASSUME s # <<>> PROVE Head(s) \in S /\ Contains(s, Head(s))
  <2>1. Head(s) = s[1] /\ Len(s) > 0 /\ Len(s) \in Nat
    BY <1>1
  <2> QED BY <2>1, ElementOfSeq DEF Contains
<1>2. ASSUME NEW x, Contains(s, x) PROVE s # <<>>
  BY <1>2 DEF Contains
<1> QED BY <1>1, <1>2

(* FindFreeSlot finds a free slot.                                          *)
LEMMA FreeSlotFree ==
  ASSUME ObjectTypeOK, \E s \in 0 .. capacity - 1 : object[s] = None
  PROVE  FreeSlot \in 0 .. capacity - 1 /\ object[FreeSlot] = None
<1> DEFINE Free == {s \in 0 .. capacity - 1 : object[s] = None}
           D(s) == (s - lastFree) % capacity
           Ds == {D(s) : s \in Free}
<1>1. capacity \in Nat \ {0} /\ lastFree \in Nat
  BY CapacityAssumption DEF ObjectTypeOK
<1>2. \A s \in Free : D(s) \in Nat
  BY <1>1
<1>3. Ds \subseteq Nat /\ Ds # {}
  BY <1>2
<1>4. PICK d \in Ds : \A e \in Ds : ~(<<e, d>> \in OpToRel(<, Nat))
  <2> HIDE DEF Ds
  <2> QED BY <1>3, NatLessThanWellFounded, WFMin
<1>5. PICK h \in Free : d = D(h)
  OBVIOUS
<1>6. \A s \in Free : D(h) <= D(s)
  <2> SUFFICES ASSUME NEW s \in Free PROVE D(h) <= D(s)
    OBVIOUS
  <2>1. D(s) \in Nat /\ D(h) \in Nat /\ D(s) \in Ds
    BY <1>2
  <2>2. ~(<<D(s), d>> \in OpToRel(<, Nat))
    BY <1>4, <2>1
  <2>3. ~(D(s) < D(h))
    <3>1. \A i, j \in Nat : i < j => <<i, j>> \in OpToRel(<, Nat)
      BY DEF OpToRel
    <3> HIDE DEF D
    <3> QED BY <1>5, <2>1, <2>2, <3>1
  <2> HIDE DEF D
  <2> QED BY <2>1, <2>3
<1>7. \E s \in Free : \A u \in 0 .. capacity - 1 : object[u] = None => D(s) <= D(u)
  BY <1>6
<1>8. FreeSlot \in Free
  BY <1>7 DEF FreeSlot
<1> QED BY <1>8

------------------------------------------------------------------------------
(* The invariant.                                                           *)

\* The handles of an object are its slots in the table, each once.
Listed ==
  /\ capacity # 1
  /\ \A h \in Slots : object[h] # None => h < capacity
  /\ \A o \in Objects :
       IsInjective(handles[o]) /\ \A h \in Slots : object[h] = o <=> Contains(handles[o], h)

IsFirst(h, o) == object[h] = o /\ h = Head(handles[o])

Opening == {"find", "unretain", "retain"}
Giving == {"find", "unretain"}  \* those with a reference to give back

\* What each place of a call implies.
Underway(t) ==
  LET c == call[t] IN
  /\ c.at = "idle" => c = AtRest
  /\ c.object = None <=> c.at \in {"idle", "find", "new", "close"}
  /\ c.at = "find" => \E o \in Objects : IsFirst(c.handle, o) /\ owns[t][c.handle][o] > 0
  /\ c.at \in {"unretain", "retain"} => IsFirst(c.handle, c.object)
  /\ c.at = "unretain" => owns[t][c.handle][c.object] > 0
  /\ c.at \in {"name", "fail"} => \E h \in Slots : owns[t][h][c.object] > 0
  /\ c.at = "name" => c.name # None
  /\ c.at = "fail" => pins[t][c.object] = 0

Knows(t, o) == \/ call[t].object = o \/ pins[t][o] > 0
               \/ \E h \in Slots : owns[t][h][o] > 0

\* Nobody else has come by an object that is to get its name, or to fail.
Unknown(t) ==
  LET o == call[t].object IN
  call[t].at \in {"name", "fail"} => name[o] = None /\ \A u \in Callers \ {t} : ~Knows(u, o)

\* A handle by which threads open its object has a reference beside those
\* that they have only to give back.
Kept ==
  \A h \in Slots : Openers(h, Opening) # {} =>
    count[h] > Cardinality(Openers(h, Giving))

Stashed ==
  \A o \in Objects : Pinned(o) > 0 => handles[o] # <<>> /\ stash[o] = Head(handles[o])

Nameless == \A o \in Objects : refs[o] = 0 => name[o] = None

TableInv == /\ ObjectTypeOK /\ PointersExact /\ HandlesExact /\ NamesResolve
            /\ Listed /\ Kept /\ Stashed /\ Nameless
            /\ \A t \in Callers : Underway(t) /\ Unknown(t)

One(b) == IF b THEN 1 ELSE 0
HandlesOf(o) == {h \in Slots : object[h] = o}
CallsOf(o) == {t \in Callers : call[t].object = o}
Due(t, o) == pins[t][o] + One(call[t].at = "unpin" /\ call[t].object = o)

(* What one member more or less makes of the size of a set.                 *)
LEMMA SizeStep ==
  ASSUME NEW A, NEW B, NEW x, IsFiniteSet(A), \A y : y # x => (y \in A <=> y \in B)
  PROVE  /\ IsFiniteSet(B) /\ Cardinality(A) \in Nat /\ Cardinality(B) \in Nat
         /\ Cardinality(B) = Cardinality(A) + One(x \in B) - One(x \in A)
<1>1. Cardinality(A) \in Nat
  BY FS_CardinalityType
<1>2. CASE x \in A <=> x \in B
  <2>1. A = B
    BY <1>2
  <2> QED BY <1>1, <2>1 DEF One
<1>3. CASE x \in B /\ x \notin A
  <2>1. B = A \cup {x}
    BY <1>3
  <2> QED BY <1>1, <1>3, <2>1, FS_AddElement DEF One
<1>4. CASE x \in A /\ x \notin B
  <2>1. B = A \ {x}
    BY <1>4
  <2>2. IsFiniteSet(B) /\ Cardinality(B) = Cardinality(A) - 1
    BY <1>4, <2>1, FS_RemoveElement
  <2>3. Cardinality(B) \in Nat
    BY <2>2, FS_CardinalityType
  <2> QED BY <1>1, <1>4, <2>2, <2>3 DEF One
<1> QED BY <1>2, <1>3, <1>4

LEMMA Finite ==
  /\ \A o : IsFiniteSet(HandlesOf(o)) /\ IsFiniteSet(CallsOf(o))
  /\ \A h, at : IsFiniteSet(Openers(h, at))
<1>1. IsFiniteSet(Slots)
  BY CapacityAssumption, FS_Interval DEF Slots
<1>2. ASSUME NEW o PROVE IsFiniteSet(HandlesOf(o)) /\ IsFiniteSet(CallsOf(o))
  <2>1. HandlesOf(o) \in SUBSET Slots /\ CallsOf(o) \in SUBSET Callers
    BY DEF HandlesOf, CallsOf
  <2> QED BY <1>1, <2>1, CallersAssumption, FS_Subset
<1>3. ASSUME NEW h, NEW at PROVE IsFiniteSet(Openers(h, at))
  <2>1. Openers(h, at) \in SUBSET Callers
    BY DEF Openers
  <2> QED BY <2>1, CallersAssumption, FS_Subset
<1> QED BY <1>2, <1>3

\* Only t moves.
Moves(t) == /\ t \in Callers
            /\ \A u \in Callers \ {t} : /\ call'[u] = call[u] /\ owns'[u] = owns[u]
                                        /\ pins'[u] = pins[u]

LEMMA CallsOfStep ==
  ASSUME NEW t \in Callers, NEW o, Moves(t)
  PROVE  /\ Cardinality(CallsOf(o)) \in Nat
         /\ Cardinality(CallsOf(o)') =
              Cardinality(CallsOf(o)) + One(call'[t].object = o) - One(call[t].object = o)
<1> DEFINE A == CallsOf(o)
           B == CallsOf(o)'
<1>1. \A u : u # t => (u \in A <=> u \in B)
  BY DEF CallsOf, Moves
<1>2. (t \in A <=> call[t].object = o) /\ (t \in B <=> call'[t].object = o)
  BY DEF CallsOf
<1> HIDE DEF A, B
<1>3. IsFiniteSet(A)
  BY Finite DEF A
<1>4. Cardinality(B) = Cardinality(A) + One(t \in B) - One(t \in A) /\ Cardinality(A) \in Nat
  BY <1>1, <1>3, SizeStep
<1> QED BY <1>2, <1>4 DEF A, B, One

LEMMA OpenersStep ==
  ASSUME NEW t \in Callers, NEW h, NEW at, Moves(t)
  PROVE  /\ Cardinality(Openers(h, at)) \in Nat
         /\ \A u \in Callers \ {t} : u \in Openers(h, at)' <=> u \in Openers(h, at)
         /\ t \in Openers(h, at) <=> call[t].at \in at /\ call[t].handle = h
         /\ t \in Openers(h, at)' <=> call'[t].at \in at /\ call'[t].handle = h
         /\ Cardinality(Openers(h, at)') =
              Cardinality(Openers(h, at)) + One(t \in Openers(h, at)') - One(t \in Openers(h, at))
<1> DEFINE A == Openers(h, at)
           B == {u \in Callers : call'[u].at \in at /\ call'[u].handle = h}
<1>0. B = Openers(h, at)'
  BY DEF Openers
<1>1. \A u : u # t => (u \in A <=> u \in B)
  BY DEF Openers, Moves
<1>2. /\ t \in A <=> call[t].at \in at /\ call[t].handle = h
      /\ t \in B <=> call'[t].at \in at /\ call'[t].handle = h
  BY DEF Openers
<1> HIDE DEF A, B
<1>3. IsFiniteSet(A)
  BY Finite DEF A
<1>4. Cardinality(B) = Cardinality(A) + One(t \in B) - One(t \in A) /\ Cardinality(A) \in Nat
  BY <1>1, <1>3, SizeStep
<1>5. \A u \in Callers \ {t} : u \in B <=> u \in A
  BY <1>1
<1> QED BY <1>0, <1>2, <1>4, <1>5 DEF A

LEMMA HandlesOfStep ==
  ASSUME NEW h \in Slots, NEW o, \A g \in Slots \ {h} : object'[g] = object[g]
  PROVE  /\ Cardinality(HandlesOf(o)) \in Nat
         /\ Cardinality(HandlesOf(o)') =
              Cardinality(HandlesOf(o)) + One(object'[h] = o) - One(object[h] = o)
<1> DEFINE A == HandlesOf(o)
           B == HandlesOf(o)'
<1>1. \A g : g # h => (g \in A <=> g \in B)
  BY DEF HandlesOf
<1>2. (h \in A <=> object[h] = o) /\ (h \in B <=> object'[h] = o)
  BY DEF HandlesOf
<1> HIDE DEF A, B
<1>3. IsFiniteSet(A)
  BY Finite DEF A
<1>4. Cardinality(B) = Cardinality(A) + One(h \in B) - One(h \in A) /\ Cardinality(A) \in Nat
  BY <1>1, <1>3, SizeStep
<1> QED BY <1>2, <1>4 DEF A, B, One

OwnedBy(h, o) == [t \in Callers |-> owns[t][h][o]]
DueBy(o) == [t \in Callers |-> Due(t, o)]

LEMMA OwnedIs ==
  ASSUME ObjectTypeOK, NEW h \in Slots, NEW o \in Objects
  PROVE  /\ OwnedBy(h, o) \in [Callers -> Nat] /\ Owned(h, o) = Total(OwnedBy(h, o))
         /\ Owned(h, o) \in Nat
         /\ Owned(h, o) > 0 <=> \E t \in Callers : owns[t][h][o] > 0
<1>1. \A t \in Callers : owns[t] \in [Slots -> [Objects -> Nat]]
  BY DEF ObjectTypeOK
<1>3. \A t \in Callers : owns[t][h][o] \in Nat
  BY <1>1
<1>4. OwnedBy(h, o) \in [Callers -> Nat] /\ Owned(h, o) = Total(OwnedBy(h, o))
  BY <1>3 DEF OwnedBy, Owned
<1>5. Total(OwnedBy(h, o)) \in Nat
  BY <1>4, PairsFinite
<1>6. \A t \in Callers : OwnedBy(h, o)[t] = owns[t][h][o]
  BY DEF OwnedBy
<1>7. Total(OwnedBy(h, o)) > 0 <=> \E t \in Callers : OwnedBy(h, o)[t] > 0
  BY <1>4, TotalBounds
<1> QED BY <1>4, <1>5, <1>6, <1>7

LEMMA PinnedIs ==
  ASSUME ObjectTypeOK, NEW o \in Objects
  PROVE  /\ DueBy(o) \in [Callers -> Nat] /\ Pinned(o) = Total(DueBy(o))
         /\ Pinned(o) \in Nat
         /\ Pinned(o) > 0 <=> \E t \in Callers : Due(t, o) > 0
<1>1. \A t \in Callers : Due(t, o) \in Nat
  BY DEF ObjectTypeOK, Due, One
<1>2. DueBy(o) \in [Callers -> Nat] /\ Pinned(o) = Total(DueBy(o))
  BY <1>1 DEF DueBy, Due, One, Pinned
<1>3. Total(DueBy(o)) \in Nat
  BY <1>2, PairsFinite
<1>4. \A t \in Callers : DueBy(o)[t] = Due(t, o)
  BY DEF DueBy
<1>5. Total(DueBy(o)) > 0 <=> \E t \in Callers : DueBy(o)[t] > 0
  BY <1>2, TotalBounds
<1> QED BY <1>2, <1>3, <1>4, <1>5

(* A sum moves with the one who moves.                                      *)
LEMMA TotalMoves ==
  ASSUME NEW f \in [Callers -> Nat], NEW g \in [Callers -> Nat], NEW t \in Callers,
         NEW n \in {-1, 0, 1}, g[t] = f[t] + n, \A u \in Callers \ {t} : g[u] = f[u]
  PROVE  Total(g) = Total(f) + n
<1>0. Total(f) \in Nat /\ Total(g) \in Nat
  BY PairsFinite
<1>1. CASE n = 1
  BY <1>1, TotalGrows
<1>2. CASE n = 0
  <2>1. f = g
    BY <1>2
  <2> QED BY <1>0, <1>2, <2>1
<1>3. CASE n = -1
  <2>1. f[t] = g[t] + 1
    BY <1>3
  <2>2. Total(f) = Total(g) + 1
    BY <2>1, TotalGrows
  <2> QED BY <1>0, <1>3, <2>2
<1> QED BY <1>1, <1>2, <1>3

LEMMA PinnedStep ==
  ASSUME ObjectTypeOK, pins' \in [Callers -> [Objects -> Nat]],
         NEW t \in Callers, Moves(t), NEW o \in Objects,
         NEW n \in {-1, 0, 1}, Due(t, o)' = Due(t, o) + n
  PROVE  Pinned(o)' = Pinned(o) + n
<1> DEFINE f == DueBy(o)
           g == DueBy(o)'
<1>1. f \in [Callers -> Nat] /\ Pinned(o) = Total(f)
  BY PinnedIs
<1>2. g \in [Callers -> Nat] /\ Pinned(o)' = Total(g)
  <2>1. g \in [Callers -> Nat]
    <3>1. \A u \in Callers : Due(u, o)' \in Nat
      BY DEF Due, One
    <3> QED BY <3>1 DEF DueBy
  <2>2. Pinned(o)' = Total(g)
    <3>1. \A u \in Callers :
            Due(u, o)' = pins'[u][o] + IF call'[u].at = "unpin" /\ call'[u].object = o
                                         THEN 1 ELSE 0
      BY DEF Due, One
    <3>2. g = [u \in Callers |-> pins'[u][o] + IF call'[u].at = "unpin" /\ call'[u].object = o
                                                 THEN 1 ELSE 0]
      BY <3>1 DEF DueBy
    <3> QED BY <3>2 DEF Pinned, Total
  <2> QED BY <2>1, <2>2
<1>3. g[t] = f[t] + n
  BY DEF DueBy
<1>4. \A u \in Callers \ {t} : g[u] = f[u]
  BY DEF DueBy, Due, Moves
<1> HIDE DEF f, g
<1> QED BY <1>1, <1>2, <1>3, <1>4, TotalMoves

LEMMA OwnedStep ==
  ASSUME ObjectTypeOK, NEW t \in Callers, NEW h \in Slots, NEW o \in Objects,
         NEW n \in {-1, 1}, Own(t, h, o, n), owns[t][h][o] + n >= 0
  PROVE  /\ owns' \in [Callers -> [Slots -> [Objects -> Nat]]]
         /\ \A u \in Callers \ {t} : owns'[u] = owns[u]
         /\ owns'[t][h][o] = owns[t][h][o] + n
         /\ \A g \in Slots, p \in Objects :
              g # h \/ p # o => /\ owns'[t][g][p] = owns[t][g][p]
                                /\ Owned(g, p)' = Owned(g, p)
         /\ Owned(h, o)' = Owned(h, o) + n
<1>1. owns \in [Callers -> [Slots -> [Objects -> Nat]]]
  BY DEF ObjectTypeOK
<1>2. owns' = [owns EXCEPT ![t][h][o] = owns[t][h][o] + n]
  BY <1>1 DEF Own
<1>3. owns[t][h][o] \in Nat /\ owns[t][h][o] + n \in Nat
  BY <1>1
<1>4. owns' \in [Callers -> [Slots -> [Objects -> Nat]]]
  BY <1>1, <1>2, <1>3
<1>5. \A u \in Callers \ {t} : owns'[u] = owns[u]
  BY <1>1, <1>2
<1>7. owns'[t][h][o] = owns[t][h][o] + n
  BY <1>1, <1>2
<1>8. \A g \in Slots, p \in Objects : g # h \/ p # o => owns'[t][g][p] = owns[t][g][p]
  BY <1>1, <1>2
<1>9. ASSUME NEW g \in Slots, NEW p \in Objects, NEW m \in {-1, 0, 1},
             owns'[t][g][p] = owns[t][g][p] + m
      PROVE  Owned(g, p)' = Owned(g, p) + m
  <2> DEFINE a == OwnedBy(g, p)
             b == [u \in Callers |-> owns'[u][g][p]]
  <2>1. a \in [Callers -> Nat] /\ Owned(g, p) = Total(a)
    BY OwnedIs
  <2>3. b \in [Callers -> Nat]
    BY <1>4
  <2>4. Owned(g, p)' = Total(b)
    BY DEF Owned, Total
  <2>5. b[t] = a[t] + m
    BY <1>9 DEF OwnedBy
  <2>6. \A u \in Callers \ {t} : b[u] = a[u]
    BY <1>5 DEF OwnedBy
  <2> HIDE DEF a, b
  <2> QED BY <2>1, <2>3, <2>4, <2>5, <2>6, TotalMoves
<1>10. \A g \in Slots, p \in Objects : g # h \/ p # o => Owned(g, p)' = Owned(g, p)
  <2> SUFFICES ASSUME NEW g \in Slots, NEW p \in Objects, g # h \/ p # o
               PROVE  Owned(g, p)' = Owned(g, p)
    OBVIOUS
  <2>2. owns[t][g][p] \in Nat
    BY <1>1
  <2>3. owns'[t][g][p] = owns[t][g][p] + 0
    BY <1>8, <2>2
  <2>4. Owned(g, p) \in Nat /\ Owned(g, p)' = Owned(g, p) + 0
    BY <1>9, <2>3, OwnedIs
  <2> QED BY <2>4
<1>11. Owned(h, o)' = Owned(h, o) + n
  BY <1>7, <1>9
<1> QED BY <1>4, <1>5, <1>7, <1>8, <1>10, <1>11

------------------------------------------------------------------------------
(* What the invariant says of one object.                                   *)

TableTypes ==
  /\ capacity \in 0 .. MaxCapacity /\ lastFree \in 0 .. capacity
  /\ object \in [Slots -> Objects \cup {None}] /\ count \in [Slots -> Int]
  /\ names \in [Names -> Slots \cup {None}]
  /\ refs \in [Objects -> Nat] /\ handles \in [Objects -> Seq(Slots)]
  /\ name \in [Objects -> Names \cup {None}] /\ stash \in [Objects -> Slots]

Places == {"idle", "find", "unretain", "retain", "new", "name", "fail",
           "add", "release", "close", "pin", "unpin", "drop"}

CallTypes ==
  /\ call \in [Callers -> [at : Places, name : Names \cup {None}, handle : Slots,
                           object : Objects \cup {None}]]
  /\ owns \in [Callers -> [Slots -> [Objects -> Nat]]]
  /\ pins \in [Callers -> [Objects -> Nat]]

LEMMA TypesSplit == ObjectTypeOK <=> TableTypes /\ CallTypes
  BY DEF ObjectTypeOK, TableTypes, CallTypes, Places

LEMMA TypesMeet == TableTypes' /\ CallTypes' => ObjectTypeOK'
  BY DEF ObjectTypeOK, TableTypes, CallTypes, Places

LEMMA FirstHandle ==
  ASSUME ObjectTypeOK, Listed, NEW o \in Objects
  PROVE  /\ \A h \in Slots : object[h] = o => handles[o] # <<>>
         /\ handles[o] # <<>> => /\ Head(handles[o]) \in Slots
                                 /\ object[Head(handles[o])] = o
                                 /\ Primaries(o) = {Head(handles[o])}
         /\ Primaries(o) \subseteq Slots
         /\ None \notin Slots /\ None \notin Objects /\ None \notin Names
<1>1. handles[o] \in Seq(Slots)
  BY DEF ObjectTypeOK
<1>2. \A h \in Slots : object[h] = o <=> Contains(handles[o], h)
  BY DEF Listed
<1>3. \A h \in Slots : object[h] = o => handles[o] # <<>>
  BY <1>1, <1>2, HeadIn
<1>4. handles[o] # <<>> => Head(handles[o]) \in Slots /\ object[Head(handles[o])] = o
  BY <1>1, <1>2, HeadIn
<1>5. 0 .. capacity - 1 \subseteq Slots
  BY CapacityAssumption DEF ObjectTypeOK, Slots
<1> QED BY <1>3, <1>4, <1>5, NoneAssumption DEF Primaries

(* An object has as many references as its handles and calls, so whoever    *)
(* knows it finds it alive.                                                 *)
LEMMA Alive ==
  ASSUME TableInv, NEW o \in Objects
  PROVE  /\ \A h \in Slots : object[h] = o => refs[o] > 0
         /\ \A t \in Callers : Knows(t, o) => refs[o] > 0
         /\ \A h \in Slots, t \in Callers : owns[t][h][o] > 0 => object[h] = o
         /\ \A t \in Callers : Due(t, o) > 0 => handles[o] # <<>>
         /\ \A h \in Slots, t \in Callers :
              object[h] = o /\ call[t].object = o => refs[o] > 1
<1> USE DEF TableInv
<1>1. /\ refs[o] = Cardinality(HandlesOf(o)) + Cardinality(CallsOf(o))
      /\ IsFiniteSet(HandlesOf(o)) /\ IsFiniteSet(CallsOf(o))
  BY Finite DEF PointersExact, HandlesOf, CallsOf
<1>2. Cardinality(HandlesOf(o)) \in Nat /\ Cardinality(CallsOf(o)) \in Nat
  BY <1>1, FS_CardinalityType
<1>3. /\ HandlesOf(o) # {} => Cardinality(HandlesOf(o)) > 0
      /\ CallsOf(o) # {} => Cardinality(CallsOf(o)) > 0
  BY <1>1, <1>2, FS_EmptySet
<1>4. \A h \in Slots : object[h] = o => HandlesOf(o) # {}
  BY DEF HandlesOf
<1>5. \A t \in Callers : call[t].object = o => CallsOf(o) # {}
  BY DEF CallsOf
<1>6. ASSUME NEW h \in Slots, NEW t \in Callers, owns[t][h][o] > 0 PROVE object[h] = o
  <2>1. Owned(h, o) > 0
    BY <1>6, OwnedIs
  <2> QED BY <2>1 DEF HandlesExact
<1>7. ASSUME NEW t \in Callers, Due(t, o) > 0 PROVE handles[o] # <<>>
  <2>1. Pinned(o) > 0
    BY <1>7, PinnedIs
  <2> QED BY <2>1 DEF Stashed
<1>8. \A t \in Callers : pins[t][o] > 0 => Due(t, o) > 0
  BY DEF Due, One, ObjectTypeOK
<1>9. handles[o] # <<>> => HandlesOf(o) # {}
  BY <1>4, FirstHandle
<1>10. \A t \in Callers : Knows(t, o) => HandlesOf(o) # {} \/ CallsOf(o) # {}
  BY <1>4, <1>5, <1>6, <1>7, <1>8, <1>9 DEF Knows
<1>11. HandlesOf(o) # {} \/ CallsOf(o) # {} => refs[o] > 0
  BY <1>1, <1>2, <1>3
<1>12. HandlesOf(o) # {} /\ CallsOf(o) # {} => refs[o] > 1
  BY <1>1, <1>2, <1>3
<1> QED BY <1>4, <1>5, <1>6, <1>7, <1>10, <1>11, <1>12

------------------------------------------------------------------------------
(* What a step does to the counts, by its effect on the table.              *)

Counting == /\ PointersExact /\ HandlesExact /\ NamesResolve
            /\ Listed /\ Stashed /\ Nameless

(* A reference to a handle comes or goes, and the handle stays.             *)
LEMMA Recount ==
  ASSUME TableInv, NEW t \in Callers, Moves(t), NEW h \in Slots, NEW o \in Objects,
         object[h] = o, count' \in [Slots -> Int], count'[h] > 0,
         \A g \in Slots \ {h} : count'[g] = count[g],
         UNCHANGED <<capacity, lastFree, object, names, objects>>,
         call'[t].object = call[t].object,
         \A g \in Slots, p \in Objects : g # h \/ p # o => Owned(g, p)' = Owned(g, p),
         \A p \in Objects : p # o => Pinned(p)' = Pinned(p),
         \/ Owned(h, o)' = Owned(h, o) + (count'[h] - count[h]) /\ Pinned(o)' = Pinned(o)
         \/ /\ Owned(h, o)' = Owned(h, o) /\ Pinned(o)' = Pinned(o) + (count'[h] - count[h])
            /\ h = Head(handles[o]) /\ (count'[h] > count[h] => stash[o] = h)
  PROVE  TableTypes' /\ Counting'
<1> USE DEF TableInv, objects
<1>0. TableTypes'
  BY TypesSplit DEF TableTypes
<1>1. PointersExact'
  <2> SUFFICES ASSUME NEW p \in Objects
               PROVE  refs'[p] = Cardinality(HandlesOf(p)') + Cardinality(CallsOf(p)')
    BY DEF PointersExact, HandlesOf, CallsOf
  <2>1. refs[p] = Cardinality(HandlesOf(p)) + Cardinality(CallsOf(p))
    BY DEF PointersExact, HandlesOf, CallsOf
  <2>2. Cardinality(HandlesOf(p)') = Cardinality(HandlesOf(p))
    BY DEF HandlesOf
  <2>3. Cardinality(CallsOf(p)') = Cardinality(CallsOf(p))
    BY CallsOfStep DEF One
  <2> QED BY <2>1, <2>2, <2>3
<1>2. HandlesExact'
  <2> SUFFICES ASSUME NEW g \in Slots, NEW p \in Objects
               PROVE  IF object[g] = p
                        THEN /\ count'[g] = Owned(g, p)' + (IF g = Head(handles[p])
                                                            THEN Pinned(p)' ELSE 0)
                             /\ count'[g] > 0
                        ELSE Owned(g, p)' = 0
    BY DEF HandlesExact
  <2>1. IF object[g] = p
          THEN /\ count[g] = Owned(g, p) + (IF g = Head(handles[p]) THEN Pinned(p) ELSE 0)
               /\ count[g] > 0
          ELSE Owned(g, p) = 0
    BY DEF HandlesExact
  <2>2. Owned(g, p) \in Nat /\ Pinned(p) \in Nat /\ count \in [Slots -> Int]
    BY OwnedIs, PinnedIs DEF ObjectTypeOK
  <2>3. count'[g] \in Int /\ (g # h => count'[g] = count[g])
    OBVIOUS
  <2>4. CASE g = h /\ p = o
    BY <2>1, <2>2, <2>3, <2>4
  <2>5. CASE g = h /\ p # o
    BY <2>1, <2>5
  <2>6. CASE g # h /\ p = o
    <3>1. Owned(g, p)' = Owned(g, p) /\ count'[g] = count[g]
      BY <2>3, <2>6
    <3>2. g = Head(handles[p]) => Pinned(p)' = Pinned(p)
      BY <2>6
    <3> QED BY <2>1, <3>1, <3>2
  <2>7. CASE g # h /\ p # o
    BY <2>1, <2>3, <2>7
  <2> QED BY <2>4, <2>5, <2>6, <2>7
<1>3. NamesResolve' /\ Listed' /\ Nameless'
  BY DEF NamesResolve, Listed, Nameless
<1>4. Stashed'
  <2> SUFFICES ASSUME NEW p \in Objects, Pinned(p)' > 0
               PROVE  handles[p] # <<>> /\ stash[p] = Head(handles[p])
    BY DEF Stashed
  <2>1. Pinned(p) > 0 => handles[p] # <<>> /\ stash[p] = Head(handles[p])
    BY DEF Stashed
  <2>2. Pinned(p) \in Nat
    BY PinnedIs
  <2>3. CASE Pinned(p) > 0
    BY <2>1, <2>3
  <2>4. CASE ~(Pinned(p) > 0)
    <3>1. p = o /\ h = Head(handles[o]) /\ stash[o] = h
      <4>1. count[h] \in Int /\ count'[h] \in Int
        BY DEF ObjectTypeOK
      <4> QED BY <2>2, <2>4, <4>1
    <3> QED BY <3>1, FirstHandle
  <2> QED BY <2>3, <2>4
<1> QED BY <1>0, <1>1, <1>2, <1>3, <1>4 DEF Counting

LEMMA ReleaseKeeps ==
  ASSUME TableTypes, NEW o \in Objects, refs[o] > 0, Release(o)
  PROVE  /\ refs' \in [Objects -> Nat] /\ refs'[o] = refs[o] - 1
         /\ name' \in [Objects -> Names \cup {None}] /\ stash' \in [Objects -> Slots]
         /\ \A p \in Objects \ {o} : /\ refs'[p] = refs[p] /\ name'[p] = name[p]
                                     /\ stash'[p] = stash[p]
         /\ name'[o] = IF refs[o] = 1 THEN None ELSE name[o]
         /\ refs[o] # 1 => stash'[o] = stash[o]
<1>1. 0 \in Slots
  BY CapacityAssumption DEF Slots
<1> QED BY <1>1 DEF TableTypes, Release

(* The last reference to a handle goes, and the handle with it.             *)
LEMMA Removal ==
  ASSUME TableInv, NEW t \in Callers, Moves(t), NEW h \in Slots, NEW o \in Objects,
         object[h] = o, RemoveHandle(h), UNCHANGED <<capacity, lastFree>>,
         call'[t].object = call[t].object,
         \A g \in Slots, p \in Objects : g # h \/ p # o => Owned(g, p)' = Owned(g, p),
         Owned(h, o)' = 0,
         \A p \in Objects : p # o => Pinned(p)' = Pinned(p),
         Pinned(o)' = IF h = Head(handles[o]) THEN 0 ELSE Pinned(o)
  PROVE  /\ TableTypes' /\ Counting'
         /\ \A g \in Slots, p \in Objects : g # h /\ IsFirst(g, p) => IsFirst(g, p)'
         /\ \A p \in Objects : name'[p] \in {name[p], None}
         /\ \A g \in Slots : g # h => count'[g] = count[g]
<1> USE DEF TableInv
<1>1. TableTypes /\ refs[o] > 0
  BY TypesSplit, Alive
<1>2. /\ object' = [object EXCEPT ![h] = None] /\ count' = [count EXCEPT ![h] = 0]
      /\ handles' = [handles EXCEPT ![o] = RemoveFirst(handles[o], h)]
      /\ names' = [n \in Names |-> IF n = name[o] THEN None ELSE names[n]]
      /\ Release(o)
  BY <1>1 DEF RemoveHandle, TableTypes
<1>3. /\ refs' \in [Objects -> Nat] /\ refs'[o] = refs[o] - 1
      /\ name' \in [Objects -> Names \cup {None}] /\ stash' \in [Objects -> Slots]
      /\ \A p \in Objects \ {o} : /\ refs'[p] = refs[p] /\ name'[p] = name[p]
                                  /\ stash'[p] = stash[p]
      /\ name'[o] = IF refs[o] = 1 THEN None ELSE name[o]
      /\ refs[o] # 1 => stash'[o] = stash[o]
  BY <1>1, <1>2, ReleaseKeeps
<1>4. /\ handles'[o] \in Seq(Slots) /\ IsInjective(handles'[o])
      /\ \A g : Contains(handles'[o], g) <=> Contains(handles[o], g) /\ g # h
      /\ handles[o] # <<>> /\ Head(handles[o]) # h =>
           handles'[o] # <<>> /\ Head(handles'[o]) = Head(handles[o])
  <2>1. handles[o] \in Seq(Slots) /\ IsInjective(handles[o]) /\ Contains(handles[o], h)
    BY <1>1 DEF TableTypes, Listed
  <2>2. handles'[o] = RemoveFirst(handles[o], h)
    BY <1>1, <1>2 DEF TableTypes
  <2> QED BY <2>1, <2>2, EraseOne
<1>5. \A p \in Objects \ {o} : handles'[p] = handles[p]
  BY <1>1, <1>2 DEF TableTypes
<1>6. /\ object'[h] = None /\ \A g \in Slots \ {h} : object'[g] = object[g]
      /\ count'[h] = 0 /\ \A g \in Slots \ {h} : count'[g] = count[g]
  BY <1>1, <1>2 DEF TableTypes
<1>7. TableTypes'
  <2>1. object' \in [Slots -> Objects \cup {None}] /\ count' \in [Slots -> Int]
    BY <1>1, <1>2 DEF TableTypes
  <2>2. handles' \in [Objects -> Seq(Slots)]
    BY <1>1, <1>2, <1>4 DEF TableTypes
  <2>3. names' \in [Names -> Slots \cup {None}]
    BY <1>1, <1>2 DEF TableTypes
  <2> QED BY <1>1, <1>3, <2>1, <2>2, <2>3 DEF TableTypes
<1>8. None \notin Slots /\ None \notin Objects /\ None \notin Names
  BY FirstHandle
<1>9. PointersExact'
  <2> SUFFICES ASSUME NEW p \in Objects
               PROVE  refs'[p] = Cardinality(HandlesOf(p)') + Cardinality(CallsOf(p)')
    BY DEF PointersExact, HandlesOf, CallsOf
  <2>1. refs[p] = Cardinality(HandlesOf(p)) + Cardinality(CallsOf(p))
    BY DEF PointersExact, HandlesOf, CallsOf
  <2>2. /\ Cardinality(HandlesOf(p)') = Cardinality(HandlesOf(p)) - One(p = o)
        /\ Cardinality(HandlesOf(p)) \in Nat
    BY <1>6, <1>8, HandlesOfStep DEF One
  <2>3. Cardinality(CallsOf(p)') = Cardinality(CallsOf(p)) /\ Cardinality(CallsOf(p)) \in Nat
    BY CallsOfStep DEF One
  <2> QED BY <1>3, <2>1, <2>2, <2>3 DEF One
<1>10. HandlesExact'
  <2> SUFFICES ASSUME NEW g \in Slots, NEW p \in Objects
               PROVE  IF object'[g] = p
                        THEN /\ count'[g] = Owned(g, p)' + (IF g = Head(handles'[p])
                                                            THEN Pinned(p)' ELSE 0)
                             /\ count'[g] > 0
                        ELSE Owned(g, p)' = 0
    BY DEF HandlesExact
  <2>1. IF object[g] = p
          THEN /\ count[g] = Owned(g, p) + (IF g = Head(handles[p]) THEN Pinned(p) ELSE 0)
               /\ count[g] > 0
          ELSE Owned(g, p) = 0
    BY DEF HandlesExact
  <2>2. CASE g = h
    BY <1>6, <1>8, <2>1, <2>2
  <2>3. CASE g # h /\ p # o
    BY <1>5, <1>6, <2>1, <2>3
  <2>4. CASE g # h /\ p = o
    <3>1. Owned(g, o)' = Owned(g, o) /\ object'[g] = object[g] /\ count'[g] = count[g]
      BY <1>6, <2>4
    <3>2. CASE h = Head(handles[o])
      <4>1. count[g] = Owned(g, o) \/ object[g] # o
        BY <2>1, <2>4, <3>2, OwnedIs
      <4>2. Pinned(o)' = 0 /\ Owned(g, o) \in Nat
        BY <3>2, OwnedIs
      <4> QED BY <2>1, <2>4, <3>1, <4>1, <4>2
    <3>3. CASE h # Head(handles[o])
      <4>1. Head(handles'[o]) = Head(handles[o]) /\ Pinned(o)' = Pinned(o)
        BY <1>4, <3>3, FirstHandle
      <4> QED BY <2>1, <2>4, <3>1, <4>1
    <3> QED BY <3>2, <3>3
  <2> QED BY <2>2, <2>3, <2>4
<1>11. ASSUME NEW g \in Slots, NEW p \in Objects, g # h, IsFirst(g, p) PROVE IsFirst(g, p)'
  <2>1. object'[g] = p /\ g = Head(handles[p])
    BY <1>6, <1>11 DEF IsFirst
  <2>2. CASE p = o
    BY <1>4, <1>11, <2>1, <2>2, FirstHandle DEF IsFirst
  <2>3. CASE p # o
    BY <1>5, <2>1, <2>3 DEF IsFirst
  <2> QED BY <2>2, <2>3
<1>12. NamesResolve'
  <2> SUFFICES ASSUME NEW n \in Names, names'[n] # None
               PROVE  LET p == object'[names'[n]] IN
                      p # None /\ name'[p] = n /\ names'[n] = Head(handles'[p])
    BY DEF NamesResolve
  <2>1. names'[n] = names[n] /\ n # name[o] /\ names[n] \in Slots
    BY <1>1, <1>2 DEF TableTypes
  <2> DEFINE g == names[n]
             p == object[g]
  <2>2. p # None /\ name[p] = n /\ g = Head(handles[p])
    BY <2>1 DEF NamesResolve
  <2>3. p \in Objects /\ p # o
    BY <1>1, <2>1, <2>2 DEF TableTypes
  <2>4. g # h
    BY <2>3
  <2>5. IsFirst(g, p)'
    BY <1>11, <2>1, <2>2, <2>3, <2>4 DEF IsFirst
  <2>6. object'[g] = p /\ g = Head(handles'[p]) /\ name'[p] = n
    BY <1>3, <1>5, <1>6, <2>1, <2>2, <2>3, <2>4
  <2> QED BY <2>1, <2>2, <2>6
<1>13. Listed'
  <2>1. capacity' # 1 /\ \A g \in Slots : object'[g] # None => g < capacity'
    BY <1>6 DEF Listed
  <2>2. ASSUME NEW p \in Objects
        PROVE  /\ IsInjective(handles'[p])
               /\ \A g \in Slots : object'[g] = p <=> Contains(handles'[p], g)
    <3>1. IsInjective(handles[p]) /\ \A g \in Slots : object[g] = p <=> Contains(handles[p], g)
      BY DEF Listed
    <3>2. CASE p = o
      BY <1>4, <1>6, <1>8, <3>1, <3>2
    <3>3. CASE p # o
      BY <1>5, <1>6, <1>8, <3>1, <3>3
    <3> QED BY <3>2, <3>3
  <2> QED BY <2>1, <2>2 DEF Listed
<1>14. Stashed'
  <2> SUFFICES ASSUME NEW p \in Objects, Pinned(p)' > 0
               PROVE  handles'[p] # <<>> /\ stash'[p] = Head(handles'[p])
    BY DEF Stashed
  <2>1. CASE p # o
    BY <1>3, <1>5, <2>1 DEF Stashed
  <2>2. CASE p = o
    <3>1. h # Head(handles[o]) /\ Pinned(o) > 0
      BY <2>2
    <3>2. handles'[o] # <<>> /\ Head(handles'[o]) = Head(handles[o]) /\ stash[o] = Head(handles[o])
      BY <1>4, <3>1 DEF Stashed
    <3>3. refs[o] # 1
      <4>1. Head(handles[o]) \in HandlesOf(o)'
        BY <1>6, <3>1, <3>2, FirstHandle DEF HandlesOf, Stashed
      <4>2. IsFiniteSet(HandlesOf(o)')
        <5>1. /\ IsFiniteSet(HandlesOf(o))
              /\ \A g : g # h => (g \in HandlesOf(o) <=> g \in HandlesOf(o)')
          BY <1>6, Finite DEF HandlesOf
        <5> QED BY <5>1, SizeStep
      <4>3. Cardinality(HandlesOf(o)') \in Nat \ {0}
        BY <4>1, <4>2, FS_EmptySet, FS_CardinalityType
      <4>4. Cardinality(CallsOf(o)') \in Nat
        BY CallsOfStep DEF One
      <4>5. refs'[o] = Cardinality(HandlesOf(o)') + Cardinality(CallsOf(o)')
        BY <1>9 DEF PointersExact, HandlesOf, CallsOf
      <4> QED BY <1>3, <4>3, <4>4, <4>5
    <3> QED BY <1>3, <2>2, <3>2, <3>3
  <2> QED BY <2>1, <2>2
<1>15. Nameless'
  <2>1. ASSUME NEW p \in Objects, refs'[p] = 0 PROVE name'[p] = None
    <3>1. refs[o] \in Nat /\ (refs[p] = 0 => name[p] = None)
      BY <1>1 DEF Nameless, TableTypes
    <3>2. CASE p = o
      BY <1>3, <2>1, <3>1, <3>2
    <3>3. CASE p # o
      BY <1>3, <2>1, <3>1, <3>3
    <3> QED BY <3>2, <3>3
  <2> QED BY <2>1 DEF Nameless
<1>16. /\ \A p \in Objects : name'[p] \in {name[p], None}
       /\ \A g \in Slots : g # h => count'[g] = count[g]
  BY <1>3, <1>6
<1>17. \A g \in Slots, p \in Objects : g # h /\ IsFirst(g, p) => IsFirst(g, p)'
  BY <1>11
<1>18. Counting'
  BY <1>9, <1>10, <1>12, <1>13, <1>14, <1>15 DEF Counting
<1> QED BY <1>7, <1>16, <1>17, <1>18

(* An object gets a handle.                                                 *)
LEMMA Grown ==
  ASSUME NEW a \in Nat, NEW b \in Nat
  PROVE  Max({a, b}) \in {a, b} /\ Max({a, b}) >= a /\ Max({a, b}) >= b
<1>1. \E x \in {a, b} : \A y \in {a, b} : x >= y
  <2>1. a >= b \/ b >= a
    OBVIOUS
  <2> QED BY <2>1
<1> QED BY <1>1 DEF Max

LEMMA SlotAdded ==
  ASSUME ObjectTypeOK, Listed, NEW h \in Slots, NEW o \in Objects, NEW extra \in {0, 1},
         AddHandle(o, extra, h)
  PROVE  /\ object[h] = None
         /\ capacity' \in 0 .. MaxCapacity /\ lastFree' \in 0 .. capacity' /\ capacity' # 1
         /\ capacity <= capacity' /\ h < capacity'
<1>1. capacity \in 0 .. MaxCapacity /\ lastFree \in 0 .. capacity
  BY DEF ObjectTypeOK
<1>2. CASE \E s \in 0 .. capacity - 1 : object[s] = None
  <2>1. h = FreeSlot /\ UNCHANGED <<capacity, lastFree>>
    BY <1>2 DEF AddHandle
  <2>2. h \in 0 .. capacity - 1 /\ object[h] = None
    BY <1>2, <2>1, FreeSlotFree
  <2> QED BY <1>1, <2>1, <2>2, CapacityAssumption DEF Listed
<1>3. CASE ~(\E s \in 0 .. capacity - 1 : object[s] = None)
  <2>1. /\ h = capacity /\ capacity' = Max({InitialCapacity, 2 * capacity})
        /\ capacity' <= MaxCapacity /\ lastFree' = capacity + 1
    BY <1>3 DEF AddHandle
  <2>2. InitialCapacity \in Nat /\ 2 * capacity \in Nat /\ InitialCapacity >= 2
    BY <1>1, CapacityAssumption
  <2>3. capacity' \in Nat /\ capacity' >= InitialCapacity /\ capacity' >= 2 * capacity
    BY <2>1, <2>2, Grown
  <2>4. object[h] = None
    BY <1>1, <2>1, CapacityAssumption DEF Listed
  <2> QED BY <1>1, <2>1, <2>2, <2>3, <2>4, CapacityAssumption
<1> QED BY <1>2, <1>3

LEMMA Addition ==
  ASSUME TableInv, NEW t \in Callers, Moves(t), NEW h \in Slots, NEW o \in Objects,
         NEW extra \in {0, 1}, AddHandle(o, extra, h), UNCHANGED <<names, name>>,
         Own(t, h, o, 1), \A p \in Objects : Pinned(p)' = Pinned(p),
         \/ /\ extra = 1 /\ refs[o] = 0 /\ stash' = [stash EXCEPT ![o] = h]
            /\ call[t].object = None /\ call'[t].object = o
         \/ /\ extra = 0 /\ stash' = stash
            /\ call'[t].object = call[t].object
  PROVE  /\ TableTypes' /\ Counting'
         /\ object[h] = None
         /\ \A g \in Slots, p \in Objects : IsFirst(g, p) => IsFirst(g, p)'
         /\ \A g \in Slots : g # h => count'[g] = count[g]
<1> USE DEF TableInv
<1>1. TableTypes
  BY TypesSplit
<1>2. /\ object' = [object EXCEPT ![h] = o] /\ count' = [count EXCEPT ![h] = 1]
      /\ handles' = [handles EXCEPT ![o] = Append(handles[o], h)]
      /\ refs' = [refs EXCEPT ![o] = refs[o] + extra + 1]
  BY <1>1 DEF AddHandle, TableTypes
<1>3. /\ object[h] = None
      /\ capacity' \in 0 .. MaxCapacity /\ lastFree' \in 0 .. capacity' /\ capacity' # 1
      /\ capacity <= capacity' /\ h < capacity'
  BY SlotAdded
<1>4. None \notin Slots /\ None \notin Objects /\ None \notin Names
  BY FirstHandle
<1>5. /\ handles'[o] \in Seq(Slots) /\ IsInjective(handles'[o]) /\ handles'[o] # <<>>
      /\ \A g : Contains(handles'[o], g) <=> Contains(handles[o], g) \/ g = h
      /\ Head(handles'[o]) = IF handles[o] = <<>> THEN h ELSE Head(handles[o])
  <2>1. handles[o] \in Seq(Slots) /\ IsInjective(handles[o]) /\ ~Contains(handles[o], h)
    BY <1>1, <1>3, <1>4 DEF TableTypes, Listed
  <2>2. handles'[o] = Append(handles[o], h)
    BY <1>1, <1>2 DEF TableTypes
  <2> QED BY <2>1, <2>2, AppendOne
<1>6. \A p \in Objects \ {o} : handles'[p] = handles[p]
  BY <1>1, <1>2 DEF TableTypes
<1>7. /\ object'[h] = o /\ \A g \in Slots \ {h} : object'[g] = object[g]
      /\ count'[h] = 1 /\ \A g \in Slots \ {h} : count'[g] = count[g]
  BY <1>1, <1>2 DEF TableTypes
<1>8. /\ refs' \in [Objects -> Nat] /\ refs'[o] = refs[o] + extra + 1
      /\ \A p \in Objects \ {o} : refs'[p] = refs[p]
  BY <1>1, <1>2 DEF TableTypes
<1>9. TableTypes'
  <2>1. object' \in [Slots -> Objects \cup {None}] /\ count' \in [Slots -> Int]
    BY <1>1, <1>2 DEF TableTypes
  <2>2. handles' \in [Objects -> Seq(Slots)]
    BY <1>1, <1>2, <1>5 DEF TableTypes
  <2>3. stash' \in [Objects -> Slots]
    BY <1>1 DEF TableTypes
  <2> QED BY <1>1, <1>3, <1>8, <2>1, <2>2, <2>3 DEF TableTypes
<1>10. /\ Owned(h, o)' = Owned(h, o) + 1
       /\ \A g \in Slots, p \in Objects : g # h \/ p # o => Owned(g, p)' = Owned(g, p)
  <2>1. owns[t][h][o] + 1 >= 0
    BY DEF ObjectTypeOK
  <2> QED BY <2>1, OwnedStep
<1>11. PointersExact'
  <2> SUFFICES ASSUME NEW p \in Objects
               PROVE  refs'[p] = Cardinality(HandlesOf(p)') + Cardinality(CallsOf(p)')
    BY DEF PointersExact, HandlesOf, CallsOf
  <2>1. refs[p] = Cardinality(HandlesOf(p)) + Cardinality(CallsOf(p))
    BY DEF PointersExact, HandlesOf, CallsOf
  <2>2. /\ Cardinality(HandlesOf(p)') = Cardinality(HandlesOf(p)) + One(p = o)
        /\ Cardinality(HandlesOf(p)) \in Nat
    BY <1>3, <1>4, <1>7, HandlesOfStep DEF One
  <2>3. /\ Cardinality(CallsOf(p)') = Cardinality(CallsOf(p)) + (IF p = o THEN extra ELSE 0)
        /\ Cardinality(CallsOf(p)) \in Nat
    <3>1. /\ Cardinality(CallsOf(p)) \in Nat
          /\ Cardinality(CallsOf(p)') = Cardinality(CallsOf(p))
               + One(call'[t].object = p) - One(call[t].object = p)
      BY CallsOfStep
    <3> QED BY <1>4, <3>1 DEF One
  <2> QED BY <1>8, <2>1, <2>2, <2>3 DEF One
<1>12. extra = 1 => handles[o] = <<>> /\ Pinned(o) = 0
  <2>1. ASSUME extra = 1 PROVE handles[o] = <<>>
    <3>1. \A g \in Slots : object[g] # o
      BY <2>1, Alive
    <3> QED BY <3>1, FirstHandle
  <2>2. handles[o] = <<>> => ~(Pinned(o) > 0) /\ Pinned(o) \in Nat
    BY PinnedIs DEF Stashed
  <2> QED BY <2>1, <2>2
<1>13. HandlesExact'
  <2> SUFFICES ASSUME NEW g \in Slots, NEW p \in Objects
               PROVE  IF object'[g] = p
                        THEN /\ count'[g] = Owned(g, p)' + (IF g = Head(handles'[p])
                                                            THEN Pinned(p)' ELSE 0)
                             /\ count'[g] > 0
                        ELSE Owned(g, p)' = 0
    BY DEF HandlesExact
  <2>1. IF object[g] = p
          THEN /\ count[g] = Owned(g, p) + (IF g = Head(handles[p]) THEN Pinned(p) ELSE 0)
               /\ count[g] > 0
          ELSE Owned(g, p) = 0
    BY DEF HandlesExact
  <2>2. CASE p # o
    BY <1>3, <1>4, <1>6, <1>7, <1>10, <2>1, <2>2
  <2>3. CASE g = h /\ p = o
    <3>1. Owned(g, p)' = 1
      BY <1>3, <1>4, <1>10, <2>1, <2>3
    <3>2. g = Head(handles'[p]) => Pinned(p)' = 0
      <4>1. CASE handles[o] = <<>>
        BY <2>3, <4>1, PinnedIs DEF Stashed
      <4>2. CASE handles[o] # <<>>
        BY <1>3, <1>4, <1>5, <2>3, <4>2, FirstHandle
      <4> QED BY <4>1, <4>2
    <3> QED BY <1>7, <2>3, <3>1, <3>2
  <2>4. CASE g # h /\ p = o
    <3>1. object[g] = p => Head(handles'[p]) = Head(handles[p])
      BY <1>5, <2>4, FirstHandle
    <3> QED BY <1>7, <1>10, <2>1, <2>4, <3>1
  <2> QED BY <2>2, <2>3, <2>4
<1>14. ASSUME NEW g \in Slots, NEW p \in Objects, IsFirst(g, p)
       PROVE  object'[g] = p /\ g = Head(handles'[p])
  <2>1. g # h /\ object[g] = p /\ g = Head(handles[p]) /\ handles[p] # <<>>
    BY <1>3, <1>4, <1>14, FirstHandle DEF IsFirst
  <2>2. CASE p = o
    BY <1>5, <1>7, <2>1, <2>2 DEF IsFirst
  <2>3. CASE p # o
    BY <1>6, <1>7, <2>1, <2>3 DEF IsFirst
  <2> QED BY <2>2, <2>3
<1>15. NamesResolve'
  <2> SUFFICES ASSUME NEW n \in Names, names[n] # None
               PROVE  LET p == object'[names[n]] IN
                      p # None /\ name[p] = n /\ names[n] = Head(handles'[p])
    BY DEF NamesResolve
  <2> DEFINE g == names[n]
             p == object[g]
  <2>1. g \in Slots
    BY <1>1 DEF TableTypes
  <2>2. p # None /\ name[p] = n /\ g = Head(handles[p])
    BY DEF NamesResolve
  <2>3. p \in Objects /\ g # h
    BY <1>1, <1>3, <2>1, <2>2 DEF TableTypes
  <2>4. IsFirst(g, p)
    BY <2>2 DEF IsFirst
  <2> HIDE DEF p
  <2>5. object'[g] = p /\ g = Head(handles'[p])
    BY <1>14, <2>1, <2>3, <2>4
  <2> QED BY <2>2, <2>5
<1>16. Listed'
  <2>1. \A g \in Slots : object'[g] # None => g < capacity'
    BY <1>1, <1>3, <1>7 DEF Listed, TableTypes, Slots
  <2>2. ASSUME NEW p \in Objects
        PROVE  /\ IsInjective(handles'[p])
               /\ \A g \in Slots : object'[g] = p <=> Contains(handles'[p], g)
    <3>1. IsInjective(handles[p]) /\ \A g \in Slots : object[g] = p <=> Contains(handles[p], g)
      BY DEF Listed
    <3>2. CASE p = o
      BY <1>5, <1>7, <3>1, <3>2
    <3>3. CASE p # o
      BY <1>3, <1>4, <1>6, <1>7, <3>1, <3>3
    <3> QED BY <3>2, <3>3
  <2> QED BY <1>3, <2>1, <2>2 DEF Listed
<1>17. Stashed'
  <2> SUFFICES ASSUME NEW p \in Objects, Pinned(p) > 0
               PROVE  handles'[p] # <<>> /\ stash'[p] = Head(handles'[p])
    BY DEF Stashed
  <2>1. handles[p] # <<>> /\ stash[p] = Head(handles[p])
    BY DEF Stashed
  <2>2. ~(extra = 1 /\ p = o)
    BY <1>12
  <2>3. stash'[p] = stash[p]
    BY <1>1, <2>2 DEF TableTypes
  <2> QED BY <1>5, <1>6, <2>1, <2>3
<1>18. Nameless'
  <2>1. ASSUME NEW p \in Objects, refs'[p] = 0 PROVE name[p] = None
    BY <1>1, <1>8, <2>1 DEF Nameless, TableTypes
  <2> QED BY <2>1 DEF Nameless
<1>19. \A g \in Slots, p \in Objects : IsFirst(g, p) => IsFirst(g, p)'
  BY <1>14 DEF IsFirst
<1>20. \A g \in Slots : g # h => count'[g] = count[g]
  BY <1>7
<1>21. Counting'
  BY <1>11, <1>13, <1>15, <1>16, <1>17, <1>18 DEF Counting
<1> QED BY <1>3, <1>9, <1>19, <1>20, <1>21

(* A call takes a pointer to an object.                                     *)
LEMMA Looked ==
  ASSUME TableInv, NEW t \in Callers, Moves(t), NEW o \in Objects,
         refs' = [refs EXCEPT ![o] = @ + 1], UNCHANGED <<table, handles, name, stash, owns>>,
         call[t].object = None, call'[t].object = o, \A p \in Objects : Pinned(p)' = Pinned(p)
  PROVE  TableTypes' /\ Counting'
<1> USE DEF TableInv, table
<1>1. TableTypes
  BY TypesSplit
<1>2. /\ refs' \in [Objects -> Nat] /\ refs'[o] = refs[o] + 1
      /\ \A p \in Objects \ {o} : refs'[p] = refs[p]
  BY <1>1 DEF TableTypes
<1>3. TableTypes'
  BY <1>1, <1>2 DEF TableTypes
<1>4. PointersExact'
  <2> SUFFICES ASSUME NEW p \in Objects
               PROVE  refs'[p] = Cardinality(HandlesOf(p)') + Cardinality(CallsOf(p)')
    BY DEF PointersExact, HandlesOf, CallsOf
  <2>1. refs[p] = Cardinality(HandlesOf(p)) + Cardinality(CallsOf(p))
    BY DEF PointersExact, HandlesOf, CallsOf
  <2>2. HandlesOf(p)' = HandlesOf(p) /\ Cardinality(HandlesOf(p)) \in Nat
    BY Finite, FS_CardinalityType DEF HandlesOf
  <2>3. /\ Cardinality(CallsOf(p)') = Cardinality(CallsOf(p)) + One(p = o)
        /\ Cardinality(CallsOf(p)) \in Nat
    BY CallsOfStep, FirstHandle DEF One
  <2> QED BY <1>2, <2>1, <2>2, <2>3 DEF One
<1>5. HandlesExact'
  BY DEF HandlesExact, Owned, Total
<1>6. NamesResolve' /\ Listed' /\ Stashed'
  BY DEF NamesResolve, Listed, Stashed
<1>7. Nameless'
  <2>1. ASSUME NEW p \in Objects, refs'[p] = 0 PROVE name[p] = None
    BY <1>1, <1>2, <2>1 DEF Nameless, TableTypes
  <2> QED BY <2>1 DEF Nameless
<1> QED BY <1>3, <1>4, <1>5, <1>6, <1>7 DEF Counting

(* A call ends and drops its pointer.                                       *)
LEMMA Dropped ==
  ASSUME TableInv, NEW t \in Callers, Moves(t), NEW o \in Objects, Release(o),
         UNCHANGED <<table, handles, owns>>,
         call[t].object = o, call'[t].object = None,
         \A p \in Objects : Pinned(p)' = Pinned(p)
  PROVE  TableTypes' /\ Counting' /\ \A p \in Objects : name'[p] \in {name[p], None}
<1> USE DEF TableInv, table
<1>1. TableTypes /\ refs[o] > 0
  BY TypesSplit, Alive DEF Knows
<1>2. /\ refs' \in [Objects -> Nat] /\ refs'[o] = refs[o] - 1
      /\ name' \in [Objects -> Names \cup {None}] /\ stash' \in [Objects -> Slots]
      /\ \A p \in Objects \ {o} : /\ refs'[p] = refs[p] /\ name'[p] = name[p]
                                  /\ stash'[p] = stash[p]
      /\ name'[o] = IF refs[o] = 1 THEN None ELSE name[o]
      /\ refs[o] # 1 => stash'[o] = stash[o]
  BY <1>1, ReleaseKeeps
<1>3. TableTypes'
  BY <1>1, <1>2 DEF TableTypes
<1>4. PointersExact'
  <2> SUFFICES ASSUME NEW p \in Objects
               PROVE  refs'[p] = Cardinality(HandlesOf(p)') + Cardinality(CallsOf(p)')
    BY DEF PointersExact, HandlesOf, CallsOf
  <2>1. refs[p] = Cardinality(HandlesOf(p)) + Cardinality(CallsOf(p))
    BY DEF PointersExact, HandlesOf, CallsOf
  <2>2. HandlesOf(p)' = HandlesOf(p) /\ Cardinality(HandlesOf(p)) \in Nat
    BY Finite, FS_CardinalityType DEF HandlesOf
  <2>3. /\ Cardinality(CallsOf(p)') = Cardinality(CallsOf(p)) - One(p = o)
        /\ Cardinality(CallsOf(p)) \in Nat
    BY CallsOfStep, FirstHandle DEF One
  <2> QED BY <1>2, <2>1, <2>2, <2>3 DEF One
<1>5. HandlesExact'
  BY DEF HandlesExact, Owned, Total
<1>6. refs[o] = 1 => \A h \in Slots : object[h] # o
  BY Alive
<1>7. NamesResolve'
  <2> SUFFICES ASSUME NEW n \in Names, names[n] # None
               PROVE  LET p == object[names[n]] IN
                      p # None /\ name'[p] = n /\ names[n] = Head(handles[p])
    BY DEF NamesResolve
  <2> DEFINE g == names[n]
             p == object[g]
  <2>1. g \in Slots /\ p # None /\ name[p] = n /\ g = Head(handles[p])
    BY <1>1 DEF NamesResolve, TableTypes
  <2>2. p \in Objects
    BY <1>1, <2>1 DEF TableTypes
  <2>3. name'[p] = name[p]
    BY <1>2, <1>6, <2>1, <2>2
  <2> QED BY <2>1, <2>3
<1>8. Listed'
  BY DEF Listed
<1>9. Stashed'
  <2> SUFFICES ASSUME NEW p \in Objects, Pinned(p) > 0
               PROVE  handles[p] # <<>> /\ stash'[p] = Head(handles[p])
    BY DEF Stashed
  <2>1. handles[p] # <<>> /\ stash[p] = Head(handles[p])
    BY DEF Stashed
  <2>2. ~(p = o /\ refs[o] = 1)
    BY <1>6, <2>1, FirstHandle
  <2> QED BY <1>2, <2>1, <2>2
<1>10. Nameless'
  <2>1. ASSUME NEW p \in Objects, refs'[p] = 0 PROVE name'[p] = None
    <3>1. CASE p = o
      <4>1. refs[o] \in Nat
        BY <1>1 DEF TableTypes
      <4> QED BY <1>2, <2>1, <3>1, <4>1
    <3>2. CASE p # o
      BY <1>2, <2>1, <3>2 DEF Nameless
    <3> QED BY <3>1, <3>2
  <2> QED BY <2>1 DEF Nameless
<1>11. Counting'
  BY <1>4, <1>5, <1>7, <1>8, <1>9, <1>10 DEF Counting
<1>12. \A p \in Objects : name'[p] \in {name[p], None}
  BY <1>2
<1> QED BY <1>3, <1>11, <1>12

------------------------------------------------------------------------------
(* What the step of one thread leaves to the others.                        *)

LEMMA OthersUnderway ==
  ASSUME TableInv, NEW t \in Callers, Moves(t), NEW u \in Callers \ {t},
         \A g \in Slots, p \in Objects :
           IsFirst(g, p) /\ u \in Openers(g, Opening) => IsFirst(g, p)'
  PROVE  Underway(u)'
<1>1. call'[u] = call[u] /\ owns'[u] = owns[u] /\ u \in Callers
  BY DEF Moves
<1>2. Underway(u) /\ call[u].handle \in Slots /\ call[u].object \in Objects \cup {None}
  BY DEF TableInv, ObjectTypeOK
<1>3. ASSUME call[u].at \in Opening, NEW p \in Objects, IsFirst(call[u].handle, p)
      PROVE  IsFirst(call[u].handle, p)'
  <2>1. u \in Openers(call[u].handle, Opening)
    BY <1>1, <1>3 DEF Openers
  <2>2. \A g \in Slots : g = call[u].handle => (IsFirst(g, p) => IsFirst(g, p)')
    BY <2>1
  <2>3. ASSUME NEW g \in Slots, g = call[u].handle PROVE IsFirst(call[u].handle, p)'
    BY <1>1, <1>3, <2>2, <2>3 DEF IsFirst
  <2> QED BY <1>2, <2>3
<1>4. call[u].at = "find" =>
        \E o \in Objects : IsFirst(call[u].handle, o)' /\ owns[u][call[u].handle][o] > 0
  <2> SUFFICES ASSUME call[u].at = "find"
               PROVE  \E o \in Objects :
                        IsFirst(call[u].handle, o)' /\ owns[u][call[u].handle][o] > 0
    OBVIOUS
  <2>1. PICK o \in Objects :
          IsFirst(call[u].handle, o) /\ owns[u][call[u].handle][o] > 0
    BY <1>2 DEF Underway
  <2>2. IsFirst(call[u].handle, o)'
    BY <1>3, <2>1 DEF Opening
  <2> QED BY <2>1, <2>2
<1>5. ASSUME call[u].at \in {"unretain", "retain"}
      PROVE  IsFirst(call[u].handle, call[u].object)'
  <2>1. call[u].object \in Objects /\ IsFirst(call[u].handle, call[u].object)
    BY <1>2, <1>5 DEF Underway
  <2>2. PICK p \in Objects : p = call[u].object
    BY <2>1
  <2>3. IsFirst(call[u].handle, p)'
    BY <1>3, <1>5, <2>1, <2>2 DEF Opening
  <2> QED BY <1>1, <2>2, <2>3 DEF IsFirst
<1>6. /\ pins'[u] = pins[u] /\ call'[u].at = call[u].at
      /\ call'[u].handle = call[u].handle /\ call'[u].object = call[u].object
  BY <1>1 DEF Moves
<1>7. call'[u].at = "find" =>
        \E o \in Objects : IsFirst(call[u].handle, o)' /\ owns'[u][call'[u].handle][o] > 0
  BY <1>1, <1>4, <1>6
<1>8. call'[u].at \in {"unretain", "retain"} => IsFirst(call[u].handle, call[u].object)'
  BY <1>5, <1>6
<1> QED BY <1>1, <1>2, <1>6, <1>7, <1>8 DEF Underway

LEMMA OthersUnknown ==
  ASSUME TableInv, NEW t \in Callers, Moves(t), NEW u \in Callers \ {t},
         \A p \in Objects : Knows(t, p)' => Knows(t, p) \/ name[p] # None \/ refs[p] = 0,
         \A p \in Objects : name'[p] \in {name[p], None} \/ Knows(t, p)
  PROVE  Unknown(u)'
<1>1. call'[u] = call[u] /\ u \in Callers
  BY DEF Moves
<1>2. Unknown(u) /\ Underway(u) /\ call[u].object \in Objects \cup {None}
  BY DEF TableInv, ObjectTypeOK
<1>3. ASSUME call[u].at \in {"name", "fail"}, NEW o, o = call[u].object
      PROVE  name'[o] = None /\ \A w \in Callers \ {u} : ~Knows(w, o)'
  <2>1. o \in Objects
    BY <1>2, <1>3 DEF Underway
  <2>2. name[o] = None /\ \A w \in Callers \ {u} : ~Knows(w, o)
    BY <1>2, <1>3 DEF Unknown
  <2>3. refs[o] > 0
    BY <1>1, <1>3, <2>1, Alive DEF Knows
  <2>4. refs[o] # 0
    BY <2>3
  <2>5. ~Knows(t, o)
    BY <1>1, <2>2
  <2>6. name'[o] = None
    BY <2>1, <2>2, <2>5
  <2>7. ~Knows(t, o)'
    BY <2>1, <2>2, <2>4, <2>5
  <2>8. ASSUME NEW w \in Callers \ {u}, w # t PROVE ~Knows(w, o)'
    <3>1. ~Knows(w, o)
      BY <2>2
    <3>2. call'[w] = call[w] /\ owns'[w] = owns[w] /\ pins'[w] = pins[w]
      BY <2>8 DEF Moves
    <3> QED BY <3>1, <3>2 DEF Knows
  <2> QED BY <2>6, <2>7, <2>8
<1>4. ASSUME call[u].at \in {"name", "fail"}
      PROVE  /\ name'[call[u].object] = None
             /\ \A w \in Callers \ {u} :
                  ~(\/ call'[w].object = call[u].object \/ pins'[w][call[u].object] > 0
                    \/ \E h \in Slots : owns'[w][h][call[u].object] > 0)
  BY <1>3, <1>4 DEF Knows
<1> QED BY <1>1, <1>4 DEF Unknown, Knows

(* A handle that is open has more references than are to be given back.     *)
LEMMA KeptOpen ==
  ASSUME TableInv, NEW h \in Slots, object[h] # None
  PROVE  count[h] > Cardinality(Openers(h, Giving))
<1> DEFINE A == Openers(h, Giving)
<1>1. object[h] \in Objects /\ count[h] > 0 /\ count[h] \in Int
  BY DEF TableInv, ObjectTypeOK, HandlesExact
<1>2. CASE Openers(h, Opening) # {}
  BY <1>2 DEF TableInv, Kept
<1>3. CASE Openers(h, Opening) = {}
  <2>1. A = {}
    BY <1>3 DEF Openers, Opening, Giving
  <2>2. Cardinality(A) = 0
    BY <2>1, FS_EmptySet
  <2> QED BY <1>1, <2>2
<1> QED BY <1>2, <1>3

LEMMA OpenersMeet ==
  ASSUME TableInv, NEW h \in Slots, NEW u \in Openers(h, Opening)
  PROVE  /\ object[h] # None /\ IsFirst(h, object[h])
         /\ u \in Openers(h, Giving) => Cardinality(Openers(h, Giving)) > 0
<1>1. u \in Callers /\ call[u].at \in Opening /\ call[u].handle = h
  BY DEF Openers
<1>2. Underway(u) /\ call[u].object \in Objects \cup {None}
  BY <1>1 DEF TableInv, ObjectTypeOK
<1>3. call[u].at = "find" => \E o \in Objects : IsFirst(h, o)
  BY <1>1, <1>2 DEF Underway
<1>4. call[u].at # "find" => IsFirst(h, call[u].object) /\ call[u].object # None
  BY <1>1, <1>2 DEF Underway, Opening
<1>5. \E o \in Objects : IsFirst(h, o)
  BY <1>2, <1>3, <1>4
<1>6. IsFiniteSet(Openers(h, Giving))
  BY Finite
<1>7. u \in Openers(h, Giving) => Cardinality(Openers(h, Giving)) > 0
  <2> DEFINE A == Openers(h, Giving)
  <2>1. IsFiniteSet(A)
    BY <1>6
  <2> HIDE DEF A
  <2>2. u \in A => Cardinality(A) > 0
    BY <2>1, FS_EmptySet, FS_CardinalityType
  <2> QED BY <2>2 DEF A
<1>8. None \notin Objects
  BY NoneAssumption
<1> QED BY <1>5, <1>7, <1>8 DEF IsFirst

LEMMA KeptMoves ==
  ASSUME TableInv, NEW t \in Callers, Moves(t), count' \in [Slots -> Int],
         \A g \in Slots : t \in Openers(g, Opening)' => object[g] # None,
         \A g \in Slots :
           \/ count'[g] >= count[g] + One(t \in Openers(g, Giving)') - One(t \in Openers(g, Giving))
           \/ Openers(g, Opening)' = {}
           \/ count'[g] > Cardinality(Openers(g, Giving)')
  PROVE  Kept'
<1>1. ASSUME NEW g \in Slots, Openers(g, Opening)' # {},
             count'[g] >= count[g] + One(t \in Openers(g, Giving)') - One(t \in Openers(g, Giving))
      PROVE  count'[g] > Cardinality(Openers(g, Giving)')
  <2>1. object[g] # None
    <3>1. PICK u \in Callers : u \in Openers(g, Opening)'
      BY <1>1 DEF Openers
    <3>2. CASE u = t
      BY <3>1, <3>2
    <3>3. CASE u # t
      <4>1. u \in Openers(g, Opening)
        BY <3>1, <3>3, OpenersStep
      <4> QED BY <4>1, OpenersMeet
    <3> QED BY <3>2, <3>3
  <2>2. count[g] > Cardinality(Openers(g, Giving)) /\ count[g] \in Int
    BY <2>1, KeptOpen DEF TableInv, ObjectTypeOK
  <2>3. /\ Cardinality(Openers(g, Giving)) \in Nat
        /\ Cardinality(Openers(g, Giving)') = Cardinality(Openers(g, Giving))
             + One(t \in Openers(g, Giving)') - One(t \in Openers(g, Giving))
    BY OpenersStep
  <2> QED BY <1>1, <2>2, <2>3 DEF One
<1>2. ASSUME NEW g \in Slots, Openers(g, Opening)' # {}
      PROVE  count'[g] > Cardinality(Openers(g, Giving)')
  BY <1>1, <1>2
<1> QED BY <1>2 DEF Kept

(* The whole invariant, from the parts of it.                               *)
LEMMA Assembled ==
  ASSUME TableInv, NEW t \in Callers, Moves(t),
         TableTypes', CallTypes', Counting', Kept', Underway(t)', Unknown(t)',
         \A u \in Callers \ {t}, g \in Slots, p \in Objects :
           IsFirst(g, p) /\ u \in Openers(g, Opening) => IsFirst(g, p)',
         \A p \in Objects : Knows(t, p)' => Knows(t, p) \/ name[p] # None \/ refs[p] = 0,
         \A p \in Objects : name'[p] \in {name[p], None} \/ Knows(t, p)
  PROVE  TableInv'
<1>1. ASSUME NEW u \in Callers \ {t} PROVE Underway(u)' /\ Unknown(u)'
  <2>1. Underway(u)'
    BY OthersUnderway
  <2>2. Unknown(u)'
    BY OthersUnknown
  <2> QED BY <2>1, <2>2
<1>2. \A u \in Callers : Underway(u)' /\ Unknown(u)'
  BY <1>1
<1>3. ObjectTypeOK'
  BY TypesMeet
<1> QED BY <1>2, <1>3 DEF TableInv, Counting

------------------------------------------------------------------------------
(* The steps.                                                               *)

CallRecords == [at : Places, name : Names \cup {None}, handle : Slots,
                object : Objects \cup {None}]

LEMMA GoToMoves ==
  ASSUME CallTypes, NEW t \in Callers, NEW at \in Places, GoTo(t, at)
  PROVE  /\ call' \in [Callers -> CallRecords]
         /\ call'[t] = [call[t] EXCEPT !.at = at] /\ call'[t].at = at
         /\ call'[t].name = call[t].name /\ call'[t].handle = call[t].handle
         /\ call'[t].object = call[t].object
         /\ \A u \in Callers \ {t} : call'[u] = call[u]
<1>1. call \in [Callers -> CallRecords]
  BY DEF CallTypes, CallRecords
<1>2. call[t] \in CallRecords
  BY <1>1
<1>3. [call[t] EXCEPT !.at = at] \in CallRecords
  BY <1>2 DEF CallRecords
<1>4. call' = [call EXCEPT ![t] = [call[t] EXCEPT !.at = at]]
  BY <1>1 DEF GoTo
<1> QED BY <1>1, <1>2, <1>3, <1>4 DEF CallRecords

LEMMA HoldMoves ==
  ASSUME CallTypes, NEW t \in Callers, NEW at \in Places, NEW o \in Objects, Hold(t, at, o)
  PROVE  /\ call' \in [Callers -> CallRecords]
         /\ call'[t].at = at /\ call'[t].object = o
         /\ call'[t].name = call[t].name /\ call'[t].handle = call[t].handle
         /\ \A u \in Callers \ {t} : call'[u] = call[u]
<1>1. call \in [Callers -> CallRecords]
  BY DEF CallTypes, CallRecords
<1>2. call[t] \in CallRecords
  BY <1>1
<1>3. [call[t] EXCEPT !.at = at, !.object = o] \in CallRecords
  BY <1>2 DEF CallRecords
<1>4. call' = [call EXCEPT ![t] = [call[t] EXCEPT !.at = at, !.object = o]]
  BY <1>1 DEF Hold
<1> QED BY <1>1, <1>2, <1>3, <1>4 DEF CallRecords

LEMMA AtRestIs ==
  /\ AtRest \in CallRecords
  /\ AtRest.at = "idle" /\ AtRest.name = None /\ AtRest.object = None
<1>1. 0 \in Slots
  BY CapacityAssumption DEF Slots
<1> QED BY <1>1 DEF AtRest, CallRecords, Places

(* Pointers are due as before when the thread's own are.                    *)
LEMMA PinnedStays ==
  ASSUME ObjectTypeOK, pins' = pins, NEW t \in Callers, Moves(t),
         call[t].at # "unpin", call'[t].at # "unpin"
  PROVE  \A o \in Objects : Pinned(o)' = Pinned(o)
<1> SUFFICES ASSUME NEW o \in Objects PROVE Pinned(o)' = Pinned(o)
  OBVIOUS
<1>1. pins' \in [Callers -> [Objects -> Nat]] /\ pins[t][o] \in Nat
  BY DEF ObjectTypeOK
<1>2. Due(t, o)' = Due(t, o) + 0
  BY <1>1 DEF Due, One
<1>3. Pinned(o)' = Pinned(o) + 0 /\ Pinned(o) \in Nat
  BY <1>1, <1>2, PinnedStep, PinnedIs
<1> QED BY <1>3

(* Only the call changes.                                                   *)
LEMMA Unmoved ==
  ASSUME TableInv, NEW t \in Callers, Moves(t), UNCHANGED <<table, objects, owns>>,
         call'[t].object = call[t].object, \A p \in Objects : Pinned(p)' = Pinned(p)
  PROVE  TableTypes' /\ Counting'
<1> USE DEF TableInv, table, objects
<1>1. TableTypes'
  BY TypesSplit DEF TableTypes
<1>2. PointersExact'
  <2> SUFFICES ASSUME NEW p \in Objects
               PROVE  refs'[p] = Cardinality(HandlesOf(p)') + Cardinality(CallsOf(p)')
    BY DEF PointersExact, HandlesOf, CallsOf
  <2>1. refs[p] = Cardinality(HandlesOf(p)) + Cardinality(CallsOf(p))
    BY DEF PointersExact, HandlesOf, CallsOf
  <2>2. Cardinality(HandlesOf(p)') = Cardinality(HandlesOf(p))
    BY DEF HandlesOf
  <2>3. Cardinality(CallsOf(p)') = Cardinality(CallsOf(p))
    BY CallsOfStep DEF One
  <2> QED BY <2>1, <2>2, <2>3
<1>3. HandlesExact'
  BY DEF HandlesExact, Owned, Total
<1>4. NamesResolve' /\ Listed' /\ Stashed' /\ Nameless'
  BY DEF NamesResolve, Listed, Stashed, Nameless
<1> QED BY <1>1, <1>2, <1>3, <1>4 DEF Counting

(* The first handle of an object, by an open name or a call of an opener.   *)
LEMMA FirstIs ==
  ASSUME TableInv, NEW h \in Slots, NEW o \in Objects, IsFirst(h, o)
  PROVE  Primaries(o) = {h} /\ handles[o] # <<>> /\ count[h] > 0
BY FirstHandle DEF TableInv, IsFirst, HandlesExact

LEMMA NamedStep ==
  ASSUME TableInv, NEW t \in Callers, NEW n \in Names, NEW keep \in BOOLEAN,
         GetObjectByName(t, n, keep)
  PROVE  TableInv'
<1>1. ObjectTypeOK /\ TableTypes /\ CallTypes /\ Underway(t) /\ call[t] = AtRest
  BY TypesSplit DEF TableInv, GetObjectByName
<1>2. UNCHANGED <<capacity, lastFree, object, names, objects, pins>>
  BY DEF GetObjectByName
<1>3. /\ call[t].at = "idle" /\ call[t].object = None
      /\ call'[t].at \in {"idle", "find", "new"} /\ call'[t].object = None
      /\ call'[t].at = "idle" => call'[t] = AtRest
      /\ call'[t].at = "find" => names[n] # None /\ call'[t].handle = names[n]
      /\ call' \in [Callers -> CallRecords]
      /\ \A u \in Callers \ {t} : call'[u] = call[u]
  <2>1. call \in [Callers -> CallRecords] /\ names[n] \in Slots \cup {None}
    BY <1>1 DEF CallTypes, CallRecords, TableTypes
  <2>2. CASE keep
    BY <1>1, <2>1, <2>2, AtRestIs DEF GetObjectByName
  <2>3. CASE ~keep
    <3> DEFINE c == [AtRest EXCEPT !.at = IF names[n] = None THEN "new" ELSE "find",
                                   !.name = n,
                                   !.handle = IF names[n] = None THEN 0 ELSE names[n]]
    <3>1. call' = [call EXCEPT ![t] = c]
      BY <2>3 DEF GetObjectByName
    <3>2. 0 \in Slots
      BY CapacityAssumption DEF Slots
    <3>3. /\ c \in CallRecords /\ c.at \in {"find", "new"} /\ c.object = None
          /\ c.at = "find" => names[n] # None /\ c.handle = names[n]
      BY <2>1, <3>2 DEF AtRest, CallRecords, Places
    <3> HIDE DEF c
    <3>4. call'[t] = c /\ call' \in [Callers -> CallRecords]
          /\ \A u \in Callers \ {t} : call'[u] = call[u]
      BY <2>1, <3>1, <3>3
    <3> QED BY <1>1, <3>3, <3>4, AtRestIs
  <2> QED BY <2>2, <2>3
<1>4. Unknown(t)'
  BY <1>3 DEF Unknown
<1>5. CASE names[n] = None
  <2>1. UNCHANGED <<count, owns>>
    BY <1>5 DEF GetObjectByName
  <2>2. Moves(t)
    BY <1>2, <1>3, <2>1 DEF Moves
  <2>3. \A p \in Objects : Pinned(p)' = Pinned(p)
    BY <1>1, <1>2, <1>3, <2>2, PinnedStays
  <2>4. TableTypes' /\ Counting'
    BY <1>2, <1>3, <2>1, <2>2, <2>3, Unmoved DEF table
  <2>5. CallTypes'
    BY <1>1, <1>2, <1>3, <2>1 DEF CallTypes, CallRecords
  <2>6. Underway(t)'
    BY <1>3, <1>5 DEF Underway
  <2>7. Kept'
    <3>1. \A g \in Slots : t \notin Openers(g, Opening)' /\ t \notin Openers(g, Giving)
                             /\ t \notin Openers(g, Giving)'
      BY <1>3, <1>5 DEF Openers, Opening, Giving
    <3>2. count \in [Slots -> Int]
      BY <1>1 DEF TableTypes
    <3>3. \A g \in Slots : count'[g] >= count[g] + One(t \in Openers(g, Giving)')
                                                 - One(t \in Openers(g, Giving))
      BY <2>1, <3>1, <3>2 DEF One
    <3> QED BY <2>1, <2>2, <3>1, <3>2, <3>3, KeptMoves
  <2>8. \A p \in Objects : (Knows(t, p)' => Knows(t, p)) /\ name'[p] = name[p]
    BY <1>2, <1>3, <2>1, NoneAssumption DEF Knows, objects
  <2>9. \A g \in Slots, p \in Objects : IsFirst(g, p) => IsFirst(g, p)'
    BY <1>2 DEF IsFirst, objects
  <2> QED BY <1>4, <2>2, <2>4, <2>5, <2>6, <2>7, <2>8, <2>9, Assembled
<1>6. CASE names[n] # None
  <2>1. PICK h \in Slots, o \in Objects :
          h = names[n] /\ o = object[h] /\ o # None /\ name[o] = n /\ IsFirst(h, o)
    <3>1. names[n] \in Slots /\ object[names[n]] # None
      BY <1>1, <1>6 DEF TableInv, NamesResolve, TableTypes
    <3>2. object[names[n]] \in Objects
      BY <1>1, <3>1 DEF TableTypes
    <3> QED BY <1>6, <3>1, <3>2 DEF TableInv, NamesResolve, IsFirst
  <2>2. Primaries(o) = {h} /\ count[h] > 0
    BY <2>1, FirstIs
  <2>3. RetainHandle(h) /\ Own(t, h, o, 1)
    BY <1>6, <2>1, <2>2 DEF GetObjectByName
  <2>4. /\ owns' \in [Callers -> [Slots -> [Objects -> Nat]]]
        /\ \A u \in Callers \ {t} : owns'[u] = owns[u]
        /\ owns'[t][h][o] = owns[t][h][o] + 1
        /\ \A g \in Slots, p \in Objects :
             g # h \/ p # o => owns'[t][g][p] = owns[t][g][p] /\ Owned(g, p)' = Owned(g, p)
        /\ Owned(h, o)' = Owned(h, o) + 1
    <3>1. owns[t][h][o] + 1 >= 0
      BY <1>1, <2>1 DEF CallTypes
    <3> QED BY <1>1, <2>1, <2>3, <3>1, OwnedStep
  <2>5. Moves(t)
    BY <1>2, <1>3, <2>4 DEF Moves
  <2>6. \A p \in Objects : Pinned(p)' = Pinned(p)
    BY <1>1, <1>2, <1>3, <2>5, PinnedStays
  <2>7. /\ count' \in [Slots -> Int] /\ count'[h] = count[h] + 1 /\ count[h] \in Int
        /\ \A g \in Slots \ {h} : count'[g] = count[g]
    BY <1>1, <2>1, <2>3 DEF RetainHandle, TableTypes
  <2>8. object[h] = o
    BY <2>1 DEF IsFirst
  <2>9. count'[h] > 0 /\ Owned(h, o)' = Owned(h, o) + (count'[h] - count[h])
    BY <2>2, <2>4, <2>7, OwnedIs
  <2>10. TableTypes' /\ Counting'
    <3>1. /\ UNCHANGED <<capacity, lastFree, object, names, objects>>
          /\ call'[t].object = call[t].object
      BY <1>2, <1>3
    <3>2. /\ \A g \in Slots, p \in Objects : g # h \/ p # o => Owned(g, p)' = Owned(g, p)
          /\ \A p \in Objects : p # o => Pinned(p)' = Pinned(p)
          /\ Owned(h, o)' = Owned(h, o) + (count'[h] - count[h]) /\ Pinned(o)' = Pinned(o)
      BY <2>4, <2>6, <2>9
    <3>3. /\ object[h] = o /\ count' \in [Slots -> Int] /\ count'[h] > 0
          /\ \A g \in Slots \ {h} : count'[g] = count[g]
      BY <2>7, <2>8, <2>9
    <3> QED BY <2>5, <3>1, <3>2, <3>3, Recount
  <2>11. CallTypes'
    <3>1. call' \in [Callers -> [at : Places, name : Names \cup {None}, handle : Slots,
                                object : Objects \cup {None}]]
      BY <1>3 DEF CallRecords
    <3>2. pins' \in [Callers -> [Objects -> Nat]]
      BY <1>1, <1>2 DEF CallTypes
    <3> QED BY <2>4, <3>1, <3>2 DEF CallTypes
  <2>12. \A g \in Slots, p \in Objects : IsFirst(g, p) => IsFirst(g, p)'
    BY <1>2 DEF IsFirst, objects
  <2>13. Underway(t)'
    <3>1. IsFirst(h, o)' /\ owns'[t][h][o] > 0
      <4>1. owns[t][h][o] \in Nat
        BY <1>1, <2>1 DEF CallTypes
      <4>2. object'[h] = o /\ h = Head(handles'[o])
        BY <1>2, <2>1 DEF IsFirst, objects
      <4>3. owns'[t][h][o] > 0
        BY <2>4, <4>1
      <4> QED BY <4>2, <4>3 DEF IsFirst
    <3>2. call'[t].at = "find" => call'[t].handle = h
      BY <1>3, <2>1
    <3> QED BY <1>3, <2>1, <3>1, <3>2 DEF Underway, IsFirst
  <2>14. Kept'
    <3>1. \A g \in Slots : /\ t \in Openers(g, Opening)' => g = h
                           /\ t \in Openers(g, Giving)' => g = h
                           /\ t \notin Openers(g, Giving)
      BY <1>3, <2>1 DEF Openers, Opening, Giving
    <3>2. \A g \in Slots : count'[g] >= count[g] + One(t \in Openers(g, Giving)')
                                                 - One(t \in Openers(g, Giving))
      BY <1>1, <2>7, <3>1 DEF One, TableTypes
    <3>3. object[h] # None
      BY <2>1, <2>8
    <3> QED BY <2>5, <2>7, <3>1, <3>2, <3>3, KeptMoves
  <2>15. \A p \in Objects : (Knows(t, p)' => Knows(t, p) \/ name[p] # None) /\ name'[p] = name[p]
    <3>1. name[o] # None
      BY <2>1, NoneAssumption
    <3>2. ASSUME NEW p \in Objects, p # o, Knows(t, p)' PROVE Knows(t, p)
      <4>1. \A g \in Slots : owns'[t][g][p] = owns[t][g][p]
        BY <2>4, <3>2
      <4> QED BY <1>2, <1>3, <3>2, <4>1, NoneAssumption DEF Knows
    <3> QED BY <1>2, <3>1, <3>2 DEF objects
  <2> QED BY <1>4, <2>5, <2>10, <2>11, <2>12, <2>13, <2>14, <2>15, Assembled
<1> QED BY <1>5, <1>6

(* One more reference to a handle, or one fewer.                            *)
LEMMA Given ==
  ASSUME ObjectTypeOK, NEW t \in Callers, NEW h \in Slots, NEW o \in Objects, Own(t, h, o, 1)
  PROVE  /\ owns' \in [Callers -> [Slots -> [Objects -> Nat]]]
         /\ \A u \in Callers \ {t} : owns'[u] = owns[u]
         /\ owns'[t][h][o] = owns[t][h][o] + 1
         /\ \A g \in Slots, p \in Objects :
              g # h \/ p # o => owns'[t][g][p] = owns[t][g][p] /\ Owned(g, p)' = Owned(g, p)
         /\ Owned(h, o)' = Owned(h, o) + 1
<1>1. owns[t][h][o] + 1 >= 0
  BY DEF ObjectTypeOK
<1> QED BY <1>1, OwnedStep

LEMMA GivenBack ==
  ASSUME ObjectTypeOK, NEW t \in Callers, NEW h \in Slots, NEW o \in Objects,
         Own(t, h, o, -1), owns[t][h][o] > 0
  PROVE  /\ owns' \in [Callers -> [Slots -> [Objects -> Nat]]]
         /\ \A u \in Callers \ {t} : owns'[u] = owns[u]
         /\ owns'[t][h][o] = owns[t][h][o] - 1
         /\ \A g \in Slots, p \in Objects :
              g # h \/ p # o => owns'[t][g][p] = owns[t][g][p] /\ Owned(g, p)' = Owned(g, p)
         /\ Owned(h, o)' = Owned(h, o) - 1
<1>1. owns[t][h][o] \in Nat /\ Owned(h, o) \in Nat
  <2>1. owns[t][h][o] \in Nat
    BY TypesSplit DEF CallTypes
  <2>2. Owned(h, o) \in Nat
    BY OwnedIs
  <2> QED BY <2>1, <2>2
<1>2. owns[t][h][o] + (-1) >= 0
  BY <1>1
<1>3. /\ owns' \in [Callers -> [Slots -> [Objects -> Nat]]]
      /\ \A u \in Callers \ {t} : owns'[u] = owns[u]
      /\ owns'[t][h][o] = owns[t][h][o] + (-1)
      /\ \A g \in Slots, p \in Objects :
           g # h \/ p # o => owns'[t][g][p] = owns[t][g][p] /\ Owned(g, p)' = Owned(g, p)
      /\ Owned(h, o)' = Owned(h, o) + (-1)
  BY <1>2, OwnedStep
<1> QED BY <1>1, <1>3

LEMMA FoundStep ==
  ASSUME TableInv, NEW t \in Callers, FindNamed(t)
  PROVE  TableInv'
<1>1. ObjectTypeOK /\ TableTypes /\ CallTypes /\ Underway(t) /\ call[t].at = "find"
  BY TypesSplit DEF TableInv, FindNamed
<1>2. UNCHANGED <<table, handles, name, stash, owns, pins>>
  BY DEF FindNamed
<1>3. call[t].handle \in Slots
  BY <1>1 DEF CallTypes
<1>4. PICK h \in Slots, o \in Objects :
        /\ h = call[t].handle /\ IsFirst(h, o) /\ owns[t][h][o] > 0 /\ object[h] = o
  BY <1>1, <1>3 DEF Underway, IsFirst
<1>5. refs' = [refs EXCEPT ![o] = @ + 1] /\ Hold(t, "unretain", o)
  BY <1>4, NoneAssumption DEF FindNamed, LookupObject
<1>6. /\ call' \in [Callers -> CallRecords] /\ call'[t].at = "unretain"
      /\ call'[t].object = o /\ call'[t].handle = h
      /\ \A u \in Callers \ {t} : call'[u] = call[u]
  BY <1>1, <1>4, <1>5, HoldMoves DEF Places
<1>7. Moves(t)
  BY <1>2, <1>6 DEF Moves
<1>8. \A p \in Objects : Pinned(p)' = Pinned(p)
  BY <1>1, <1>2, <1>6, <1>7, PinnedStays
<1>9. TableTypes' /\ Counting'
  <2>1. call[t].object = None /\ UNCHANGED <<table, handles, name, stash, owns>>
    BY <1>1, <1>2 DEF Underway
  <2> QED BY <1>5, <1>6, <1>7, <1>8, <2>1, Looked
<1>10. CallTypes'
  BY <1>1, <1>2, <1>6 DEF CallTypes, CallRecords
<1>11. \A g \in Slots, p \in Objects : IsFirst(g, p) => IsFirst(g, p)'
  BY <1>2 DEF IsFirst, table
<1>12. Underway(t)' /\ Unknown(t)'
  <2>1. IsFirst(h, o)' /\ o # None /\ owns'[t][h][o] > 0
    BY <1>2, <1>4, <1>11, NoneAssumption
  <2> QED BY <1>6, <2>1 DEF Underway, Unknown, IsFirst
<1>13. Kept'
  <2>1. /\ \A g \in Slots : t \in Openers(g, Opening)' => object[g] # None
        /\ \A g \in Slots : t \in Openers(g, Giving)' <=> t \in Openers(g, Giving)
    BY <1>1, <1>4, <1>6, NoneAssumption DEF Openers, Giving
  <2>2. count' = count /\ count \in [Slots -> Int]
    BY <1>1, <1>2 DEF TableTypes, table
  <2>3. \A g \in Slots : count'[g] >= count[g] + One(t \in Openers(g, Giving)')
                                               - One(t \in Openers(g, Giving))
    BY <2>1, <2>2 DEF One
  <2> QED BY <1>7, <2>1, <2>2, <2>3, KeptMoves
<1>14. \A p \in Objects : (Knows(t, p)' => Knows(t, p)) /\ name'[p] = name[p]
  BY <1>2, <1>4, <1>6 DEF Knows
<1> QED BY <1>7, <1>9, <1>10, <1>11, <1>12, <1>13, <1>14, Assembled

LEMMA UnretainStep ==
  ASSUME TableInv, NEW t \in Callers, UnretainNamed(t)
  PROVE  TableInv'
<1>1. ObjectTypeOK /\ TableTypes /\ CallTypes /\ Underway(t) /\ call[t].at = "unretain"
  BY TypesSplit DEF TableInv, UnretainNamed
<1>2. UNCHANGED <<capacity, lastFree, pins>> /\ GoTo(t, "retain")
  BY DEF UnretainNamed
<1>3. /\ call[t].handle \in Slots /\ call[t].object \in Objects
      /\ IsFirst(call[t].handle, call[t].object)
      /\ owns[t][call[t].handle][call[t].object] > 0
  BY <1>1 DEF CallTypes, Underway
<1>4. PICK h \in Slots, o \in Objects :
        /\ h = call[t].handle /\ o = call[t].object
        /\ IsFirst(h, o) /\ owns[t][h][o] > 0 /\ object[h] = o
  BY <1>3 DEF IsFirst
<1>5. ReleaseHandle(h) /\ Own(t, h, o, -1)
  <2>1. Primaries(o) = {h}
    BY <1>4, FirstIs
  <2> QED BY <1>4, <2>1 DEF UnretainNamed
<1>6. count[h] > 1 /\ count[h] \in Int
  <2>1. t \in Openers(h, Opening) /\ t \in Openers(h, Giving)
    BY <1>1, <1>4 DEF Openers, Opening, Giving
  <2>2. Cardinality(Openers(h, Giving)) > 0
    BY <2>1, OpenersMeet
  <2>3. count[h] > Cardinality(Openers(h, Giving)) /\ Cardinality(Openers(h, Giving)) \in Nat
    <3>1. object[h] # None
      BY <1>4, NoneAssumption
    <3>2. IsFiniteSet(Openers(h, Giving))
      BY Finite
    <3> QED BY <3>1, <3>2, KeptOpen, FS_CardinalityType
  <2>4. count[h] \in Int
    BY <1>1 DEF TableTypes
  <2> QED BY <2>2, <2>3, <2>4
<1>7. /\ count' = [count EXCEPT ![h] = count[h] - 1] /\ UNCHANGED <<object, names, objects>>
  BY <1>5, <1>6 DEF ReleaseHandle
<1>8. /\ call' \in [Callers -> CallRecords] /\ call'[t].at = "retain"
      /\ call'[t].object = call[t].object /\ call'[t].handle = h
      /\ \A u \in Callers \ {t} : call'[u] = call[u]
  BY <1>1, <1>2, <1>4, GoToMoves DEF Places
<1>9. /\ owns' \in [Callers -> [Slots -> [Objects -> Nat]]]
      /\ \A u \in Callers \ {t} : owns'[u] = owns[u]
      /\ owns'[t][h][o] = owns[t][h][o] - 1
      /\ \A g \in Slots, p \in Objects :
           g # h \/ p # o => owns'[t][g][p] = owns[t][g][p] /\ Owned(g, p)' = Owned(g, p)
      /\ Owned(h, o)' = Owned(h, o) - 1
  BY <1>1, <1>4, <1>5, GivenBack
<1>10. Moves(t)
  BY <1>2, <1>8, <1>9 DEF Moves
<1>11. \A p \in Objects : Pinned(p)' = Pinned(p)
  BY <1>1, <1>2, <1>8, <1>10, PinnedStays
<1>12. /\ count' \in [Slots -> Int] /\ count'[h] = count[h] - 1 /\ count'[h] > 0
       /\ \A g \in Slots \ {h} : count'[g] = count[g]
  BY <1>1, <1>6, <1>7 DEF TableTypes
<1>13. TableTypes' /\ Counting'
  <2>1. UNCHANGED <<capacity, lastFree, object, names, objects>>
    BY <1>2, <1>7
  <2>2. /\ \A g \in Slots, p \in Objects : g # h \/ p # o => Owned(g, p)' = Owned(g, p)
        /\ \A p \in Objects : p # o => Pinned(p)' = Pinned(p)
        /\ Owned(h, o)' = Owned(h, o) + (count'[h] - count[h]) /\ Pinned(o)' = Pinned(o)
    BY <1>1, <1>6, <1>9, <1>11, <1>12, OwnedIs
  <2> QED BY <1>4, <1>8, <1>10, <1>12, <2>1, <2>2, Recount
<1>14. CallTypes'
  BY <1>1, <1>2, <1>8, <1>9 DEF CallTypes, CallRecords
<1>15. \A g \in Slots, p \in Objects : IsFirst(g, p) => IsFirst(g, p)'
  BY <1>7 DEF IsFirst, objects
<1>16. Underway(t)' /\ Unknown(t)'
  <2>1. IsFirst(h, o)' /\ o # None
    BY <1>4, <1>15, NoneAssumption
  <2> QED BY <1>4, <1>8, <2>1 DEF Underway, Unknown, IsFirst
<1>17. Kept'
  <2>1. \A g \in Slots : /\ t \in Openers(g, Opening)' => g = h
                         /\ t \notin Openers(g, Giving)'
                         /\ t \in Openers(g, Giving) <=> g = h
    BY <1>1, <1>4, <1>8 DEF Openers, Opening, Giving
  <2>2. \A g \in Slots : count'[g] >= count[g] + One(t \in Openers(g, Giving)')
                                               - One(t \in Openers(g, Giving))
    BY <1>1, <1>12, <2>1 DEF One, TableTypes
  <2>3. object[h] # None
    BY <1>4, NoneAssumption
  <2> QED BY <1>10, <1>12, <2>1, <2>2, <2>3, KeptMoves
<1>18. \A p \in Objects : (Knows(t, p)' => Knows(t, p)) /\ name'[p] = name[p]
  <2>1. \A g \in Slots, p \in Objects : owns'[t][g][p] > 0 => owns[t][g][p] > 0
    BY <1>4, <1>9
  <2> QED BY <1>2, <1>7, <1>8, <2>1 DEF Knows, objects
<1> QED BY <1>10, <1>13, <1>14, <1>15, <1>16, <1>17, <1>18, Assembled

LEMMA RetainStep ==
  ASSUME TableInv, NEW t \in Callers, RetainNamed(t), ~UNCHANGED <<count, owns>>
  PROVE  TableInv'
<1>1. ObjectTypeOK /\ TableTypes /\ CallTypes /\ Underway(t) /\ call[t].at = "retain"
  BY TypesSplit DEF TableInv, RetainNamed
<1>2. /\ UNCHANGED <<capacity, lastFree, object, names, objects>> /\ pins' = pins
      /\ GoTo(t, "drop")
  BY DEF RetainNamed
<1>3. /\ call[t].handle \in Slots /\ call[t].object \in Objects
      /\ IsFirst(call[t].handle, call[t].object)
  BY <1>1 DEF CallTypes, Underway
<1>4. PICK h \in Slots, o \in Objects :
        h = call[t].handle /\ o = call[t].object /\ IsFirst(h, o) /\ object[h] = o
  BY <1>3 DEF IsFirst
<1>5. /\ RetainHandle(h) /\ Own(t, h, o, 1) /\ count[h] > 0
  BY <1>4, FirstIs DEF RetainNamed
<1>6. /\ call' \in [Callers -> CallRecords] /\ call'[t].at = "drop"
      /\ call'[t].object = call[t].object
      /\ \A u \in Callers \ {t} : call'[u] = call[u]
  BY <1>1, <1>2, GoToMoves DEF Places
<1>7. /\ owns' \in [Callers -> [Slots -> [Objects -> Nat]]]
      /\ \A u \in Callers \ {t} : owns'[u] = owns[u]
      /\ owns'[t][h][o] = owns[t][h][o] + 1
      /\ \A g \in Slots, p \in Objects :
           g # h \/ p # o => owns'[t][g][p] = owns[t][g][p] /\ Owned(g, p)' = Owned(g, p)
      /\ Owned(h, o)' = Owned(h, o) + 1
  BY <1>1, <1>5, Given
<1>8. Moves(t)
  BY <1>2, <1>6, <1>7 DEF Moves
<1>9. \A p \in Objects : Pinned(p)' = Pinned(p)
  BY <1>1, <1>2, <1>6, <1>8, PinnedStays
<1>10. /\ count' \in [Slots -> Int] /\ count'[h] = count[h] + 1 /\ count'[h] > 0
       /\ count[h] \in Int /\ \A g \in Slots \ {h} : count'[g] = count[g]
  BY <1>1, <1>5 DEF TableTypes, RetainHandle
<1>11. TableTypes' /\ Counting'
  <2>1. /\ \A g \in Slots, p \in Objects : g # h \/ p # o => Owned(g, p)' = Owned(g, p)
        /\ \A p \in Objects : p # o => Pinned(p)' = Pinned(p)
        /\ Owned(h, o)' = Owned(h, o) + (count'[h] - count[h]) /\ Pinned(o)' = Pinned(o)
    BY <1>1, <1>7, <1>9, <1>10, OwnedIs
  <2> QED BY <1>2, <1>4, <1>6, <1>8, <1>10, <2>1, Recount
<1>12. CallTypes'
  BY <1>1, <1>2, <1>6, <1>7 DEF CallTypes, CallRecords
<1>13. \A g \in Slots, p \in Objects : IsFirst(g, p) => IsFirst(g, p)'
  BY <1>2 DEF IsFirst, objects
<1>14. Underway(t)' /\ Unknown(t)'
  BY <1>3, <1>6, NoneAssumption DEF Underway, Unknown
<1>15. Kept'
  <2>1. \A g \in Slots : /\ t \notin Openers(g, Opening)' /\ t \notin Openers(g, Giving)'
                         /\ t \notin Openers(g, Giving)
    BY <1>1, <1>6 DEF Openers, Opening, Giving
  <2>2. \A g \in Slots : count'[g] >= count[g] + One(t \in Openers(g, Giving)')
                                               - One(t \in Openers(g, Giving))
    <3>1. \A g \in Slots : count'[g] \in Int /\ count[g] \in Int
      BY <1>1, <1>10 DEF TableTypes
    <3>2. \A g \in Slots : count'[g] = count[g] \/ count'[g] = count[g] + 1
      BY <1>10
    <3> QED BY <2>1, <3>1, <3>2 DEF One
  <2> QED BY <1>8, <1>10, <2>1, <2>2, KeptMoves
<1>16. \A p \in Objects : (Knows(t, p)' => Knows(t, p)) /\ name'[p] = name[p]
  <2>1. \A g \in Slots, p \in Objects : owns'[t][g][p] > 0 => owns[t][g][p] > 0 \/ p = o
    BY <1>7
  <2> QED BY <1>2, <1>4, <1>6, <2>1 DEF Knows, objects
<1> QED BY <1>8, <1>11, <1>12, <1>13, <1>14, <1>15, <1>16, Assembled

LEMMA RefuseStep ==
  ASSUME TableInv, NEW t \in Callers, RetainNamed(t), UNCHANGED <<count, owns>>
  PROVE  TableInv'
<1>1. ObjectTypeOK /\ TableTypes /\ CallTypes /\ Underway(t) /\ call[t].at = "retain"
  BY TypesSplit DEF TableInv, RetainNamed
<1>2. UNCHANGED <<table, objects, owns>> /\ pins' = pins /\ GoTo(t, "drop")
  BY DEF RetainNamed, table
<1>3. /\ call' \in [Callers -> CallRecords] /\ call'[t].at = "drop"
      /\ call'[t].object = call[t].object
      /\ \A u \in Callers \ {t} : call'[u] = call[u]
  BY <1>1, <1>2, GoToMoves DEF Places
<1>4. Moves(t)
  BY <1>2, <1>3 DEF Moves
<1>5. \A p \in Objects : Pinned(p)' = Pinned(p)
  BY <1>1, <1>2, <1>3, <1>4, PinnedStays
<1>6. TableTypes' /\ Counting'
  BY <1>2, <1>3, <1>4, <1>5, Unmoved
<1>7. CallTypes'
  BY <1>1, <1>2, <1>3 DEF CallTypes, CallRecords
<1>8. Underway(t)' /\ Unknown(t)'
  BY <1>1, <1>3, NoneAssumption DEF Underway, Unknown
<1>9. Kept'
  <2>1. \A g \in Slots : /\ t \notin Openers(g, Opening)' /\ t \notin Openers(g, Giving)'
                         /\ t \notin Openers(g, Giving)
    BY <1>1, <1>3 DEF Openers, Opening, Giving
  <2>2. count' \in [Slots -> Int] /\ \A g \in Slots :
          count'[g] >= count[g] + One(t \in Openers(g, Giving)') - One(t \in Openers(g, Giving))
    BY <1>1, <2>1 DEF One, TableTypes
  <2> QED BY <1>4, <2>1, <2>2, KeptMoves
<1>10. /\ \A g \in Slots, p \in Objects : IsFirst(g, p) => IsFirst(g, p)'
       /\ \A p \in Objects : (Knows(t, p)' => Knows(t, p)) /\ name'[p] = name[p]
  BY <1>2, <1>3 DEF IsFirst, Knows, table, objects
<1> QED BY <1>4, <1>6, <1>7, <1>8, <1>9, <1>10, Assembled

(* A slot that is free has nobody who opens an object by it.                *)
LEMMA KeptAdded ==
  ASSUME TableInv, NEW t \in Callers, Moves(t), NEW h \in Slots, object[h] = None,
         count' \in [Slots -> Int], \A g \in Slots : g # h => count'[g] = count[g],
         call[t].at \notin Opening, call'[t].at \notin Opening
  PROVE  Kept'
<1>1. \A g \in Slots : /\ t \notin Openers(g, Opening)' /\ t \notin Openers(g, Giving)'
                       /\ t \notin Openers(g, Giving)
  BY DEF Openers, Opening, Giving
<1>2. Openers(h, Opening)' = {}
  <2>1. ASSUME NEW u \in Callers PROVE u \notin Openers(h, Opening)'
    <3>1. CASE u = t
      BY <1>1, <3>1
    <3>2. CASE u # t
      <4>1. u \notin Openers(h, Opening)
        BY OpenersMeet
      <4> QED BY <3>2, <4>1, OpenersStep
    <3> QED BY <3>1, <3>2
  <2> QED BY <2>1 DEF Openers
<1>3. \A g \in Slots : count[g] \in Int
  BY DEF TableInv, ObjectTypeOK
<1>4. \A g \in Slots : g # h =>
        count'[g] >= count[g] + One(t \in Openers(g, Giving)') - One(t \in Openers(g, Giving))
  BY <1>1, <1>3 DEF One
<1>5. \A g \in Slots :
        \/ count'[g] >= count[g] + One(t \in Openers(g, Giving)') - One(t \in Openers(g, Giving))
        \/ Openers(g, Opening)' = {}
        \/ count'[g] > Cardinality(Openers(g, Giving)')
  BY <1>2, <1>4
<1> QED BY <1>1, <1>5, KeptMoves

LEMMA CreateStep ==
  ASSUME TableInv, NEW t \in Callers, Create(t)
  PROVE  TableInv'
<1>1. /\ ObjectTypeOK /\ TableTypes /\ CallTypes /\ Underway(t)
      /\ call[t].at \in {"idle", "new"} /\ call[t].object = None
  BY TypesSplit DEF TableInv, Create, Underway
<1>2. PICK o \in Objects, h \in Slots, fails \in BOOLEAN :
        /\ refs[o] = 0 /\ AddHandle(o, 1, h) /\ stash' = [stash EXCEPT ![o] = h]
        /\ Own(t, h, o, 1)
        /\ Hold(t, IF fails THEN "fail" ELSE IF call[t].name = None THEN "drop" ELSE "name", o)
  BY DEF Create
<1>3. UNCHANGED <<names, name>> /\ pins' = pins
  BY DEF Create
<1>4. /\ call' \in [Callers -> CallRecords] /\ call'[t].at \in {"drop", "name", "fail"}
      /\ call'[t].object = o /\ call'[t].name = call[t].name
      /\ call'[t].at = "name" => call[t].name # None
      /\ \A u \in Callers \ {t} : call'[u] = call[u]
  <2> DEFINE at == IF fails THEN "fail" ELSE IF call[t].name = None THEN "drop" ELSE "name"
  <2>1. at \in Places /\ at \in {"drop", "name", "fail"} /\ (at = "name" => call[t].name # None)
    BY DEF Places
  <2>2. Hold(t, at, o)
    BY <1>2
  <2> HIDE DEF at
  <2> QED BY <1>1, <2>1, <2>2, HoldMoves
<1>5. /\ owns' \in [Callers -> [Slots -> [Objects -> Nat]]]
      /\ \A u \in Callers \ {t} : owns'[u] = owns[u]
      /\ owns'[t][h][o] = owns[t][h][o] + 1
      /\ \A g \in Slots, p \in Objects : g # h \/ p # o => owns'[t][g][p] = owns[t][g][p]
  BY <1>1, <1>2, Given
<1>6. Moves(t)
  BY <1>3, <1>4, <1>5 DEF Moves
<1>7. \A p \in Objects : Pinned(p)' = Pinned(p)
  BY <1>1, <1>3, <1>4, <1>6, PinnedStays
<1>8. /\ TableTypes' /\ Counting' /\ object[h] = None
      /\ \A g \in Slots, p \in Objects : IsFirst(g, p) => IsFirst(g, p)'
      /\ \A g \in Slots : g # h => count'[g] = count[g]
  BY <1>1, <1>2, <1>3, <1>4, <1>6, <1>7, Addition
<1>9. CallTypes'
  BY <1>1, <1>3, <1>4, <1>5 DEF CallTypes, CallRecords
<1>10. Underway(t)'
  <2>1. owns[t][h][o] \in Nat
    BY <1>1 DEF CallTypes
  <2>2. owns'[t][h][o] > 0
    BY <1>5, <2>1
  <2>3. o # None
    BY NoneAssumption
  <2>4. pins'[t][o] = 0
    <3>1. ~Knows(t, o)
      BY <1>2, Alive
    <3> QED BY <1>1, <1>3, <3>1 DEF Knows, CallTypes
  <2> QED BY <1>4, <2>2, <2>3, <2>4 DEF Underway
<1>11. Unknown(t)'
  <2>1. name'[o] = None
    BY <1>2, <1>3 DEF TableInv, Nameless
  <2>2. ASSUME NEW u \in Callers \ {t} PROVE ~Knows(u, o)'
    <3>1. ~Knows(u, o)
      BY <1>2, Alive
    <3> QED BY <1>6, <3>1 DEF Knows, Moves
  <2>3. \A u \in Callers \ {t} : ~Knows(u, o)'
    BY <2>2
  <2> QED BY <1>4, <2>1, <2>3 DEF Unknown, Knows
<1>12. Kept'
  <2>1. count' \in [Slots -> Int]
    BY <1>8 DEF TableTypes
  <2> QED BY <1>1, <1>4, <1>6, <1>8, <2>1, KeptAdded DEF Opening
<1>13. \A p \in Objects : (Knows(t, p)' => Knows(t, p) \/ refs[p] = 0) /\ name'[p] = name[p]
  <2>1. \A g \in Slots, p \in Objects : owns'[t][g][p] > 0 => owns[t][g][p] > 0 \/ p = o
    BY <1>5
  <2> QED BY <1>2, <1>3, <1>4, <2>1 DEF Knows
<1> QED BY <1>6, <1>8, <1>9, <1>10, <1>11, <1>12, <1>13, Assembled

LEMMA DuplicateStep ==
  ASSUME TableInv, NEW t \in Callers, Duplicate(t)
  PROVE  TableInv'
<1>1. /\ ObjectTypeOK /\ TableTypes /\ CallTypes /\ Underway(t) /\ call[t].at = "add"
  BY TypesSplit DEF TableInv, Duplicate
<1>2. call[t].object \in Objects
  BY <1>1 DEF CallTypes, Underway
<1>3. PICK o \in Objects, h \in Slots, then \in {"drop", "release"} :
        o = call[t].object /\ AddHandle(o, 0, h) /\ Own(t, h, o, 1) /\ GoTo(t, then)
  BY <1>2 DEF Duplicate
<1>4. UNCHANGED <<names, name>> /\ stash' = stash /\ pins' = pins
  BY DEF Duplicate
<1>5. /\ call' \in [Callers -> CallRecords] /\ call'[t].at \in {"drop", "release"}
      /\ call'[t].object = call[t].object /\ \A u \in Callers \ {t} : call'[u] = call[u]
  <2>1. then \in Places
    BY DEF Places
  <2> QED BY <1>1, <1>3, <2>1, GoToMoves
<1>6. /\ owns' \in [Callers -> [Slots -> [Objects -> Nat]]]
      /\ \A u \in Callers \ {t} : owns'[u] = owns[u]
      /\ \A g \in Slots, p \in Objects : g # h \/ p # o => owns'[t][g][p] = owns[t][g][p]
  BY <1>1, <1>3, Given
<1>7. Moves(t)
  BY <1>4, <1>5, <1>6 DEF Moves
<1>8. \A p \in Objects : Pinned(p)' = Pinned(p)
  BY <1>1, <1>4, <1>5, <1>7, PinnedStays
<1>9. /\ TableTypes' /\ Counting' /\ object[h] = None
      /\ \A g \in Slots, p \in Objects : IsFirst(g, p) => IsFirst(g, p)'
      /\ \A g \in Slots : g # h => count'[g] = count[g]
  BY <1>3, <1>4, <1>5, <1>7, <1>8, Addition
<1>10. CallTypes'
  BY <1>1, <1>4, <1>5, <1>6 DEF CallTypes, CallRecords
<1>11. Underway(t)' /\ Unknown(t)'
  BY <1>2, <1>5, NoneAssumption DEF Underway, Unknown
<1>12. Kept'
  <2>1. count' \in [Slots -> Int]
    BY <1>9 DEF TableTypes
  <2> QED BY <1>1, <1>5, <1>7, <1>9, <2>1, KeptAdded DEF Opening
<1>13. \A p \in Objects : (Knows(t, p)' => Knows(t, p)) /\ name'[p] = name[p]
  <2>1. \A g \in Slots, p \in Objects : owns'[t][g][p] > 0 => owns[t][g][p] > 0 \/ p = o
    BY <1>6
  <2> QED BY <1>3, <1>4, <1>5, <2>1 DEF Knows
<1> QED BY <1>7, <1>9, <1>10, <1>11, <1>12, <1>13, Assembled

(* Nobody has found the object yet that gets its name, which no other       *)
(* object with that name loses.                                             *)
LEMMA NamingStep ==
  ASSUME TableInv, NEW t \in Callers, SetAttributes(t)
  PROVE  TableInv'
<1>1. /\ ObjectTypeOK /\ TableTypes /\ CallTypes /\ Underway(t) /\ Unknown(t)
      /\ call[t].at = "name"
  BY TypesSplit DEF TableInv, SetAttributes
<1>2. /\ UNCHANGED <<capacity, lastFree, object, count, refs, handles, stash, owns>>
      /\ pins' = pins /\ GoTo(t, "drop")
  BY DEF SetAttributes
<1>3. PICK o \in Objects, n \in Names, h \in Slots :
        /\ o = call[t].object /\ n = call[t].name /\ owns[t][h][o] > 0
  <2>1. call[t].object \in Objects /\ call[t].name \in Names
    BY <1>1 DEF CallTypes, Underway
  <2>2. \E h \in Slots : owns[t][h][call[t].object] > 0
    BY <1>1 DEF Underway
  <2> QED BY <2>1, <2>2
<1>4. name[o] = None /\ refs[o] > 0 /\ IsFirst(Head(handles[o]), o)
      /\ Head(handles[o]) \in Slots /\ Primaries(o) = {Head(handles[o])}
  <2>1. object[h] = o /\ refs[o] > 0
    BY <1>3, Alive
  <2>2. name[o] = None
    BY <1>1, <1>3 DEF Unknown
  <2> QED BY <2>1, <2>2, FirstHandle DEF TableInv, IsFirst
<1>5. /\ name' = [name EXCEPT ![o] = n]
      /\ names' = [names EXCEPT ![n] = IF names[n] = None THEN Head(handles[o]) ELSE names[n]]
  BY <1>1, <1>3, <1>4 DEF SetAttributes, TableTypes
<1>6. /\ call' \in [Callers -> CallRecords] /\ call'[t].at = "drop"
      /\ call'[t].object = call[t].object
      /\ \A u \in Callers \ {t} : call'[u] = call[u]
  BY <1>1, <1>2, GoToMoves DEF Places
<1>7. Moves(t)
  BY <1>2, <1>6 DEF Moves
<1>8. \A p \in Objects : Pinned(p)' = Pinned(p)
  BY <1>1, <1>2, <1>6, <1>7, PinnedStays
<1>9. TableTypes'
  BY <1>1, <1>2, <1>4, <1>5 DEF TableTypes
<1>10. Counting'
  <2>1. PointersExact'
    <3> SUFFICES ASSUME NEW p \in Objects
                 PROVE  refs'[p] = Cardinality(HandlesOf(p)') + Cardinality(CallsOf(p)')
      BY DEF PointersExact, HandlesOf, CallsOf
    <3>1. refs[p] = Cardinality(HandlesOf(p)) + Cardinality(CallsOf(p))
      BY DEF TableInv, PointersExact, HandlesOf, CallsOf
    <3>2. Cardinality(HandlesOf(p)') = Cardinality(HandlesOf(p))
      BY <1>2 DEF HandlesOf
    <3>3. Cardinality(CallsOf(p)') = Cardinality(CallsOf(p))
      BY <1>6, <1>7, CallsOfStep DEF One
    <3> QED BY <1>2, <3>1, <3>2, <3>3
  <2>2. HandlesExact'
    BY <1>2, <1>8 DEF TableInv, HandlesExact, Owned, Total
  <2>3. NamesResolve'
    <3> SUFFICES ASSUME NEW m \in Names, names'[m] # None
                 PROVE  LET p == object'[names'[m]] IN
                        p # None /\ name'[p] = m /\ names'[m] = Head(handles'[p])
      BY DEF NamesResolve
    <3>1. CASE m = n /\ names[n] = None
      <4>1. names'[m] = Head(handles[o]) /\ object[Head(handles[o])] = o /\ name'[o] = m
        BY <1>1, <1>4, <1>5, <3>1 DEF TableTypes, IsFirst
      <4> QED BY <1>2, <4>1, NoneAssumption
    <3>2. CASE ~(m = n /\ names[n] = None)
      <4>1. names'[m] = names[m]
        BY <1>1, <1>5, <3>2 DEF TableTypes
      <4>2. PICK g \in Slots, p \in Objects :
              g = names[m] /\ p = object[g] /\ name[p] = m /\ g = Head(handles[p])
        <5>1. names[m] \in Slots /\ object[names[m]] # None
          BY <1>1, <4>1 DEF TableInv, NamesResolve, TableTypes
        <5>2. object[names[m]] \in Objects
          BY <1>1, <5>1 DEF TableTypes
        <5> QED BY <4>1, <5>1, <5>2 DEF TableInv, NamesResolve
      <4>3. p # o
        BY <1>4, <4>2, NoneAssumption
      <4>4. name'[p] = m
        BY <1>1, <1>5, <4>2, <4>3 DEF TableTypes
      <4> QED BY <1>2, <4>1, <4>2, <4>4, NoneAssumption
    <3> QED BY <3>1, <3>2
  <2>4. Listed' /\ Stashed'
    BY <1>2, <1>8 DEF TableInv, Listed, Stashed
  <2>5. Nameless'
    <3>1. ASSUME NEW p \in Objects, refs'[p] = 0 PROVE name'[p] = None
      BY <1>1, <1>2, <1>4, <1>5, <3>1 DEF TableInv, Nameless, TableTypes
    <3> QED BY <3>1 DEF Nameless
  <2> QED BY <2>1, <2>2, <2>3, <2>4, <2>5 DEF Counting
<1>11. CallTypes'
  BY <1>1, <1>2, <1>6 DEF CallTypes, CallRecords
<1>12. \A g \in Slots, p \in Objects : IsFirst(g, p) => IsFirst(g, p)'
  BY <1>2 DEF IsFirst
<1>13. Underway(t)' /\ Unknown(t)'
  BY <1>3, <1>6, NoneAssumption DEF Underway, Unknown
<1>14. Kept'
  <2>1. \A g \in Slots : /\ t \notin Openers(g, Opening)' /\ t \notin Openers(g, Giving)'
                         /\ t \notin Openers(g, Giving)
    BY <1>1, <1>6 DEF Openers, Opening, Giving
  <2>2. count' = count /\ count \in [Slots -> Int]
    BY <1>1, <1>2 DEF TableTypes
  <2>3. \A g \in Slots : count'[g] >= count[g] + One(t \in Openers(g, Giving)')
                                               - One(t \in Openers(g, Giving))
    BY <2>1, <2>2 DEF One
  <2> QED BY <1>7, <2>1, <2>2, <2>3, KeptMoves
<1>15. \A p \in Objects : /\ Knows(t, p)' => Knows(t, p)
                          /\ name'[p] \in {name[p], None} \/ Knows(t, p)
  <2>1. \A p \in Objects : p = o \/ name'[p] = name[p]
    BY <1>1, <1>5 DEF TableTypes
  <2> QED BY <1>2, <1>3, <1>6, <2>1 DEF Knows
<1> QED BY <1>7, <1>9, <1>10, <1>11, <1>12, <1>13, <1>14, <1>15, Assembled

(* Without hurry, nobody opens the object by a handle that goes.            *)
LEMMA NobodyOpens ==
  ASSUME TableInv, NEW h \in Slots, object[h] # None, count[h] = 1, ~Hurry(h)
  PROVE  Openers(h, Opening) = {}
<1>1. count[h] > Cardinality(Openers(h, Giving))
  BY KeptOpen
<1>2. IsFiniteSet(Openers(h, Giving))
  BY Finite
<1>3. Cardinality(Openers(h, Giving)) \in Nat
  BY <1>2, FS_CardinalityType
<1>4. Cardinality(Openers(h, Giving)) = 0
  BY <1>1, <1>3
<1>5. count[h] - Cardinality(Openers(h, Giving)) = 1
  BY <1>4
<1> QED BY <1>5 DEF Hurry, Opening, Giving

(* The last reference goes: its handle is removed.                          *)
LEMMA LastGoes ==
  ASSUME TableInv, NEW t \in Callers, Moves(t), NEW h \in Slots, NEW o \in Objects,
         object[h] = o, count[h] = 1, ~Hurry(h), RemoveHandle(h),
         UNCHANGED <<capacity, lastFree>>, call'[t].object = call[t].object,
         call[t].at \notin Opening, call'[t].at \notin Opening,
         \A g \in Slots, p \in Objects : g # h \/ p # o => Owned(g, p)' = Owned(g, p),
         \A p \in Objects : p # o => Pinned(p)' = Pinned(p),
         \/ Owned(h, o)' = Owned(h, o) - 1 /\ Pinned(o)' = Pinned(o) /\ Owned(h, o) > 0
         \/ /\ Owned(h, o)' = Owned(h, o) /\ Pinned(o)' = Pinned(o) - 1
            /\ h = Head(handles[o]) /\ Pinned(o) > 0
  PROVE  /\ TableTypes' /\ Counting' /\ Kept'
         /\ \A u \in Callers \ {t}, g \in Slots, p \in Objects :
              IsFirst(g, p) /\ u \in Openers(g, Opening) => IsFirst(g, p)'
         /\ \A p \in Objects : name'[p] \in {name[p], None}
<1>1. /\ Owned(h, o) \in Nat /\ Pinned(o) \in Nat /\ o # None
      /\ count[h] = Owned(h, o) + (IF h = Head(handles[o]) THEN Pinned(o) ELSE 0)
  BY OwnedIs, PinnedIs, NoneAssumption DEF TableInv, HandlesExact
<1>2. Owned(h, o)' = 0 /\ Pinned(o)' = IF h = Head(handles[o]) THEN 0 ELSE Pinned(o)
  BY <1>1
<1>3. /\ TableTypes' /\ Counting'
      /\ \A g \in Slots, p \in Objects : g # h /\ IsFirst(g, p) => IsFirst(g, p)'
      /\ \A p \in Objects : name'[p] \in {name[p], None}
      /\ \A g \in Slots : g # h => count'[g] = count[g]
  BY <1>2, Removal
<1>4. Openers(h, Opening) = {}
  BY <1>1, NobodyOpens
<1>5. /\ \A g \in Slots : /\ t \notin Openers(g, Opening)' /\ t \notin Openers(g, Giving)'
                          /\ t \notin Openers(g, Giving)
      /\ count \in [Slots -> Int] /\ count' \in [Slots -> Int]
  BY <1>3 DEF Openers, Opening, Giving, TableInv, ObjectTypeOK, TableTypes
<1>6. Openers(h, Opening)' = {}
  <2>1. ASSUME NEW u \in Callers PROVE u \notin Openers(h, Opening)'
    <3>1. CASE u = t
      BY <1>5, <3>1
    <3>2. CASE u # t
      BY <1>4, <3>2, OpenersStep
    <3> QED BY <3>1, <3>2
  <2> QED BY <2>1 DEF Openers
<1>7. \A g \in Slots : g # h =>
        count'[g] >= count[g] + One(t \in Openers(g, Giving)') - One(t \in Openers(g, Giving))
  BY <1>3, <1>5 DEF One
<1>8. \A g \in Slots :
        \/ count'[g] >= count[g] + One(t \in Openers(g, Giving)') - One(t \in Openers(g, Giving))
        \/ Openers(g, Opening)' = {}
        \/ count'[g] > Cardinality(Openers(g, Giving)')
  BY <1>6, <1>7
<1>9. Kept'
  BY <1>5, <1>8, KeptMoves
<1> QED BY <1>3, <1>4, <1>9

(* A reference to a handle goes.                                            *)
LEMMA OneGoes ==
  ASSUME TableInv, NEW t \in Callers, Moves(t), NEW h \in Slots, NEW o \in Objects,
         object[h] = o, ~Hurry(h), ReleaseHandle(h),
         UNCHANGED <<capacity, lastFree>>, call'[t].object = call[t].object,
         call[t].at \notin Opening, call'[t].at \notin Opening,
         \A g \in Slots, p \in Objects : g # h \/ p # o => Owned(g, p)' = Owned(g, p),
         \A p \in Objects : p # o => Pinned(p)' = Pinned(p),
         \/ Owned(h, o)' = Owned(h, o) - 1 /\ Pinned(o)' = Pinned(o) /\ Owned(h, o) > 0
         \/ /\ Owned(h, o)' = Owned(h, o) /\ Pinned(o)' = Pinned(o) - 1
            /\ h = Head(handles[o]) /\ Pinned(o) > 0
  PROVE  /\ TableTypes' /\ Counting' /\ Kept'
         /\ \A u \in Callers \ {t}, g \in Slots, p \in Objects :
              IsFirst(g, p) /\ u \in Openers(g, Opening) => IsFirst(g, p)'
         /\ \A p \in Objects : name'[p] \in {name[p], None}
<1>1. object[h] # None /\ count[h] > 0 /\ count \in [Slots -> Int]
  BY NoneAssumption DEF TableInv, HandlesExact, ObjectTypeOK
<1>2. CASE count[h] = 1
  <2>1. RemoveHandle(h)
    BY <1>1, <1>2 DEF ReleaseHandle
  <2> QED BY <1>2, <2>1, LastGoes
<1>3. CASE count[h] # 1
  <2>1. count' = [count EXCEPT ![h] = count[h] - 1] /\ UNCHANGED <<object, names, objects>>
    BY <1>3 DEF ReleaseHandle
  <2>2. /\ count[h] \in Int /\ count' \in [Slots -> Int] /\ count'[h] = count[h] - 1
        /\ count'[h] > 0 /\ \A g \in Slots \ {h} : count'[g] = count[g]
    BY <1>1, <1>3, <2>1
  <2>3. TableTypes' /\ Counting'
    <3>1. UNCHANGED <<capacity, lastFree, object, names, objects>>
      BY <2>1
    <3>2. Owned(h, o) \in Nat /\ Pinned(o) \in Nat
      BY OwnedIs, PinnedIs DEF TableInv
    <3>3. \/ Owned(h, o)' = Owned(h, o) + (count'[h] - count[h]) /\ Pinned(o)' = Pinned(o)
          \/ /\ Owned(h, o)' = Owned(h, o) /\ Pinned(o)' = Pinned(o) + (count'[h] - count[h])
             /\ h = Head(handles[o]) /\ (count'[h] > count[h] => stash[o] = h)
      BY <2>2, <3>2
    <3> QED BY <2>2, <3>1, <3>3, Recount
  <2>4. \A g \in Slots : /\ t \notin Openers(g, Opening)' /\ t \notin Openers(g, Giving)'
                         /\ t \notin Openers(g, Giving)
    BY DEF Openers, Opening, Giving
  <2>5. /\ Cardinality(Openers(h, Giving)) \in Nat
        /\ Cardinality(Openers(h, Giving)') = Cardinality(Openers(h, Giving))
    <3>1. /\ Cardinality(Openers(h, Giving)) \in Nat
          /\ Cardinality(Openers(h, Giving)') = Cardinality(Openers(h, Giving))
               + One(t \in Openers(h, Giving)') - One(t \in Openers(h, Giving))
      BY OpenersStep
    <3> QED BY <2>4, <3>1 DEF One
  <2>6. Openers(h, Opening)' # {} => count'[h] > Cardinality(Openers(h, Giving)')
    <3>1. Openers(h, Opening)' # {} => Openers(h, Opening) # {}
      <4>1. ASSUME NEW u \in Openers(h, Opening)' PROVE u \in Openers(h, Opening)
        <5>1. u \in Callers /\ u # t
          BY <2>4, <4>1 DEF Openers
        <5> QED BY <4>1, <5>1, OpenersStep
      <4> QED BY <4>1
    <3>2. count[h] > Cardinality(Openers(h, Giving))
      BY <1>1, KeptOpen
    <3>3. Openers(h, Opening) # {} => count[h] - Cardinality(Openers(h, Giving)) # 1
      BY DEF Hurry, Opening, Giving
    <3> QED BY <2>2, <2>5, <3>1, <3>2, <3>3
  <2>7. \A g \in Slots : g # h =>
          count'[g] >= count[g] + One(t \in Openers(g, Giving)') - One(t \in Openers(g, Giving))
    BY <1>1, <2>2, <2>4 DEF One
  <2>8. \A g \in Slots :
          \/ count'[g] >= count[g] + One(t \in Openers(g, Giving)') - One(t \in Openers(g, Giving))
          \/ Openers(g, Opening)' = {}
          \/ count'[g] > Cardinality(Openers(g, Giving)')
    BY <2>6, <2>7
  <2>9. Kept'
    BY <2>2, <2>4, <2>8, KeptMoves
  <2> QED BY <2>1, <2>3, <2>9 DEF IsFirst, objects
<1> QED BY <1>2, <1>3

LEMMA CloseStep ==
  ASSUME TableInv, Careful, NEW t \in Callers, NEW h \in Slots, Close(t, h)
  PROVE  TableInv'
<1>1. /\ ObjectTypeOK /\ TableTypes /\ CallTypes /\ Underway(t)
      /\ call[t].at = "idle" /\ call[t].object = None
  BY TypesSplit, AtRestIs DEF TableInv, Close
<1>2. /\ UNCHANGED <<capacity, lastFree>> /\ call' = call /\ pins' = pins
      /\ ~Hurry(h) /\ ReleaseHandle(h)
  BY DEF Close
<1>3. PICK o \in Objects : owns[t][h][o] > 0 /\ Own(t, h, o, -1)
  BY DEF Close
<1>4. object[h] = o
  BY <1>3, Alive
<1>5. /\ owns' \in [Callers -> [Slots -> [Objects -> Nat]]]
      /\ \A u \in Callers \ {t} : owns'[u] = owns[u]
      /\ \A g \in Slots, p \in Objects :
           g # h \/ p # o => owns'[t][g][p] = owns[t][g][p] /\ Owned(g, p)' = Owned(g, p)
      /\ Owned(h, o)' = Owned(h, o) - 1
  BY <1>1, <1>3, GivenBack
<1>6. Moves(t) /\ call'[t].object = call[t].object
  BY <1>2, <1>5 DEF Moves
<1>7. \A p \in Objects : Pinned(p)' = Pinned(p)
  BY <1>1, <1>2, <1>6, PinnedStays
<1>8. Owned(h, o) > 0
  BY <1>1, <1>3, OwnedIs
<1>9. /\ TableTypes' /\ Counting' /\ Kept'
      /\ \A u \in Callers \ {t}, g \in Slots, p \in Objects :
           IsFirst(g, p) /\ u \in Openers(g, Opening) => IsFirst(g, p)'
      /\ \A p \in Objects : name'[p] \in {name[p], None}
  <2>1. call[t].at \notin Opening /\ call'[t].at \notin Opening
    BY <1>1, <1>2 DEF Opening
  <2>2. \A g \in Slots, p \in Objects : g # h \/ p # o => Owned(g, p)' = Owned(g, p)
    BY <1>5
  <2>3. \A p \in Objects : p # o => Pinned(p)' = Pinned(p)
    BY <1>7
  <2>4. Owned(h, o)' = Owned(h, o) - 1 /\ Pinned(o)' = Pinned(o) /\ Owned(h, o) > 0
    BY <1>5, <1>7, <1>8
  <2> QED BY <1>2, <1>4, <1>6, <2>1, <2>2, <2>3, <2>4, OneGoes
<1>10. CallTypes'
  BY <1>1, <1>2, <1>5 DEF CallTypes
<1>11. Underway(t)' /\ Unknown(t)'
  BY <1>1, <1>2 DEF Underway, Unknown
<1>12. \A p \in Objects : Knows(t, p)' => Knows(t, p)
  <2>1. \A g \in Slots, p \in Objects : owns'[t][g][p] > 0 => owns[t][g][p] > 0
    BY <1>3, <1>5
  <2> QED BY <1>2, <2>1 DEF Knows
<1> QED BY <1>6, <1>9, <1>10, <1>11, <1>12, Assembled

(* The only handle of an object that nobody else has come by.               *)
LEMMA FailStep ==
  ASSUME TableInv, NEW t \in Callers, CreateFails(t)
  PROVE  TableInv'
<1>1. /\ ObjectTypeOK /\ TableTypes /\ CallTypes /\ Underway(t) /\ Unknown(t)
      /\ call[t].at = "fail"
  BY TypesSplit DEF TableInv, CreateFails
<1>2. UNCHANGED <<capacity, lastFree>> /\ pins' = pins /\ GoTo(t, "drop")
  BY DEF CreateFails
<1>3. PICK o \in Objects : o = call[t].object
  BY <1>1 DEF CallTypes, Underway
<1>4. \A u \in Callers \ {t} : ~Knows(u, o)
  BY <1>1, <1>3 DEF Unknown
<1>5. PICK h \in Slots : IsFirst(h, o) /\ object[h] = o /\ Primaries(o) = {h}
  <2>1. PICK g \in Slots : object[g] = o
    <3>1. \E g \in Slots : owns[t][g][o] > 0
      BY <1>1, <1>3 DEF Underway
    <3> QED BY <3>1, Alive
  <2> QED BY <2>1, FirstHandle DEF TableInv, IsFirst
<1>6. ReleaseHandle(h) /\ Own(t, h, o, -1)
  BY <1>3, <1>5 DEF CreateFails
<1>7. owns[t][h][o] > 0 /\ Owned(h, o) > 0
  <2>1. \A u \in Callers : ~(Due(u, o) > 0)
    <3>1. pins[t][o] = 0
      BY <1>1, <1>3 DEF Underway
    <3>2. \A u \in Callers \ {t} : ~(pins[u][o] > 0) /\ call[u].object # o
      BY <1>4 DEF Knows
    <3> QED BY <1>1, <3>1, <3>2 DEF Due, One, CallTypes
  <2>2. Pinned(o) = 0
    BY <1>1, <2>1, PinnedIs
  <2>3. count[h] = Owned(h, o) + 0 /\ count[h] > 0 /\ Owned(h, o) \in Nat
    BY <1>1, <1>5, <2>2, OwnedIs DEF TableInv, HandlesExact, IsFirst
  <2>4. PICK u \in Callers : owns[u][h][o] > 0
    BY <1>1, <2>3, OwnedIs
  <2>5. u = t
    BY <1>4, <2>4 DEF Knows
  <2> QED BY <2>3, <2>4, <2>5
<1>8. ~Hurry(h)
  <2>1. ASSUME NEW u \in Openers(h, Opening) PROVE FALSE
    <3>1. u \in Callers /\ call[u].at \in Opening /\ call[u].handle = h /\ u # t
      BY <1>1 DEF Openers, Opening
    <3>2. Underway(u) /\ call[u].object # o /\ ~(owns[u][h][o] > 0)
      BY <1>4, <3>1 DEF TableInv, Knows
    <3>3. call[u].at # "find"
      BY <1>5, <3>1, <3>2 DEF Underway, IsFirst
    <3>4. call[u].at \notin {"unretain", "retain"}
      BY <1>5, <3>1, <3>2 DEF Underway, IsFirst
    <3> QED BY <3>1, <3>3, <3>4 DEF Opening
  <2> QED BY <2>1 DEF Hurry, Opening
<1>9. /\ call' \in [Callers -> CallRecords] /\ call'[t].at = "drop"
      /\ call'[t].object = call[t].object
      /\ \A u \in Callers \ {t} : call'[u] = call[u]
  BY <1>1, <1>2, GoToMoves DEF Places
<1>10. /\ owns' \in [Callers -> [Slots -> [Objects -> Nat]]]
       /\ \A u \in Callers \ {t} : owns'[u] = owns[u]
       /\ \A g \in Slots, p \in Objects :
            g # h \/ p # o => owns'[t][g][p] = owns[t][g][p] /\ Owned(g, p)' = Owned(g, p)
       /\ Owned(h, o)' = Owned(h, o) - 1
  BY <1>1, <1>6, <1>7, GivenBack
<1>11. Moves(t)
  BY <1>2, <1>9, <1>10 DEF Moves
<1>12. \A p \in Objects : Pinned(p)' = Pinned(p)
  BY <1>1, <1>2, <1>9, <1>11, PinnedStays
<1>13. /\ TableTypes' /\ Counting' /\ Kept'
       /\ \A u \in Callers \ {t}, g \in Slots, p \in Objects :
            IsFirst(g, p) /\ u \in Openers(g, Opening) => IsFirst(g, p)'
       /\ \A p \in Objects : name'[p] \in {name[p], None}
  <2>1. call[t].at \notin Opening /\ call'[t].at \notin Opening
    BY <1>1, <1>9 DEF Opening
  <2>2. \A g \in Slots, p \in Objects : g # h \/ p # o => Owned(g, p)' = Owned(g, p)
    BY <1>10
  <2>3. \A p \in Objects : p # o => Pinned(p)' = Pinned(p)
    BY <1>12
  <2>4. Owned(h, o)' = Owned(h, o) - 1 /\ Pinned(o)' = Pinned(o) /\ Owned(h, o) > 0
    BY <1>7, <1>10, <1>12
  <2> QED BY <1>2, <1>5, <1>6, <1>8, <1>9, <1>11, <2>1, <2>2, <2>3, <2>4, OneGoes
<1>14. CallTypes'
  BY <1>1, <1>2, <1>9, <1>10 DEF CallTypes, CallRecords
<1>15. Underway(t)' /\ Unknown(t)'
  BY <1>3, <1>9, NoneAssumption DEF Underway, Unknown
<1>16. \A p \in Objects : Knows(t, p)' => Knows(t, p)
  <2>1. \A g \in Slots, p \in Objects : owns'[t][g][p] > 0 => owns[t][g][p] > 0
    BY <1>7, <1>10
  <2> QED BY <1>2, <1>9, <2>1 DEF Knows
<1> QED BY <1>11, <1>13, <1>14, <1>15, <1>16, Assembled

LEMMA SourceStep ==
  ASSUME TableInv, Careful, NEW t \in Callers, CloseSource(t)
  PROVE  TableInv'
<1>1. /\ ObjectTypeOK /\ TableTypes /\ CallTypes /\ Underway(t) /\ call[t].at = "close"
  BY TypesSplit DEF TableInv, CloseSource
<1>2. /\ call[t].handle \in Slots /\ object[call[t].handle] \in Objects
      /\ call[t].object = None
  BY <1>1 DEF CallTypes, TableTypes, Underway, CloseSource
<1>3. PICK h \in Slots, o \in Objects :
        /\ h = call[t].handle /\ object[h] = o /\ owns[t][h][o] > 0
        /\ ~Shared(h) /\ RemoveHandle(h) /\ Own(t, h, o, -1)
  BY <1>2 DEF CloseSource
<1>4. UNCHANGED <<capacity, lastFree>> /\ pins' = pins
  BY DEF CloseSource
<1>5. /\ call' \in [Callers -> CallRecords] /\ call'[t] = AtRest
      /\ call'[t].at = "idle" /\ call'[t].object = call[t].object
      /\ \A u \in Callers \ {t} : call'[u] = call[u]
  BY <1>1, <1>2, AtRestIs DEF CloseSource, CallTypes, CallRecords
<1>6. /\ owns' \in [Callers -> [Slots -> [Objects -> Nat]]]
      /\ \A u \in Callers \ {t} : owns'[u] = owns[u]
      /\ \A g \in Slots, p \in Objects :
           g # h \/ p # o => owns'[t][g][p] = owns[t][g][p] /\ Owned(g, p)' = Owned(g, p)
      /\ Owned(h, o)' = Owned(h, o) - 1
  BY <1>1, <1>3, GivenBack
<1>7. Moves(t)
  BY <1>4, <1>5, <1>6 DEF Moves
<1>8. \A p \in Objects : Pinned(p)' = Pinned(p)
  BY <1>1, <1>4, <1>5, <1>7, PinnedStays
<1>9. Owned(h, o) > 0
  BY <1>1, <1>3, OwnedIs
<1>10. count[h] = 1 /\ ~Hurry(h)
  BY <1>1, <1>3, NoneAssumption DEF Shared, TableInv, HandlesExact, TableTypes
<1>11. /\ TableTypes' /\ Counting' /\ Kept'
       /\ \A u \in Callers \ {t}, g \in Slots, p \in Objects :
            IsFirst(g, p) /\ u \in Openers(g, Opening) => IsFirst(g, p)'
       /\ \A p \in Objects : name'[p] \in {name[p], None}
  <2>1. call[t].at \notin Opening /\ call'[t].at \notin Opening
    BY <1>1, <1>5 DEF Opening
  <2>2. \A g \in Slots, p \in Objects : g # h \/ p # o => Owned(g, p)' = Owned(g, p)
    BY <1>6
  <2>3. \A p \in Objects : p # o => Pinned(p)' = Pinned(p)
    BY <1>8
  <2>4. Owned(h, o)' = Owned(h, o) - 1 /\ Pinned(o)' = Pinned(o) /\ Owned(h, o) > 0
    BY <1>6, <1>8, <1>9
  <2> QED BY <1>3, <1>4, <1>5, <1>7, <1>10, <2>1, <2>2, <2>3, <2>4, LastGoes
<1>12. CallTypes'
  BY <1>1, <1>4, <1>5, <1>6 DEF CallTypes, CallRecords
<1>13. Underway(t)' /\ Unknown(t)'
  BY <1>2, <1>5 DEF Underway, Unknown, AtRest
<1>14. \A p \in Objects : Knows(t, p)' => Knows(t, p)
  <2>1. \A g \in Slots, p \in Objects : owns'[t][g][p] > 0 => owns[t][g][p] > 0
    BY <1>3, <1>6
  <2> QED BY <1>4, <1>5, <2>1 DEF Knows
<1> QED BY <1>7, <1>11, <1>12, <1>13, <1>14, Assembled

LEMMA UnpinStep ==
  ASSUME TableInv, Careful, NEW t \in Callers, Unpin(t)
  PROVE  TableInv'
<1>1. /\ ObjectTypeOK /\ TableTypes /\ CallTypes /\ Underway(t) /\ call[t].at = "unpin"
  BY TypesSplit DEF TableInv, Unpin
<1>2. UNCHANGED <<capacity, lastFree>> /\ owns' = owns /\ pins' = pins /\ GoTo(t, "drop")
  BY DEF Unpin
<1>3. PICK o \in Objects : o = call[t].object
  BY <1>1 DEF CallTypes, Underway
<1>4. pins[t][o] \in Nat /\ Due(t, o) = pins[t][o] + 1
  BY <1>1, <1>3 DEF CallTypes, Due, One
<1>5. handles[o] # <<>> /\ Pinned(o) > 0
  <2>1. Due(t, o) > 0
    BY <1>4
  <2> QED BY <1>1, <2>1, Alive, PinnedIs
<1>6. PICK h \in Slots : h = Head(handles[o]) /\ object[h] = o /\ Primaries(o) = {h}
  BY <1>1, <1>5, FirstHandle DEF TableInv
<1>7. ~Hurry(h) /\ ReleaseHandle(h)
  BY <1>3, <1>6 DEF Unpin
<1>8. /\ call' \in [Callers -> CallRecords] /\ call'[t].at = "drop"
      /\ call'[t].object = call[t].object
      /\ \A u \in Callers \ {t} : call'[u] = call[u]
  BY <1>1, <1>2, GoToMoves DEF Places
<1>9. Moves(t)
  BY <1>2, <1>8 DEF Moves
<1>10. Pinned(o)' = Pinned(o) - 1 /\ \A p \in Objects : p # o => Pinned(p)' = Pinned(p)
  <2>1. pins' \in [Callers -> [Objects -> Nat]]
    BY <1>1, <1>2 DEF CallTypes
  <2>2. Due(t, o)' = Due(t, o) + (-1)
    BY <1>2, <1>4, <1>8 DEF Due, One
  <2>3. Pinned(o)' = Pinned(o) + (-1) /\ Pinned(o) \in Nat
    BY <1>1, <1>9, <2>1, <2>2, PinnedStep, PinnedIs
  <2>4. ASSUME NEW p \in Objects, p # o PROVE Pinned(p)' = Pinned(p)
    <3>1. pins[t][p] \in Nat
      BY <1>1 DEF CallTypes
    <3>2. Due(t, p)' = Due(t, p) + 0
      BY <1>2, <1>3, <1>8, <2>4, <3>1 DEF Due, One
    <3>3. Pinned(p)' = Pinned(p) + 0 /\ Pinned(p) \in Nat
      BY <1>1, <1>9, <2>1, <3>2, PinnedStep, PinnedIs
    <3> QED BY <3>3
  <2> QED BY <2>3, <2>4
<1>11. \A g \in Slots, p \in Objects : Owned(g, p)' = Owned(g, p)
  BY <1>2 DEF Owned, Total
<1>12. /\ TableTypes' /\ Counting' /\ Kept'
       /\ \A u \in Callers \ {t}, g \in Slots, p \in Objects :
            IsFirst(g, p) /\ u \in Openers(g, Opening) => IsFirst(g, p)'
       /\ \A p \in Objects : name'[p] \in {name[p], None}
  <2>1. call[t].at \notin Opening /\ call'[t].at \notin Opening
    BY <1>1, <1>8 DEF Opening
  <2>2. /\ \A g \in Slots, p \in Objects : g # h \/ p # o => Owned(g, p)' = Owned(g, p)
        /\ \A p \in Objects : p # o => Pinned(p)' = Pinned(p)
    BY <1>10, <1>11
  <2>3. /\ Owned(h, o)' = Owned(h, o) /\ Pinned(o)' = Pinned(o) - 1
        /\ h = Head(handles[o]) /\ Pinned(o) > 0
    BY <1>5, <1>6, <1>10, <1>11
  <2> QED BY <1>2, <1>6, <1>7, <1>8, <1>9, <2>1, <2>2, <2>3, OneGoes
<1>13. CallTypes'
  BY <1>1, <1>2, <1>8 DEF CallTypes, CallRecords
<1>14. Underway(t)' /\ Unknown(t)'
  BY <1>3, <1>8, NoneAssumption DEF Underway, Unknown
<1>15. \A p \in Objects : Knows(t, p)' => Knows(t, p)
  BY <1>2, <1>8 DEF Knows
<1> QED BY <1>9, <1>12, <1>13, <1>14, <1>15, Assembled

(* A thread that opens no object leaves those alone who do.                 *)
LEMMA KeptHeld ==
  ASSUME TableInv, NEW t \in Callers, Moves(t), count' \in [Slots -> Int],
         \A g \in Slots : count'[g] \in {count[g], count[g] + 1},
         call[t].at \notin Opening, call'[t].at \notin Opening
  PROVE  Kept'
<1>1. \A g \in Slots : /\ t \notin Openers(g, Opening)' /\ t \notin Openers(g, Giving)'
                       /\ t \notin Openers(g, Giving)
  BY DEF Openers, Opening, Giving
<1>2. \A g \in Slots : count[g] \in Int
  BY DEF TableInv, ObjectTypeOK
<1>3. \A g \in Slots :
        count'[g] >= count[g] + One(t \in Openers(g, Giving)') - One(t \in Openers(g, Giving))
  BY <1>1, <1>2 DEF One
<1> QED BY <1>1, <1>3, KeptMoves

LEMMA UseStep ==
  ASSUME TableInv, NEW t \in Callers, NEW h \in Slots, NEW then \in {"drop", "add", "pin"},
         Use(t, h, then)
  PROVE  TableInv'
<1>1. /\ ObjectTypeOK /\ TableTypes /\ CallTypes /\ Underway(t)
      /\ call[t].at = "idle" /\ call[t].object = None
  BY TypesSplit, AtRestIs DEF TableInv, Use
<1>2. UNCHANGED <<table, handles, name, stash, owns>> /\ pins' = pins
  BY DEF Use
<1>3. PICK o \in Objects : owns[t][h][o] > 0 /\ object[h] = o /\ o # None
  BY Alive, NoneAssumption DEF Use, Has
<1>4. /\ refs' = [refs EXCEPT ![o] = @ + 1]
      /\ call' = [call EXCEPT ![t] = [AtRest EXCEPT !.at = then, !.handle = h, !.object = o]]
  BY <1>3 DEF Use
<1>5. /\ call' \in [Callers -> CallRecords] /\ call'[t].at = then /\ call'[t].object = o
      /\ \A u \in Callers \ {t} : call'[u] = call[u]
  <2> DEFINE c == [AtRest EXCEPT !.at = then, !.handle = h, !.object = o]
  <2>1. c \in CallRecords /\ c.at = then /\ c.object = o
    BY DEF AtRest, CallRecords, Places
  <2>2. call \in [Callers -> CallRecords] /\ call' = [call EXCEPT ![t] = c]
    BY <1>1, <1>4 DEF CallTypes, CallRecords
  <2> HIDE DEF c
  <2> QED BY <2>1, <2>2
<1>6. Moves(t)
  BY <1>2, <1>5 DEF Moves
<1>7. \A p \in Objects : Pinned(p)' = Pinned(p)
  BY <1>1, <1>2, <1>5, <1>6, PinnedStays
<1>8. TableTypes' /\ Counting'
  BY <1>1, <1>2, <1>4, <1>5, <1>6, <1>7, Looked
<1>9. CallTypes'
  BY <1>1, <1>2, <1>5 DEF CallTypes, CallRecords
<1>10. Underway(t)' /\ Unknown(t)'
  BY <1>3, <1>5 DEF Underway, Unknown
<1>11. Kept'
  BY <1>1, <1>2, <1>5, <1>6, KeptHeld DEF table, TableTypes, Opening
<1>12. /\ \A g \in Slots, p \in Objects : IsFirst(g, p) => IsFirst(g, p)'
       /\ \A p \in Objects : (Knows(t, p)' => Knows(t, p)) /\ name'[p] = name[p]
  BY <1>2, <1>3, <1>5 DEF IsFirst, Knows, table
<1> QED BY <1>6, <1>8, <1>9, <1>10, <1>11, <1>12, Assembled

LEMMA ReferenceStep ==
  ASSUME TableInv, Careful, NEW t \in Callers, Reference(t)
  PROVE  TableInv'
<1>1. /\ ObjectTypeOK /\ TableTypes /\ CallTypes /\ Underway(t) /\ call[t].at = "pin"
  BY TypesSplit DEF TableInv, Reference
<1>2. /\ UNCHANGED <<capacity, lastFree, object, names, objects>> /\ owns' = owns
      /\ GoTo(t, "drop")
  BY DEF Reference
<1>3. PICK o \in Objects : o = call[t].object
  BY <1>1 DEF CallTypes, Underway
<1>4. Primaries(o) = {stash[o]} /\ pins' = [pins EXCEPT ![t][o] = @ + 1]
  BY <1>3 DEF Reference, Orphan
<1>5. handles[o] # <<>>
  <2>1. SUFFICES ASSUME handles[o] = <<>> PROVE FALSE
    OBVIOUS
  <2>2. 0 .. capacity - 1 = {stash[o]} /\ capacity \in Nat
    BY <1>1, <1>4, <2>1 DEF Primaries, TableTypes
  <2>3. capacity # 0 /\ capacity # 1
    BY <2>2 DEF TableInv, Listed
  <2>4. 0 \in 0 .. capacity - 1 /\ 1 \in 0 .. capacity - 1
    BY <2>2, <2>3
  <2> QED BY <2>2, <2>4
<1>6. PICK h \in Slots : h = Head(handles[o]) /\ object[h] = o /\ Primaries(o) = {h} /\ stash[o] = h
  BY <1>1, <1>4, <1>5, FirstHandle DEF TableInv
<1>7. RetainHandle(h) /\ count[h] > 0
  BY <1>3, <1>6, NoneAssumption DEF Reference, TableInv, HandlesExact
<1>8. /\ call' \in [Callers -> CallRecords] /\ call'[t].at = "drop"
      /\ call'[t].object = call[t].object
      /\ \A u \in Callers \ {t} : call'[u] = call[u]
  BY <1>1, <1>2, GoToMoves DEF Places
<1>9. /\ pins' \in [Callers -> [Objects -> Nat]] /\ pins'[t][o] = pins[t][o] + 1
      /\ \A p \in Objects : p # o => pins'[t][p] = pins[t][p]
      /\ \A u \in Callers \ {t} : pins'[u] = pins[u]
  <2>1. pins \in [Callers -> [Objects -> Nat]]
    BY <1>1 DEF CallTypes
  <2>2. pins[t][o] + 1 \in Nat
    BY <2>1
  <2> QED BY <1>4, <2>1, <2>2
<1>10. Moves(t)
  BY <1>2, <1>8, <1>9 DEF Moves
<1>11. Pinned(o)' = Pinned(o) + 1 /\ \A p \in Objects : p # o => Pinned(p)' = Pinned(p)
  <2>1. \A p \in Objects : pins[t][p] \in Nat
    BY <1>1 DEF CallTypes
  <2>2. Due(t, o)' = Due(t, o) + 1
    BY <1>1, <1>8, <1>9, <2>1 DEF Due, One
  <2>3. Pinned(o)' = Pinned(o) + 1
    BY <1>1, <1>9, <1>10, <2>2, PinnedStep
  <2>4. ASSUME NEW p \in Objects, p # o PROVE Pinned(p)' = Pinned(p)
    <3>1. Due(t, p)' = Due(t, p) + 0
      BY <1>1, <1>8, <1>9, <2>1, <2>4 DEF Due, One
    <3>2. Pinned(p)' = Pinned(p) + 0 /\ Pinned(p) \in Nat
      BY <1>1, <1>9, <1>10, <3>1, PinnedStep, PinnedIs
    <3> QED BY <3>2
  <2> QED BY <2>3, <2>4
<1>12. \A g \in Slots, p \in Objects : Owned(g, p)' = Owned(g, p)
  BY <1>2 DEF Owned, Total
<1>13. /\ count' \in [Slots -> Int] /\ count'[h] = count[h] + 1 /\ count'[h] > 0
       /\ count[h] \in Int /\ \A g \in Slots \ {h} : count'[g] = count[g]
  BY <1>1, <1>7 DEF TableTypes, RetainHandle
<1>14. TableTypes' /\ Counting'
  <2>1. /\ Owned(h, o)' = Owned(h, o) /\ Pinned(o)' = Pinned(o) + (count'[h] - count[h])
        /\ h = Head(handles[o]) /\ (count'[h] > count[h] => stash[o] = h)
    BY <1>6, <1>11, <1>12, <1>13
  <2>2. /\ \A g \in Slots, p \in Objects : g # h \/ p # o => Owned(g, p)' = Owned(g, p)
        /\ \A p \in Objects : p # o => Pinned(p)' = Pinned(p)
    BY <1>11, <1>12
  <2> QED BY <1>2, <1>6, <1>8, <1>10, <1>13, <2>1, <2>2, Recount
<1>15. CallTypes'
  BY <1>1, <1>2, <1>8, <1>9 DEF CallTypes, CallRecords
<1>16. Underway(t)' /\ Unknown(t)'
  BY <1>3, <1>8, NoneAssumption DEF Underway, Unknown
<1>17. Kept'
  <2>1. \A g \in Slots : count'[g] \in {count[g], count[g] + 1}
    BY <1>13
  <2> QED BY <1>1, <1>8, <1>10, <1>13, <2>1, KeptHeld DEF Opening
<1>18. /\ \A g \in Slots, p \in Objects : IsFirst(g, p) => IsFirst(g, p)'
       /\ \A p \in Objects : (Knows(t, p)' => Knows(t, p)) /\ name'[p] = name[p]
  BY <1>2, <1>3, <1>8, <1>9 DEF IsFirst, Knows, objects
<1> QED BY <1>10, <1>14, <1>15, <1>16, <1>17, <1>18, Assembled

(* The pointer is due until the call has let go of it.                      *)
LEMMA DereferenceStep ==
  ASSUME TableInv, NEW t \in Callers, NEW o \in Objects, Dereference(t, o)
  PROVE  TableInv'
<1>1. /\ ObjectTypeOK /\ TableTypes /\ CallTypes /\ Underway(t)
      /\ call[t].at = "idle" /\ call[t].object = None
  BY TypesSplit, AtRestIs DEF TableInv, Dereference
<1>2. /\ UNCHANGED <<table, handles, name, stash, owns>>
      /\ pins[t][o] > 0 /\ pins' = [pins EXCEPT ![t][o] = @ - 1]
  BY DEF Dereference
<1>3. object[stash[o]] = o /\ o # None
  <2>1. pins[t][o] \in Nat
    BY <1>1 DEF CallTypes
  <2>2. Due(t, o) > 0
    BY <1>2, <2>1 DEF Due, One
  <2>3. Pinned(o) > 0
    BY <1>1, <2>2, PinnedIs
  <2> QED BY <1>1, <2>3, FirstHandle, NoneAssumption DEF TableInv, Stashed
<1>4. Hold(t, "unpin", o) /\ refs' = [refs EXCEPT ![o] = @ + 1]
  BY <1>3 DEF Dereference, LookupObject
<1>5. /\ call' \in [Callers -> CallRecords] /\ call'[t].at = "unpin" /\ call'[t].object = o
      /\ \A u \in Callers \ {t} : call'[u] = call[u]
  BY <1>1, <1>4, HoldMoves DEF Places
<1>6. /\ pins' \in [Callers -> [Objects -> Nat]] /\ pins'[t][o] = pins[t][o] - 1
      /\ \A p \in Objects : p # o => pins'[t][p] = pins[t][p]
      /\ \A u \in Callers \ {t} : pins'[u] = pins[u]
  <2>1. pins \in [Callers -> [Objects -> Nat]]
    BY <1>1 DEF CallTypes
  <2>2. pins[t][o] - 1 \in Nat
    BY <1>2, <2>1
  <2> QED BY <1>2, <2>1, <2>2
<1>7. Moves(t)
  BY <1>2, <1>5, <1>6 DEF Moves
<1>8. \A p \in Objects : Pinned(p)' = Pinned(p)
  <2> SUFFICES ASSUME NEW p \in Objects PROVE Pinned(p)' = Pinned(p)
    OBVIOUS
  <2>1. pins[t][p] \in Nat /\ pins[t][o] \in Nat
    BY <1>1 DEF CallTypes
  <2>2. Due(t, p)' = Due(t, p) + 0
    BY <1>1, <1>5, <1>6, <2>1 DEF Due, One
  <2>3. Pinned(p)' = Pinned(p) + 0 /\ Pinned(p) \in Nat
    BY <1>1, <1>6, <1>7, <2>2, PinnedStep, PinnedIs
  <2> QED BY <2>3
<1>9. TableTypes' /\ Counting'
  BY <1>1, <1>2, <1>4, <1>5, <1>7, <1>8, Looked
<1>10. CallTypes'
  BY <1>1, <1>2, <1>5, <1>6 DEF CallTypes, CallRecords
<1>11. Underway(t)' /\ Unknown(t)'
  BY <1>3, <1>5 DEF Underway, Unknown
<1>12. Kept'
  BY <1>1, <1>2, <1>5, <1>7, KeptHeld DEF table, TableTypes, Opening
<1>13. \A g \in Slots, p \in Objects : IsFirst(g, p) => IsFirst(g, p)'
  BY <1>2 DEF IsFirst, table
<1>14. \A p \in Objects : (Knows(t, p)' => Knows(t, p)) /\ name'[p] = name[p]
  BY <1>2, <1>5, <1>6 DEF Knows
<1> QED BY <1>7, <1>9, <1>10, <1>11, <1>12, <1>13, <1>14, Assembled

LEMMA DropStep ==
  ASSUME TableInv, NEW t \in Callers, Drop(t)
  PROVE  TableInv'
<1>1. /\ ObjectTypeOK /\ TableTypes /\ CallTypes /\ Underway(t)
      /\ call[t].at \in {"drop", "release"} /\ call[t].handle \in Slots
  BY TypesSplit DEF TableInv, Drop, CallTypes
<1>2. UNCHANGED <<table, handles, owns>> /\ pins' = pins
  BY DEF Drop
<1>3. PICK o \in Objects : o = call[t].object /\ Release(o)
  BY <1>1 DEF CallTypes, Underway, Drop
<1>4. /\ call' \in [Callers -> CallRecords] /\ call'[t].object = None
      /\ \/ call'[t] = AtRest /\ call'[t].at = "idle"
         \/ call'[t].at = "close"
      /\ \A u \in Callers \ {t} : call'[u] = call[u]
  <2> DEFINE c == IF call[t].at = "drop" THEN AtRest
                  ELSE [AtRest EXCEPT !.at = "close", !.handle = call[t].handle]
  <2>1. c \in CallRecords /\ c.object = None /\ ((c = AtRest /\ c.at = "idle") \/ c.at = "close")
    BY <1>1, AtRestIs DEF AtRest, CallRecords, Places
  <2>2. call \in [Callers -> CallRecords] /\ call' = [call EXCEPT ![t] = c]
    BY <1>1 DEF Drop, CallTypes, CallRecords
  <2> HIDE DEF c
  <2> QED BY <2>1, <2>2
<1>5. call'[t].at \in {"idle", "close"} /\ call'[t].object = None
  BY <1>4
<1>6. Moves(t)
  BY <1>2, <1>4 DEF Moves
<1>7. \A p \in Objects : Pinned(p)' = Pinned(p)
  BY <1>1, <1>2, <1>5, <1>6, PinnedStays
<1>8. TableTypes' /\ Counting' /\ \A p \in Objects : name'[p] \in {name[p], None}
  BY <1>2, <1>3, <1>5, <1>6, <1>7, Dropped
<1>9. CallTypes'
  BY <1>1, <1>2, <1>4 DEF CallTypes, CallRecords
<1>10. Underway(t)' /\ Unknown(t)'
  BY <1>4, <1>5 DEF Underway, Unknown, AtRest
<1>11. Kept'
  BY <1>1, <1>2, <1>5, <1>6, KeptHeld DEF table, TableTypes, Opening
<1>12. \A g \in Slots, p \in Objects : IsFirst(g, p) => IsFirst(g, p)'
  BY <1>2 DEF IsFirst, table
<1>13. \A p \in Objects : Knows(t, p)' => Knows(t, p)
  BY <1>2, <1>5, NoneAssumption DEF Knows
<1> QED BY <1>6, <1>8, <1>9, <1>10, <1>11, <1>12, <1>13, Assembled

LEMMA TableStart == ObjectInit => TableInv
<1> SUFFICES ASSUME ObjectInit PROVE TableInv
  OBVIOUS
<1> USE DEF ObjectInit
<1>1. ObjectTypeOK
  <2>1. 0 \in Slots /\ MaxCapacity \in Nat
    BY CapacityAssumption DEF Slots
  <2>2. call \in [Callers -> CallRecords]
    BY AtRestIs
  <2>3. <<>> \in Seq(Slots)
    OBVIOUS
  <2> QED BY <2>1, <2>2, <2>3 DEF ObjectTypeOK, CallRecords, Places
<1>2. \A t \in Callers : call[t].at = "idle" /\ call[t].object = None
  BY AtRestIs
<1>3. None \notin Objects
  BY NoneAssumption
<1>4. PointersExact
  <2> SUFFICES ASSUME NEW o \in Objects
               PROVE  refs[o] = Cardinality(HandlesOf(o)) + Cardinality(CallsOf(o))
    BY DEF PointersExact, HandlesOf, CallsOf
  <2>1. HandlesOf(o) = {} /\ CallsOf(o) = {}
    BY <1>2, <1>3 DEF HandlesOf, CallsOf
  <2>2. Cardinality(HandlesOf(o)) = 0 /\ Cardinality(CallsOf(o)) = 0
    BY <2>1, FS_EmptySet
  <2> QED BY <2>2
<1>5. HandlesExact
  <2> SUFFICES ASSUME NEW h \in Slots, NEW o \in Objects PROVE object[h] # o /\ Owned(h, o) = 0
    BY DEF HandlesExact
  <2>1. \A t \in Callers : owns[t][h][o] = 0
    OBVIOUS
  <2>2. Owned(h, o) \in Nat /\ ~(Owned(h, o) > 0)
    BY <1>1, <2>1, OwnedIs
  <2> QED BY <1>3, <2>2
<1>6. NamesResolve /\ Nameless
  BY DEF NamesResolve, Nameless
<1>7. Listed
  <2>1. ASSUME NEW o \in Objects
        PROVE  /\ IsInjective(handles[o])
               /\ \A h \in Slots : object[h] = o <=> Contains(handles[o], h)
    BY <1>3 DEF IsInjective, Contains
  <2> QED BY <2>1 DEF Listed
<1>8. Kept
  BY <1>2 DEF Kept, Openers, Opening
<1>9. Stashed
  <2> SUFFICES ASSUME NEW o \in Objects PROVE ~(Pinned(o) > 0)
    BY DEF Stashed
  <2>1. \A t \in Callers : Due(t, o) = 0
    BY <1>2 DEF Due, One
  <2> QED BY <1>1, <2>1, PinnedIs
<1>10. \A t \in Callers : Underway(t) /\ Unknown(t)
  BY <1>2 DEF Underway, Unknown
<1> QED BY <1>1, <1>4, <1>5, <1>6, <1>7, <1>8, <1>9, <1>10 DEF TableInv

LEMMA TableStep ==
  ASSUME Careful
  PROVE  TableInv /\ [ObjectNext]_objectVars => TableInv'
<1> SUFFICES ASSUME TableInv, [ObjectNext]_objectVars PROVE TableInv'
  OBVIOUS
<1>1. ASSUME NEW t \in Callers, NEW n \in Names, NEW keep \in BOOLEAN,
             GetObjectByName(t, n, keep)
      PROVE  TableInv'
  BY <1>1, NamedStep
<1>2. ASSUME NEW t \in Callers,
             \/ FindNamed(t) \/ UnretainNamed(t) \/ RetainNamed(t) \/ Create(t)
             \/ CreateFails(t) \/ SetAttributes(t) \/ Duplicate(t) \/ CloseSource(t) \/ Reference(t)
             \/ Unpin(t) \/ Drop(t)
      PROVE  TableInv'
  BY <1>2, FoundStep, UnretainStep, RetainStep, RefuseStep, CreateStep, FailStep, NamingStep, DuplicateStep,
     SourceStep, ReferenceStep, UnpinStep, DropStep
<1>3. ASSUME NEW t \in Callers, NEW h \in Slots, Close(t, h) PROVE TableInv'
  BY <1>3, CloseStep
<1>4. ASSUME NEW t \in Callers, NEW h \in Slots, NEW then \in {"drop", "add", "pin"},
             Use(t, h, then)
      PROVE  TableInv'
  BY <1>4, UseStep
<1>5. ASSUME NEW t \in Callers, NEW o \in Objects, Dereference(t, o) PROVE TableInv'
  BY <1>5, DereferenceStep
<1>6. CASE UNCHANGED objectVars
  <2> USE <1>6 DEF objectVars, table, objects
  <2>0. /\ \A h, o : Owned(h, o)' = Owned(h, o)
        /\ \A o : Pinned(o)' = Pinned(o)
    BY DEF Owned, Pinned, Total
  <2>1. ObjectTypeOK' /\ PointersExact' /\ HandlesExact' /\ NamesResolve'
    <3>1. ObjectTypeOK' /\ NamesResolve'
      BY DEF TableInv, ObjectTypeOK, NamesResolve
    <3>2. PointersExact'
      BY DEF TableInv, PointersExact
    <3>3. HandlesExact'
      BY <2>0 DEF TableInv, HandlesExact
    <3> QED BY <3>1, <3>2, <3>3
  <2>2. Listed' /\ Kept' /\ Stashed' /\ Nameless'
    BY DEF TableInv, Listed, Kept, Openers, Stashed, Nameless, Pinned, Total
  <2>3. \A t \in Callers : Underway(t)' /\ Unknown(t)'
    BY DEF TableInv, Underway, Unknown, IsFirst, Knows
  <2> QED BY <2>1, <2>2, <2>3 DEF TableInv
<1> QED BY <1>1, <1>2, <1>3, <1>4, <1>5, <1>6 DEF ObjectNext

LEMMA Tabled ==
  ASSUME Careful
  PROVE  ObjectSpec => []TableInv
BY TableStart, TableStep, PTL DEF ObjectSpec

(* Nothing is deleted too early or kept too long, and no handle is lost,    *)
(* as long as the guest is careful.                                         *)
THEOREM Counted ==
  ASSUME Careful
  PROVE  ObjectSpec => []CountsExact
<1>1. TableInv => CountsExact
  BY DEF TableInv, CountsExact
<1> QED BY <1>1, Tabled, PTL

(* A name in the table leads to an open handle of the object that has it.   *)
THEOREM Resolved ==
  ASSUME Careful
  PROVE  ObjectSpec => []NamesResolve
<1>1. TableInv => NamesResolve
  BY DEF TableInv
<1> QED BY <1>1, Tabled, PTL

------------------------------------------------------------------------------
(* The table of functions.                                                  *)

Ats == {"idle", "enter", "wait", "lookup", "declared", "demand", "defining",
        "translate", "callee", "publish", "fail", "read", "done"}
Calls == [at : Ats, f : Addresses \cup {"none"}, todo : SUBSET Addresses,
          g : Addresses \cup {"none"}, answer : Addresses \cup {"none", "null"}]

\* A thread that is called upon knows the function, and what it declares.
Named ==
  \A t \in Threads : /\ thread[t].at # "idle" => F(t) \in Addresses
                     /\ thread[t].at = "callee" => thread[t].g \in Addresses

Declares(t, f) == \/ thread[t].at = "declared" /\ F(t) = f
                  \/ thread[t].at = "callee" /\ thread[t].g = f
Translates(t, f) == thread[t].at \in {"translate", "callee"} /\ F(t) = f

OneWorker ==
  \A f \in Addresses :
    /\ \A t \in Threads :
         Declares(t, f) \/ Translates(t, f) =>
           /\ symbol[f] = "defining" /\ translated[f] = 0
           /\ \A u \in Threads \ {t} : ~Declares(u, f) /\ ~Translates(u, f)
           /\ ~(Declares(t, f) /\ Translates(t, f))
    /\ translated[f] # 0 => translated[f] = 1 /\ symbol[f] \in {"defined", "failed"}

Filling == {"lookup", "declared", "demand", "defining", "translate", "callee",
            "publish", "fail"}

Fills(t, f) == F(t) = f /\ thread[t].at \in Filling

Filled(f) ==
  /\ entry[f] = "none" => f \notin stored
  /\ entry[f] = "ready" => f \in stored
  /\ \A t \in Threads :
       /\ Fills(t, f) =>
            /\ entry[f] = "compiling" \/ (entry[f] = "ready" /\ thread[t].at = "publish")
            /\ \A u \in Threads \ {t} : ~Fills(u, f)
       /\ F(t) = f /\ thread[t].at = "wait" => entry[f] # "none"
       /\ F(t) = f /\ thread[t].at \in {"read", "done"} => entry[f] \in {"ready", "failed"}
       /\ F(t) = f /\ thread[t].at = "done" =>
            thread[t].answer = IF entry[f] = "ready" THEN f ELSE "null"

OneFiller == \A f \in Addresses : Filled(f)

(* The states are well-typed from the start on.                            *)
LEMMA TypeInit == Init => TypeOK /\ Named
  BY DEF Init, TypeOK, Named, Idle, F

EntryTypes ==
  /\ entry \in [Addresses -> {"none", "compiling", "ready", "failed"}]
  /\ symbol \in [Addresses -> {"none", "defining", "declared", "defined", "failed"}]
  /\ stored \subseteq Addresses /\ code \subseteq Addresses
  /\ translated \in [Addresses -> Nat]

LEMMA TypesApart == TypeOK <=> EntryTypes /\ thread \in [Threads -> Calls]
  BY DEF TypeOK, EntryTypes, Calls, Ats

LEMMA TypesAgain == EntryTypes' /\ thread' \in [Threads -> Calls] => TypeOK'
  BY DEF TypeOK, EntryTypes, Calls, Ats

(* A thread goes on to another place of its call.                          *)
LEMMA GotoTypes ==
  ASSUME thread \in [Threads -> Calls], Named, NEW t \in Threads, thread[t].at # "idle",
         NEW at \in Ats \ {"callee"}, thread' = [thread EXCEPT ![t].at = at]
  PROVE  thread' \in [Threads -> Calls] /\ Named'
<1>1. [thread[t] EXCEPT !.at = at] \in Calls
  BY DEF Calls
<1>2. thread' = [thread EXCEPT ![t] = [thread[t] EXCEPT !.at = at]]
  OBVIOUS
<1>3. thread' \in [Threads -> Calls]
  BY <1>1, <1>2
<1>4. \A u \in Threads : thread'[u].f = thread[u].f /\ thread'[u].g = thread[u].g
                         /\ (thread'[u].at = thread[u].at \/ (u = t /\ thread'[u].at = at))
  BY DEF Calls
<1>. QED  BY <1>3, <1>4 DEF Named, F

(* A thread gets another record.                                           *)
LEMMA RecordTypes ==
  ASSUME thread \in [Threads -> Calls], Named, NEW t \in Threads, NEW r \in Calls,
         r.f \in Addresses, r.at = "callee" => r.g \in Addresses,
         thread' = [thread EXCEPT ![t] = r]
  PROVE  thread' \in [Threads -> Calls] /\ Named'
<1>1. \A u \in Threads : thread'[u] = IF u = t THEN r ELSE thread[u]
  OBVIOUS
<1>. QED  BY <1>1 DEF Named, F

(* Every step keeps the types, and every thread knows its function.        *)
LEMMA TypeStep ==
  ASSUME TypeOK, Named, [Next]_vars
  PROVE  TypeOK' /\ Named'
<1>. DEFINE Typed == thread \in [Threads -> Calls]
<1>0. EntryTypes /\ Typed
  BY TypesApart
<1>. SUFFICES EntryTypes' /\ Typed' /\ Named'
  BY TypesAgain
<1>. USE <1>0
<1>00. ASSUME NEW t \in Threads, thread[t].at # "idle"
       PROVE  F(t) \in Addresses
  BY <1>00 DEF Named
<1>1. CASE UNCHANGED vars
  BY <1>1 DEF vars, EntryTypes, Named, F
<1>2. ASSUME NEW t \in Threads, NEW f \in Addresses, Call(t, f)
      PROVE  EntryTypes' /\ Typed' /\ Named'
  <2>1. [Idle EXCEPT !.at = "enter", !.f = f] \in Calls
        /\ [Idle EXCEPT !.at = "enter", !.f = f].f \in Addresses
        /\ [Idle EXCEPT !.at = "enter", !.f = f].at # "callee"
    BY DEF Idle, Calls, Ats
  <2>2. Typed' /\ Named'
    BY <1>2, <2>1, RecordTypes DEF Call
  <2>. QED  BY <1>2, <2>2 DEF Call, EntryTypes
<1>3. ASSUME NEW t \in Threads, GetOrCreate(t)
      PROVE  EntryTypes' /\ Typed' /\ Named'
  <2>1. PICK at \in {"lookup", "wait", "read"} : thread' = [thread EXCEPT ![t].at = at]
    BY <1>3 DEF GetOrCreate, Goto
  <2>2. Typed' /\ Named'
    BY <1>3, <2>1, GotoTypes DEF GetOrCreate, At, Ats
  <2>3. entry' = [entry EXCEPT ![F(t)] = "compiling"] \/ UNCHANGED entry
    BY <1>3 DEF GetOrCreate
  <2>. QED  BY <1>3, <2>2, <2>3 DEF GetOrCreate, EntryTypes
<1>4. ASSUME NEW t \in Threads, Wait(t) \/ Published(t)
      PROVE  EntryTypes' /\ Typed' /\ Named'
  <2>1. Typed' /\ Named'
    BY <1>4, GotoTypes DEF Wait, Published, At, Goto, Ats
  <2>. QED  BY <1>4, <2>1 DEF Wait, Published, EntryTypes
<1>5. ASSUME NEW t \in Threads, Read(t)
      PROVE  EntryTypes' /\ Typed' /\ Named'
  <2>1. thread[t].at = "read" /\ F(t) \in Addresses /\ thread[t] \in Calls
    BY <1>5, <1>00 DEF Read, At
  <2>2. PICK a \in {F(t), "null"} :
          thread' = [thread EXCEPT ![t].at = "done", ![t].answer = a]
    BY <1>5 DEF Read
  <2>3. [thread[t] EXCEPT !.at = "done", !.answer = a] \in Calls
        /\ [thread[t] EXCEPT !.at = "done", !.answer = a].f = F(t)
        /\ [thread[t] EXCEPT !.at = "done", !.answer = a].at = "done"
    BY <2>1 DEF Calls, Ats, F
  <2>4. thread' = [thread EXCEPT ![t] = [thread[t] EXCEPT !.at = "done", !.answer = a]]
    BY <2>2
  <2>5. Typed' /\ Named'
    BY <2>1, <2>3, <2>4, RecordTypes
  <2>. QED  BY <1>5, <2>5 DEF Read, EntryTypes
<1>6. ASSUME NEW t \in Threads, StoreFunction(t) \/ StoreReady(t)
      PROVE  EntryTypes' /\ Typed' /\ Named'
  <2>1. F(t) \in Addresses
    BY <1>6, <1>00 DEF StoreFunction, StoreReady, At
  <2>. QED  BY <1>6, <2>1 DEF StoreFunction, StoreReady, EntryTypes, Named, F
<1>7. ASSUME NEW t \in Threads, Fail(t)
      PROVE  EntryTypes' /\ Typed' /\ Named'
  <2>1. Typed' /\ Named'
    BY <1>7, GotoTypes DEF Fail, At, Goto, Ats
  <2>. QED  BY <1>7, <2>1 DEF Fail, EntryTypes
<1>8. ASSUME NEW t \in Threads, LookupFunction(t)
      PROVE  EntryTypes' /\ Typed' /\ Named'
  <2>1. PICK at \in {"fail", "declared", "demand"} : thread' = [thread EXCEPT ![t].at = at]
    BY <1>8 DEF LookupFunction, Lookup, Goto
  <2>2. Typed' /\ Named'
    BY <1>8, <2>1, GotoTypes DEF LookupFunction, At, Ats
  <2>3. symbol' = [symbol EXCEPT ![F(t)] = "defining"] \/ UNCHANGED symbol
    BY <1>8 DEF LookupFunction, Lookup
  <2>. QED  BY <1>8, <2>2, <2>3 DEF LookupFunction, EntryTypes
<1>9. ASSUME NEW t \in Threads, SetDeclared(t)
      PROVE  EntryTypes' /\ Typed' /\ Named'
  <2>1. Typed' /\ Named'
    BY <1>9, GotoTypes DEF SetDeclared, At, Goto, Ats
  <2>. QED  BY <1>9, <2>1 DEF SetDeclared, EntryTypes
<1>10. ASSUME NEW t \in Threads, DefineSymbol(t)
       PROVE  EntryTypes' /\ Typed' /\ Named'
  <2>1. thread[t].at = "demand" /\ F(t) \in Addresses /\ thread[t] \in Calls
    BY <1>10, <1>00 DEF DefineSymbol, At
  <2>2. CASE symbol[F(t)] = "declared"
    <3>1. thread' = [thread EXCEPT ![t].at = "translate", ![t].todo = Branches[F(t)]]
      BY <1>10, <2>2 DEF DefineSymbol
    <3>2. [thread[t] EXCEPT !.at = "translate", !.todo = Branches[F(t)]] \in Calls
          /\ [thread[t] EXCEPT !.at = "translate", !.todo = Branches[F(t)]].f = F(t)
          /\ [thread[t] EXCEPT !.at = "translate", !.todo = Branches[F(t)]].at = "translate"
      BY <2>1, BranchesAssumption DEF Calls, Ats, F
    <3>3. thread' = [thread EXCEPT ![t] =
                       [thread[t] EXCEPT !.at = "translate", !.todo = Branches[F(t)]]]
      BY <3>1
    <3>4. Typed' /\ Named'
      BY <2>1, <3>2, <3>3, RecordTypes
    <3>. QED  BY <1>10, <2>2, <3>4 DEF DefineSymbol, EntryTypes
  <2>3. CASE symbol[F(t)] # "declared"
    <3>1. PICK at \in {"defining", "fail", "publish"} : thread' = [thread EXCEPT ![t].at = at]
      BY <1>10, <2>3 DEF DefineSymbol, Goto
    <3>2. Typed' /\ Named'
      BY <2>1, <3>1, GotoTypes DEF Ats
    <3>. QED  BY <1>10, <2>3, <3>2 DEF DefineSymbol, EntryTypes
  <2>. QED  BY <2>2, <2>3
<1>11. ASSUME NEW t \in Threads, WaitDefined(t)
       PROVE  EntryTypes' /\ Typed' /\ Named'
  <2>1. PICK at \in {"fail", "publish"} : thread' = [thread EXCEPT ![t].at = at]
    BY <1>11 DEF WaitDefined, Goto
  <2>2. Typed' /\ Named'
    BY <1>11, <2>1, GotoTypes DEF WaitDefined, At, Ats
  <2>. QED  BY <1>11, <2>2 DEF WaitDefined, EntryTypes
<1>12. ASSUME NEW t \in Threads, NEW g \in Addresses, LookupCallee(t, g)
       PROVE  EntryTypes' /\ Typed' /\ Named'
  <2>1. /\ thread[t].at = "translate" /\ F(t) \in Addresses /\ thread[t] \in Calls
        /\ thread[t].todo \ {g} \in SUBSET Addresses
    BY <1>12, <1>00 DEF LookupCallee, At, Calls
  <2>2. CASE g \notin Unmapped /\ symbol[g] = "none"
    <3>1. thread' = [thread EXCEPT ![t].todo = @ \ {g}, ![t].at = "callee", ![t].g = g]
      BY <1>12, <2>2, Zenon DEF LookupCallee
    <3>2. [thread[t] EXCEPT !.todo = @ \ {g}, !.at = "callee", !.g = g] \in Calls
          /\ [thread[t] EXCEPT !.todo = @ \ {g}, !.at = "callee", !.g = g].f = F(t)
          /\ [thread[t] EXCEPT !.todo = @ \ {g}, !.at = "callee", !.g = g].g = g
      BY <2>1 DEF Calls, Ats, F
    <3>3. thread' = [thread EXCEPT ![t] =
                       [thread[t] EXCEPT !.todo = @ \ {g}, !.at = "callee", !.g = g]]
      BY <3>1
    <3>4. Typed' /\ Named'
      BY <2>1, <3>2, <3>3, RecordTypes
    <3>. QED  BY <1>12, <2>2, <3>4 DEF LookupCallee, EntryTypes
  <2>3. CASE ~(g \notin Unmapped /\ symbol[g] = "none")
    <3>1. thread' = [thread EXCEPT ![t].todo = @ \ {g}, ![t].at = @, ![t].g = "none"]
      BY <1>12, <2>3, Zenon DEF LookupCallee
    <3>2. [thread[t] EXCEPT !.todo = @ \ {g}, !.g = "none"] \in Calls
          /\ [thread[t] EXCEPT !.todo = @ \ {g}, !.g = "none"].f = F(t)
          /\ [thread[t] EXCEPT !.todo = @ \ {g}, !.g = "none"].at = "translate"
      BY <2>1 DEF Calls, Ats, F
    <3>3. thread' = [thread EXCEPT ![t] = [thread[t] EXCEPT !.todo = @ \ {g}, !.g = "none"]]
      BY <2>1, <3>1 DEF Calls
    <3>4. Typed' /\ Named'
      BY <2>1, <3>2, <3>3, RecordTypes
    <3>. QED  BY <1>12, <2>3, <3>4 DEF LookupCallee, EntryTypes
  <2>. QED  BY <2>2, <2>3
<1>13. ASSUME NEW t \in Threads, SetCalleeDeclared(t)
       PROVE  EntryTypes' /\ Typed' /\ Named'
  <2>1. /\ thread[t].at = "callee" /\ F(t) \in Addresses /\ thread[t].g \in Addresses
        /\ thread[t] \in Calls
    BY <1>13, <1>00 DEF SetCalleeDeclared, At, Named
  <2>2. thread' = [thread EXCEPT ![t].at = "translate", ![t].g = "none"]
    BY <1>13 DEF SetCalleeDeclared
  <2>3. [thread[t] EXCEPT !.at = "translate", !.g = "none"] \in Calls
        /\ [thread[t] EXCEPT !.at = "translate", !.g = "none"].f = F(t)
        /\ [thread[t] EXCEPT !.at = "translate", !.g = "none"].at = "translate"
    BY <2>1 DEF Calls, Ats, F
  <2>4. thread' = [thread EXCEPT ![t] = [thread[t] EXCEPT !.at = "translate", !.g = "none"]]
    BY <2>2
  <2>5. Typed' /\ Named'
    BY <2>1, <2>3, <2>4, RecordTypes
  <2>. QED  BY <1>13, <2>1, <2>5 DEF SetCalleeDeclared, EntryTypes
<1>14. ASSUME NEW t \in Threads, Translate(t)
       PROVE  EntryTypes' /\ Typed' /\ Named'
  <2>1. thread[t].at = "translate" /\ F(t) \in Addresses
    BY <1>14, <1>00 DEF Translate, At
  <2>2. PICK at \in {"fail", "publish"} : thread' = [thread EXCEPT ![t].at = at]
    BY <1>14 DEF Translate, Goto
  <2>3. Typed' /\ Named'
    BY <2>1, <2>2, GotoTypes DEF Ats
  <2>4. /\ UNCHANGED <<entry, stored>>
        /\ translated' = [translated EXCEPT ![F(t)] = translated[F(t)] + 1]
        /\ \/ symbol' = [symbol EXCEPT ![F(t)] = "failed"] /\ UNCHANGED code
           \/ symbol' = [symbol EXCEPT ![F(t)] = "defined"] /\ code' = code \cup {F(t)}
    BY <1>14 DEF Translate
  <2>5. EntryTypes'
    BY <2>1, <2>4 DEF EntryTypes
  <2>. QED  BY <2>3, <2>5
<1>. QED
  BY <1>1, <1>2, <1>3, <1>4, <1>5, <1>6, <1>7, <1>8, <1>9, <1>10, <1>11, <1>12, <1>13, <1>14
  DEF Next, Step

(* What a step of a thread does to it and to the others.                   *)
LEMMA Goes ==
  ASSUME thread \in [Threads -> Calls], NEW t \in Threads, NEW at,
         thread' = [thread EXCEPT ![t].at = at]
  PROVE  /\ \A u \in Threads \ {t} : thread'[u] = thread[u]
         /\ thread'[t].at = at /\ thread'[t].f = thread[t].f /\ thread'[t].g = thread[t].g
         /\ thread'[t].answer = thread[t].answer
<1>. QED  BY DEF Calls

Others(t) == \A u \in Threads \ {t} : thread'[u] = thread[u]

\* Thread t is and stays where it has nothing to do with a symbol.
Aside(t) ==
  /\ Others(t) /\ UNCHANGED <<symbol, translated>>
  /\ thread[t].at \notin {"declared", "callee", "translate"}
  /\ thread'[t].at \notin {"declared", "callee", "translate"}

\* Thread t takes function f up; its status becomes "defining".
TakesUp(t, f) ==
  /\ Others(t) /\ UNCHANGED translated /\ f \in Addresses
  /\ symbol[f] \in {"none", "declared"} /\ symbol'[f] = "defining"
  /\ \A g \in Addresses \ {f} : symbol'[g] = symbol[g]
  /\ \A g \in Addresses : /\ Declares(t, g)' \/ Translates(t, g)' <=>
                               g = f \/ Declares(t, g) \/ Translates(t, g)
                          /\ Declares(t, g)' /\ Translates(t, g)' =>
                               Declares(t, g) /\ Translates(t, g)

\* Thread t is through with function f.
SetsDown(t, f) ==
  /\ Others(t) /\ f \in Addresses
  /\ \A g \in Addresses \ {f} : symbol'[g] = symbol[g] /\ translated'[g] = translated[g]
  /\ \/ Declares(t, f) /\ symbol'[f] = "declared" /\ translated'[f] = translated[f]
     \/ /\ Translates(t, f) /\ symbol'[f] \in {"defined", "failed"}
        /\ translated'[f] = translated[f] + 1
  /\ \A g \in Addresses : /\ Declares(t, g)' \/ Translates(t, g)' =>
                               g # f /\ (Declares(t, g) \/ Translates(t, g))
                          /\ g # f /\ (Declares(t, g) \/ Translates(t, g)) =>
                               Declares(t, g)' \/ Translates(t, g)'
                          /\ Declares(t, g)' /\ Translates(t, g)' =>
                               Declares(t, g) /\ Translates(t, g)

\* Thread t finds that a callee is known, or somebody else's.
PassesOver(t) ==
  /\ Others(t) /\ UNCHANGED <<symbol, translated>>
  /\ thread[t].at = "translate" /\ thread'[t].at = "translate" /\ thread'[t].f = thread[t].f

Worked(t) == \/ Aside(t) \/ PassesOver(t)
             \/ \E f \in Addresses : TakesUp(t, f) \/ SetsDown(t, f)

(* That is all that steps do to symbols.                                   *)
LEMMA SymbolSteps ==
  ASSUME TypeOK, Named, OneWorker, NEW t \in Threads,
         Step(t) \/ \E f \in Addresses : Call(t, f)
  PROVE  Worked(t)
<1>. DEFINE Free(at) == at \notin {"declared", "callee", "translate"}
<1>1. EntryTypes /\ thread \in [Threads -> Calls] /\ thread[t] \in Calls
      /\ (thread[t].at # "idle" => F(t) \in Addresses)
  BY TypesApart DEF Named
<1>2. ASSUME NEW at, thread' = [thread EXCEPT ![t].at = at]
      PROVE  /\ Others(t) /\ thread'[t].at = at /\ F(t)' = F(t)
             /\ thread'[t].g = thread[t].g
  BY <1>1, <1>2, Goes DEF Others, F
<1>3. ASSUME NEW f \in Addresses, Call(t, f)
      PROVE  Aside(t)
  <2>1. Others(t) /\ thread'[t].at = "enter"
    BY <1>1, <1>3 DEF Call, Idle, Others
  <2>. QED  BY <1>3, <2>1 DEF Call, At, Aside
<1>4. CASE GetOrCreate(t)
  <2>1. PICK at \in {"lookup", "wait", "read"} : thread' = [thread EXCEPT ![t].at = at]
    BY <1>4 DEF GetOrCreate, Goto
  <2>2. Others(t) /\ thread'[t].at = at
    BY <1>2, <2>1
  <2>. QED  BY <1>4, <2>2 DEF GetOrCreate, At, Aside, Worked
<1>5. CASE Wait(t) \/ Published(t) \/ Fail(t)
  <2>1. thread' = [thread EXCEPT ![t].at = "read"] /\ UNCHANGED <<symbol, translated>>
        /\ thread[t].at \in {"wait", "publish", "fail"}
    BY <1>5 DEF Wait, Published, Fail, At, Goto
  <2>2. Others(t) /\ thread'[t].at = "read"
    BY <1>2, <2>1
  <2>. QED  BY <2>1, <2>2 DEF Aside, Worked
<1>6. CASE Read(t)
  <2>1. thread'[t].at = "done" /\ Others(t)
    BY <1>1, <1>6 DEF Read, Others, Calls
  <2>. QED  BY <1>6, <2>1 DEF Read, At, Aside, Worked
<1>7. CASE StoreFunction(t) \/ StoreReady(t)
  BY <1>7 DEF StoreFunction, StoreReady, At, Aside, Others, Worked
<1>8. CASE LookupFunction(t)
  <2>1. thread[t].at = "lookup" /\ F(t) \in Addresses /\ UNCHANGED translated
    BY <1>1, <1>8 DEF LookupFunction, At
  <2>2. CASE F(t) \notin Unmapped /\ symbol[F(t)] = "none"
    <3>1. thread' = [thread EXCEPT ![t].at = "declared"]
          /\ symbol' = [symbol EXCEPT ![F(t)] = "defining"]
      BY <1>8, <2>2 DEF LookupFunction, Lookup, Goto
    <3>2. Others(t) /\ thread'[t].at = "declared" /\ F(t)' = F(t)
      BY <1>2, <3>1
    <3>3. \A g \in Addresses : symbol'[g] = IF g = F(t) THEN "defining" ELSE symbol[g]
      BY <1>1, <2>1, <3>1 DEF EntryTypes
    <3>4. TakesUp(t, F(t))
      BY <2>1, <2>2, <3>2, <3>3 DEF TakesUp, Declares, Translates
    <3>. QED  BY <2>1, <3>4 DEF Worked
  <2>3. CASE ~(F(t) \notin Unmapped /\ symbol[F(t)] = "none")
    <3>1. PICK at \in {"fail", "demand"} : thread' = [thread EXCEPT ![t].at = at]
      BY <1>8, <2>3 DEF LookupFunction, Lookup, Goto
    <3>2. UNCHANGED symbol
      BY <1>8, <2>3 DEF LookupFunction, Lookup
    <3>. QED  BY <1>2, <2>1, <3>1, <3>2 DEF Aside, Worked
  <2>. QED  BY <2>2, <2>3
<1>9. CASE SetDeclared(t)
  <2>1. thread[t].at = "declared" /\ F(t) \in Addresses /\ UNCHANGED translated
        /\ thread' = [thread EXCEPT ![t].at = "demand"]
    BY <1>1, <1>9 DEF SetDeclared, At, Goto
  <2>2. Others(t) /\ thread'[t].at = "demand" /\ F(t)' = F(t)
    BY <1>2, <2>1
  <2>3. \A g \in Addresses : symbol'[g] = IF g = F(t) THEN "declared" ELSE symbol[g]
    BY <1>1, <1>9, <2>1 DEF SetDeclared, EntryTypes
  <2>4. SetsDown(t, F(t))
    BY <2>1, <2>2, <2>3 DEF SetsDown, Declares, Translates
  <2>. QED  BY <2>1, <2>4 DEF Worked
<1>10. CASE DefineSymbol(t)
  <2>1. thread[t].at = "demand" /\ F(t) \in Addresses /\ UNCHANGED translated
    BY <1>1, <1>10 DEF DefineSymbol, At
  <2>2. CASE symbol[F(t)] = "declared"
    <3>1. thread' = [thread EXCEPT ![t].at = "translate", ![t].todo = Branches[F(t)]]
          /\ symbol' = [symbol EXCEPT ![F(t)] = "defining"]
      BY <1>10, <2>2 DEF DefineSymbol
    <3>2. Others(t) /\ thread'[t].at = "translate" /\ F(t)' = F(t)
      BY <1>1, <3>1 DEF Others, F, Calls
    <3>3. \A g \in Addresses : symbol'[g] = IF g = F(t) THEN "defining" ELSE symbol[g]
      BY <1>1, <2>1, <3>1 DEF EntryTypes
    <3>4. TakesUp(t, F(t))
      BY <2>1, <2>2, <3>2, <3>3 DEF TakesUp, Declares, Translates
    <3>. QED  BY <2>1, <3>4 DEF Worked
  <2>3. CASE symbol[F(t)] # "declared"
    <3>1. PICK at \in {"defining", "fail", "publish"} : thread' = [thread EXCEPT ![t].at = at]
      BY <1>10, <2>3 DEF DefineSymbol, Goto
    <3>2. UNCHANGED symbol
      BY <1>10, <2>3 DEF DefineSymbol
    <3>. QED  BY <1>2, <2>1, <3>1, <3>2 DEF Aside, Worked
  <2>. QED  BY <2>2, <2>3
<1>11. CASE WaitDefined(t)
  <2>1. PICK at \in {"fail", "publish"} : thread' = [thread EXCEPT ![t].at = at]
    BY <1>11 DEF WaitDefined, Goto
  <2>2. Others(t) /\ thread'[t].at = at
    BY <1>2, <2>1
  <2>. QED  BY <1>11, <2>2 DEF WaitDefined, At, Aside, Worked
<1>12. ASSUME NEW g \in Addresses, LookupCallee(t, g)
       PROVE  Worked(t)
  <2>1. thread[t].at = "translate" /\ F(t) \in Addresses /\ UNCHANGED translated
    BY <1>1, <1>12 DEF LookupCallee, At
  <2>2. CASE g \notin Unmapped /\ symbol[g] = "none"
    <3>1. thread' = [thread EXCEPT ![t].todo = @ \ {g}, ![t].at = "callee", ![t].g = g]
          /\ symbol' = [symbol EXCEPT ![g] = "defining"]
      BY <1>12, <2>2, Zenon DEF LookupCallee
    <3>2. Others(t) /\ thread'[t].at = "callee" /\ thread'[t].g = g /\ F(t)' = F(t)
      BY <1>1, <3>1 DEF Others, F, Calls
    <3>3. \A h \in Addresses : symbol'[h] = IF h = g THEN "defining" ELSE symbol[h]
      BY <1>1, <3>1 DEF EntryTypes
    <3>4. g # F(t)
      BY <2>1, <2>2 DEF OneWorker, Translates
    <3>5. TakesUp(t, g)
      BY <2>1, <2>2, <3>2, <3>3, <3>4 DEF TakesUp, Declares, Translates
    <3>. QED  BY <3>5 DEF Worked
  <2>3. CASE ~(g \notin Unmapped /\ symbol[g] = "none")
    <3>1. thread' = [thread EXCEPT ![t].todo = @ \ {g}, ![t].at = @, ![t].g = "none"]
          /\ UNCHANGED symbol
      BY <1>12, <2>3, Zenon DEF LookupCallee
    <3>2. Others(t) /\ thread'[t].at = "translate" /\ F(t)' = F(t)
      BY <1>1, <2>1, <3>1 DEF Others, F, Calls
    <3>. QED  BY <2>1, <3>1, <3>2 DEF PassesOver, Worked, F
  <2>. QED  BY <2>2, <2>3
<1>13. CASE SetCalleeDeclared(t)
  <2>1. /\ thread[t].at = "callee" /\ F(t) \in Addresses /\ UNCHANGED translated
        /\ thread[t].g \in Addresses
        /\ thread' = [thread EXCEPT ![t].at = "translate", ![t].g = "none"]
        /\ symbol' = [symbol EXCEPT ![thread[t].g] = "declared"]
    BY <1>1, <1>13 DEF SetCalleeDeclared, At, Named
  <2>2. Others(t) /\ thread'[t].at = "translate" /\ F(t)' = F(t)
    BY <1>1, <2>1 DEF Others, F, Calls
  <2>3. \A h \in Addresses : symbol'[h] = IF h = thread[t].g THEN "declared" ELSE symbol[h]
    BY <1>1, <2>1 DEF EntryTypes
  <2>4. thread[t].g # F(t)
    BY <2>1 DEF OneWorker, Declares, Translates
  <2>5. SetsDown(t, thread[t].g)
    BY <2>1, <2>2, <2>3, <2>4 DEF SetsDown, Declares, Translates
  <2>. QED  BY <2>1, <2>5 DEF Worked
<1>14. CASE Translate(t)
  <2>1. thread[t].at = "translate" /\ F(t) \in Addresses
    BY <1>1, <1>14 DEF Translate, At
  <2>2. PICK at \in {"fail", "publish"} : thread' = [thread EXCEPT ![t].at = at]
    BY <1>14 DEF Translate, Goto
  <2>3. PICK st \in {"failed", "defined"} : symbol' = [symbol EXCEPT ![F(t)] = st]
    BY <1>14 DEF Translate
  <2>4. \A h \in Addresses :
          /\ symbol'[h] = IF h = F(t) THEN st ELSE symbol[h]
          /\ translated'[h] = IF h = F(t) THEN translated[h] + 1 ELSE translated[h]
    BY <1>1, <1>14, <2>1, <2>3 DEF Translate, EntryTypes
  <2>5. Others(t) /\ thread'[t].at = at /\ F(t)' = F(t)
    BY <1>2, <2>2
  <2>6. SetsDown(t, F(t))
    BY <2>1, <2>4, <2>5 DEF SetsDown, Declares, Translates
  <2>. QED  BY <2>1, <2>6 DEF Worked
<1>. QED
  BY <1>3, <1>4, <1>5, <1>6, <1>7, <1>8, <1>9, <1>10, <1>11, <1>12, <1>13, <1>14
  DEF Step, Worked

(* Every step keeps it that one thread declares or translates a function.  *)
LEMMA WorkerStep ==
  ASSUME TypeOK, Named, OneWorker, [Next]_vars
  PROVE  OneWorker'
<1>1. CASE UNCHANGED vars
  BY <1>1 DEF vars, OneWorker, Declares, Translates, F
<1>2. ASSUME NEW t \in Threads, Step(t) \/ \E f \in Addresses : Call(t, f)
      PROVE  OneWorker'
  <2>1. \A u \in Threads \ {t} : Others(t) =>
          \A f \in Addresses : /\ Declares(u, f)' <=> Declares(u, f)
                               /\ Translates(u, f)' <=> Translates(u, f)
    BY DEF Others, Declares, Translates, F
  <2>2. CASE Aside(t)
    BY <2>1, <2>2 DEF Aside, OneWorker, Declares, Translates, F
  <2>3. CASE PassesOver(t)
    BY <2>1, <2>3 DEF PassesOver, OneWorker, Declares, Translates, F
  <2>4. ASSUME NEW f \in Addresses, TakesUp(t, f)
        PROVE  OneWorker'
    <3>1. translated[f] = 0
      BY <2>4 DEF OneWorker, TakesUp
    <3>2. \A u \in Threads : ~Declares(u, f) /\ ~Translates(u, f)
      BY <2>4 DEF OneWorker, TakesUp
    <3>. QED  BY <2>1, <2>4, <3>1, <3>2 DEF TakesUp, OneWorker
  <2>5. ASSUME NEW f \in Addresses, SetsDown(t, f)
        PROVE  OneWorker'
    <3>1. translated[f] = 0 /\ \A u \in Threads \ {t} : ~Declares(u, f) /\ ~Translates(u, f)
      BY <2>5 DEF OneWorker, SetsDown
    <3>. QED  BY <2>1, <2>5, <3>1 DEF SetsDown, OneWorker
  <2>. QED  BY <1>2, <2>2, <2>3, <2>4, <2>5, SymbolSteps DEF Worked
<1>. QED  BY <1>1, <1>2 DEF Next

(* A thread that fills an entry goes on filling it.                        *)
LEMMA FillsOn ==
  ASSUME OneFiller, NEW t \in Threads, Others(t), UNCHANGED <<entry, stored>>,
         thread'[t].f = thread[t].f, thread[t].at \in Filling \ {"publish"},
         thread'[t].at \in Filling
  PROVE  OneFiller'
<1>1. \A u \in Threads : F(u)' = F(u) /\ \A f \in Addresses : Fills(u, f)' <=> Fills(u, f)
  BY DEF Others, Fills, F
<1>2. \A u \in Threads : thread'[u].at \in {"wait", "read", "done"} => thread'[u] = thread[u]
  BY DEF Others, Filling
<1>3. \A u \in Threads, f \in Addresses :
        Fills(u, f) => \/ entry[f] = "compiling"
                       \/ entry[f] = "ready" /\ thread'[u].at = "publish"
  BY DEF Others, OneFiller, Filled, Fills, F
<1>. QED  BY <1>1, <1>2, <1>3 DEF OneFiller, Filled

(* A thread that has nothing to fill goes on, and what it sees of the      *)
(* entry is what its place says.                                           *)
LEMMA LooksOn ==
  ASSUME OneFiller, NEW t \in Threads, Others(t), UNCHANGED <<entry, stored>>,
         F(t) \in Addresses, thread'[t].f = thread[t].f,
         thread'[t].at \in {"wait", "read", "done"},
         thread'[t].at = "wait" => entry[F(t)] # "none",
         thread'[t].at # "wait" => entry[F(t)] \in {"ready", "failed"},
         thread'[t].at = "done" =>
           thread'[t].answer = IF entry[F(t)] = "ready" THEN F(t) ELSE "null"
  PROVE  OneFiller'
<1>1. \A u \in Threads : F(u)' = F(u) /\ \A f \in Addresses : Fills(u, f)' => Fills(u, f)
  BY DEF Others, Fills, F, Filling
<1>2. \A u \in Threads, f \in Addresses : Fills(u, f)' => thread'[u] = thread[u]
  BY DEF Others, Fills, Filling
<1>. SUFFICES ASSUME NEW f \in Addresses PROVE Filled(f)'
  BY DEF OneFiller
<1>3. \A u \in Threads \ {t} : thread'[u] = thread[u]
  BY DEF Others
<1>. QED  BY <1>1, <1>2, <1>3 DEF OneFiller, Filled, F

(* Every step keeps it that one thread fills an entry.                     *)
LEMMA FillerStep ==
  ASSUME InOrder, TypeOK, Named, OneFiller, [Next]_vars
  PROVE  OneFiller'
<1>0. EntryTypes /\ thread \in [Threads -> Calls]
  BY TypesApart
<1>00. ASSUME NEW t \in Threads
       PROVE  thread[t] \in Calls /\ (thread[t].at # "idle" => F(t) \in Addresses)
  BY <1>0 DEF Named
<1>000. ASSUME NEW t \in Threads, NEW at, thread' = [thread EXCEPT ![t].at = at]
        PROVE  /\ Others(t) /\ thread'[t].at = at /\ thread'[t].f = thread[t].f
               /\ thread'[t].answer = thread[t].answer
  BY <1>0, <1>000, Goes DEF Others
<1>1. CASE UNCHANGED vars
  BY <1>1 DEF vars, OneFiller, Filled, Fills, F
<1>2. ASSUME NEW t \in Threads, NEW f \in Addresses, Call(t, f)
      PROVE  OneFiller'
  <2>1. Others(t) /\ thread'[t].at = "enter"
    BY <1>0, <1>2 DEF Call, Idle, Others
  <2>2. \A u \in Threads, g \in Addresses : Fills(u, g)' => u # t /\ Fills(u, g)
    BY <2>1 DEF Others, Fills, F, Filling
  <2>3. \A u \in Threads : thread'[u].at \in {"wait", "read", "done"} => thread'[u] = thread[u]
    BY <2>1 DEF Others
  <2>4. \A u \in Threads : u # t => thread'[u] = thread[u]
    BY <2>1 DEF Others
  <2>. QED  BY <1>2, <2>2, <2>3, <2>4 DEF Call, OneFiller, Filled, F
<1>3. ASSUME NEW t \in Threads, GetOrCreate(t)
      PROVE  OneFiller'
  <2>0. F(t) \in Addresses /\ thread[t].at = "enter" /\ UNCHANGED stored
    BY <1>3, <1>00 DEF GetOrCreate, At
  <2>1. CASE entry[F(t)] = "none"
    <3>1. /\ entry' = [entry EXCEPT ![F(t)] = "compiling"]
          /\ thread' = [thread EXCEPT ![t].at = "lookup"]
      BY <1>3, <2>1 DEF GetOrCreate, Goto
    <3>2. Others(t) /\ thread'[t].at = "lookup" /\ thread'[t].f = thread[t].f
      BY <1>000, <3>1
    <3>3. \A f \in Addresses : entry'[f] = IF f = F(t) THEN "compiling" ELSE entry[f]
      BY <1>0, <3>1 DEF EntryTypes
    <3>4. \A u \in Threads :
            F(u) = F(t) => ~Fills(u, F(t)) /\ thread[u].at \notin {"wait", "read", "done"}
      BY <2>0, <2>1 DEF OneFiller, Filled
    <3>5. \A u \in Threads : F(u)' = F(u)
      BY <3>2 DEF Others, F
    <3>6. \A u \in Threads \ {t} : /\ thread'[u] = thread[u]
                                   /\ \A f \in Addresses : Fills(u, f)' <=> Fills(u, f)
      BY <3>2 DEF Others, Fills, F
    <3>7. ASSUME NEW f \in Addresses, f # F(t)
          PROVE  Filled(f)'
      <4>1. entry'[f] = entry[f] /\ stored' = stored
        BY <2>0, <3>3, <3>7
      <4>2. \A u \in Threads : Fills(u, f)' <=> Fills(u, f)
        BY <3>5, <3>6, <3>7 DEF Fills
      <4>3. \A u \in Threads : F(u)' = f => F(u) = f /\ thread'[u] = thread[u]
        BY <3>5, <3>6, <3>7
      <4>4. \A u \in Threads : Fills(u, f) => thread'[u] = thread[u]
        BY <3>6, <3>7 DEF Fills
      <4>. QED  BY <4>1, <4>2, <4>3, <4>4 DEF OneFiller, Filled
    <3>8. Filled(F(t))'
      <4>1. \A u \in Threads \ {t} : ~Fills(u, F(t))'
        <5>1. F(t)' = F(t)
          BY <3>5
        <5>. QED  BY <2>0, <3>4, <3>6, <5>1 DEF Fills
      <4>2. \A u \in Threads :
              F(u)' = F(t) => thread'[u].at \notin {"wait", "read", "done"}
        BY <3>2, <3>4, <3>5, <3>6
      <4>3. entry'[F(t)] = "compiling" /\ F(t)' = F(t)
        BY <2>0, <3>3, <3>5
      <4>. QED  BY <4>1, <4>2, <4>3 DEF Filled
    <3>9. F(t)' = F(t)
      BY <3>5
    <3>. QED  BY <3>7, <3>8, <3>9 DEF OneFiller
  <2>2. CASE entry[F(t)] = "compiling"
    <3>1. thread' = [thread EXCEPT ![t].at = "wait"] /\ UNCHANGED entry
      BY <1>3, <2>2 DEF GetOrCreate, Goto
    <3>2. Others(t) /\ thread'[t].at = "wait" /\ thread'[t].f = thread[t].f
      BY <1>000, <3>1
    <3>. QED  BY <2>0, <2>2, <3>1, <3>2, LooksOn
  <2>3. CASE entry[F(t)] \in {"ready", "failed"}
    <3>1. thread' = [thread EXCEPT ![t].at = "read"] /\ UNCHANGED entry
      BY <1>3, <2>3 DEF GetOrCreate, Goto
    <3>2. Others(t) /\ thread'[t].at = "read" /\ thread'[t].f = thread[t].f
      BY <1>000, <3>1
    <3>. QED  BY <2>0, <2>3, <3>1, <3>2, LooksOn
  <2>. QED  BY <1>0, <2>0, <2>1, <2>2, <2>3 DEF EntryTypes
<1>4. ASSUME NEW t \in Threads, Wait(t)
      PROVE  OneFiller'
  <2>1. /\ F(t) \in Addresses /\ thread[t].at = "wait" /\ entry[F(t)] # "compiling"
        /\ thread' = [thread EXCEPT ![t].at = "read"] /\ UNCHANGED <<entry, stored>>
    BY <1>4, <1>00 DEF Wait, At, Goto
  <2>2. entry[F(t)] \in {"ready", "failed"}
    BY <1>0, <2>1 DEF EntryTypes, OneFiller, Filled
  <2>3. Others(t) /\ thread'[t].at = "read" /\ thread'[t].f = thread[t].f
    BY <1>000, <2>1
  <2>. QED  BY <2>1, <2>2, <2>3, LooksOn
<1>5. ASSUME NEW t \in Threads, Read(t)
      PROVE  OneFiller'
  <2>1. F(t) \in Addresses /\ thread[t].at = "read" /\ UNCHANGED <<entry, stored>>
    BY <1>5, <1>00 DEF Read, At
  <2>2. /\ Others(t) /\ thread'[t].at = "done" /\ thread'[t].f = thread[t].f
        /\ thread'[t].answer = IF entry[F(t)] = "ready" /\ F(t) \in stored
                               THEN F(t) ELSE "null"
    BY <1>0, <1>5 DEF Read, Others, Calls
  <2>3. entry[F(t)] \in {"ready", "failed"} /\ (entry[F(t)] = "ready" => F(t) \in stored)
    BY <2>1 DEF OneFiller, Filled
  <2>. QED  BY <2>1, <2>2, <2>3, LooksOn
<1>6. ASSUME NEW t \in Threads, Published(t)
      PROVE  OneFiller'
  <2>1. /\ F(t) \in Addresses /\ entry[F(t)] = "ready"
        /\ thread' = [thread EXCEPT ![t].at = "read"] /\ UNCHANGED <<entry, stored>>
    BY <1>6, <1>00 DEF Published, At, Goto
  <2>2. Others(t) /\ thread'[t].at = "read" /\ thread'[t].f = thread[t].f
    BY <1>000, <2>1
  <2>. QED  BY <2>1, <2>2, LooksOn
<1>7. ASSUME NEW t \in Threads, StoreFunction(t)
      PROVE  OneFiller'
  <2>1. /\ F(t) \in Addresses /\ thread[t].at = "publish" /\ stored' = stored \cup {F(t)}
        /\ UNCHANGED <<entry, thread>> /\ Fills(t, F(t))
    BY <1>7, <1>00 DEF StoreFunction, At, Fills, Filling
  <2>2. entry[F(t)] # "none"
    BY <2>1 DEF OneFiller, Filled
  <2>. QED  BY <2>1, <2>2 DEF OneFiller, Filled, Fills, F
<1>8. ASSUME NEW t \in Threads, StoreReady(t)
      PROVE  OneFiller'
  <2>1. /\ F(t) \in Addresses /\ thread[t].at = "publish" /\ F(t) \in stored
        /\ entry' = [entry EXCEPT ![F(t)] = "ready"] /\ entry[F(t)] = "compiling"
        /\ UNCHANGED <<stored, thread>> /\ Fills(t, F(t))
    BY <1>8, <1>00 DEF StoreReady, At, Fills, Filling
  <2>2. \A f \in Addresses : entry'[f] = IF f = F(t) THEN "ready" ELSE entry[f]
    BY <1>0, <2>1 DEF EntryTypes
  <2>3. \A u \in Threads : F(u)' = F(u) /\ thread'[u] = thread[u]
                           /\ \A f \in Addresses : Fills(u, f)' <=> Fills(u, f)
    BY <2>1 DEF F, Fills
  <2>4. \A u \in Threads : Fills(u, F(t)) => u = t
    BY <2>1 DEF OneFiller, Filled
  <2>5. \A u \in Threads : F(u) = F(t) => thread[u].at \notin {"read", "done"}
    BY <2>1 DEF OneFiller, Filled
  <2>6. ASSUME NEW f \in Addresses, f # F(t)
        PROVE  Filled(f)'
    BY <2>1, <2>2, <2>3, <2>6 DEF OneFiller, Filled
  <2>7. Filled(F(t))'
    BY <2>1, <2>2, <2>3, <2>4, <2>5 DEF Filled
  <2>. QED  BY <2>3, <2>6, <2>7 DEF OneFiller
<1>9. ASSUME NEW t \in Threads, Fail(t)
      PROVE  OneFiller'
  <2>1. /\ F(t) \in Addresses /\ thread[t].at = "fail" /\ UNCHANGED stored
        /\ entry' = [entry EXCEPT ![F(t)] = "failed"]
        /\ thread' = [thread EXCEPT ![t].at = "read"] /\ Fills(t, F(t))
    BY <1>9, <1>00 DEF Fail, At, Goto, Fills, Filling
  <2>2. Others(t) /\ thread'[t].at = "read" /\ thread'[t].f = thread[t].f
    BY <1>000, <2>1
  <2>3. \A f \in Addresses : entry'[f] = IF f = F(t) THEN "failed" ELSE entry[f]
    BY <1>0, <2>1 DEF EntryTypes
  <2>4. \A u \in Threads : F(u)' = F(u)
    BY <2>2 DEF Others, F
  <2>5. \A u \in Threads \ {t} : /\ thread'[u] = thread[u]
                                 /\ \A f \in Addresses : Fills(u, f)' <=> Fills(u, f)
    BY <2>2 DEF Others, Fills, F
  <2>6. \A f \in Addresses : ~Fills(t, f)'
    BY <2>2 DEF Fills, Filling
  <2>7. entry[F(t)] = "compiling"
    BY <2>1 DEF OneFiller, Filled
  <2>8. \A u \in Threads \ {t} : ~Fills(u, F(t)) /\ (F(u) = F(t) => thread[u].at \notin {"read", "done"})
    BY <2>1, <2>7 DEF OneFiller, Filled
  <2>9. ASSUME NEW f \in Addresses, f # F(t)
        PROVE  Filled(f)'
    BY <2>1, <2>3, <2>4, <2>5, <2>6, <2>9 DEF OneFiller, Filled
  <2>10. Filled(F(t))'
    BY <2>1, <2>2, <2>3, <2>4, <2>5, <2>6, <2>8 DEF Filled
  <2>. QED  BY <2>4, <2>9, <2>10 DEF OneFiller
<1>10. ASSUME NEW t \in Threads, LookupFunction(t)
       PROVE  OneFiller'
  <2>1. PICK at \in {"declared", "demand", "fail"} : thread' = [thread EXCEPT ![t].at = at]
    BY <1>10 DEF LookupFunction, Lookup, Goto
  <2>2. thread[t].at = "lookup" /\ UNCHANGED <<entry, stored>>
    BY <1>10 DEF LookupFunction, At
  <2>3. Others(t) /\ thread'[t].at = at /\ thread'[t].f = thread[t].f
    BY <1>000, <2>1
  <2>. QED  BY <2>2, <2>3, FillsOn DEF Filling
<1>11. ASSUME NEW t \in Threads, SetDeclared(t)
       PROVE  OneFiller'
  <2>1. /\ thread[t].at = "declared" /\ UNCHANGED <<entry, stored>>
        /\ thread' = [thread EXCEPT ![t].at = "demand"]
    BY <1>11 DEF SetDeclared, At, Goto
  <2>2. Others(t) /\ thread'[t].at = "demand" /\ thread'[t].f = thread[t].f
    BY <1>000, <2>1
  <2>. QED  BY <2>1, <2>2, FillsOn DEF Filling
<1>12. ASSUME NEW t \in Threads, DefineSymbol(t)
       PROVE  OneFiller'
  <2>1. thread[t].at = "demand" /\ UNCHANGED <<entry, stored>>
    BY <1>12 DEF DefineSymbol, At
  <2>2. Others(t) /\ thread'[t].at \in Filling /\ thread'[t].f = thread[t].f
    <3>1. CASE symbol[F(t)] = "declared"
      <4>1. thread' = [thread EXCEPT ![t].at = "translate", ![t].todo = Branches[F(t)]]
        BY <1>12, <3>1 DEF DefineSymbol
      <4>. QED  BY <1>0, <4>1 DEF Others, Calls, Filling
    <3>2. CASE symbol[F(t)] # "declared"
      <4>1. PICK at \in {"defining", "fail", "publish"} : thread' = [thread EXCEPT ![t].at = at]
        BY <1>12, <3>2 DEF DefineSymbol, Goto
      <4>. QED  BY <1>000, <4>1 DEF Filling
    <3>. QED  BY <3>1, <3>2
  <2>. QED  BY <2>1, <2>2, FillsOn DEF Filling
<1>13. ASSUME NEW t \in Threads, WaitDefined(t)
       PROVE  OneFiller'
  <2>1. PICK at \in {"fail", "publish"} : thread' = [thread EXCEPT ![t].at = at]
    BY <1>13 DEF WaitDefined, Goto
  <2>2. thread[t].at = "defining" /\ UNCHANGED <<entry, stored>>
    BY <1>13 DEF WaitDefined, At
  <2>3. Others(t) /\ thread'[t].at = at /\ thread'[t].f = thread[t].f
    BY <1>000, <2>1
  <2>. QED  BY <2>2, <2>3, FillsOn DEF Filling
<1>14. ASSUME NEW t \in Threads, NEW g \in Addresses, LookupCallee(t, g)
       PROVE  OneFiller'
  <2>1. thread[t].at = "translate" /\ UNCHANGED <<entry, stored>>
    BY <1>14 DEF LookupCallee, At
  <2>2. PICK at \in {"callee", thread[t].at}, h \in Addresses \cup {"none"} :
          thread' = [thread EXCEPT ![t].todo = @ \ {g}, ![t].at = at, ![t].g = h]
    BY <1>14 DEF LookupCallee
  <2>3. Others(t) /\ thread'[t].at = at /\ thread'[t].f = thread[t].f
    BY <1>0, <2>2 DEF Others, Calls
  <2>. QED  BY <2>1, <2>3, FillsOn DEF Filling
<1>15. ASSUME NEW t \in Threads, SetCalleeDeclared(t)
       PROVE  OneFiller'
  <2>1. /\ thread[t].at = "callee" /\ UNCHANGED <<entry, stored>>
        /\ thread' = [thread EXCEPT ![t].at = "translate", ![t].g = "none"]
    BY <1>15 DEF SetCalleeDeclared, At
  <2>2. Others(t) /\ thread'[t].at = "translate" /\ thread'[t].f = thread[t].f
    BY <1>0, <2>1 DEF Others, Calls
  <2>. QED  BY <2>1, <2>2, FillsOn DEF Filling
<1>16. ASSUME NEW t \in Threads, Translate(t)
       PROVE  OneFiller'
  <2>1. PICK at \in {"fail", "publish"} : thread' = [thread EXCEPT ![t].at = at]
    BY <1>16 DEF Translate, Goto
  <2>2. thread[t].at = "translate" /\ UNCHANGED <<entry, stored>>
    BY <1>16 DEF Translate, At
  <2>3. Others(t) /\ thread'[t].at = at /\ thread'[t].f = thread[t].f
    BY <1>000, <2>1
  <2>. QED  BY <2>2, <2>3, FillsOn DEF Filling
<1>. QED
  BY <1>1, <1>2, <1>3, <1>4, <1>5, <1>6, <1>7, <1>8, <1>9, <1>10, <1>11, <1>12, <1>13, <1>14,
     <1>15, <1>16
  DEF Next, Step

(* However many threads call however many functions that branch to one     *)
(* another, none is translated twice (entry_table.cc, module.cc).          *)
THEOREM Once == Spec => []TranslatedOnce
<1>1. Init => TypeOK /\ Named /\ OneWorker
  BY TypeInit DEF Init, OneWorker, Declares, Translates, Idle
<1>2. TypeOK /\ Named /\ OneWorker /\ [Next]_vars => (TypeOK /\ Named /\ OneWorker)'
  BY TypeStep, WorkerStep
<1>3. OneWorker => TranslatedOnce
  BY DEF OneWorker, TranslatedOnce
<1>. QED  BY <1>1, <1>2, <1>3, PTL DEF Spec

(* Where stores are seen in order, all who call a function get the same    *)
(* answer (processor.cc:256-292).                                          *)
THEOREM Agreement == ASSUME InOrder PROVE Spec => []AnswersAgree
<1>1. Init => TypeOK /\ Named /\ OneFiller
  BY TypeInit, NamesAssumption DEF Init, OneFiller, Filled, Fills, Filling, F, Idle
<1>2. TypeOK /\ Named /\ OneFiller /\ [Next]_vars => (TypeOK /\ Named /\ OneFiller)'
  BY TypeStep, FillerStep
<1>3. TypeOK /\ Named /\ OneFiller => AnswersAgree
  BY DEF AnswersAgree, OneFiller, Filled, Named, At
<1>. QED  BY <1>1, <1>2, <1>3, PTL DEF Spec
\* An entry that is being filled has a thread that fills it, a symbol that is
\* being defined one that declares or translates it.
HasFiller == \A f \in Addresses : entry[f] = "compiling" => \E t \in Threads : Fills(t, f)
HasWorker == \A f \in Addresses :
               symbol[f] = "defining" => \E t \in Threads : Declares(t, f) \/ Translates(t, f)

\* An entry that is to be filled after a step of t is one that t fills then, or
\* one that another filled before.
FillsOrLeaves(t) ==
  /\ Others(t)
  /\ \A f \in Addresses :
       entry'[f] = "compiling" => Fills(t, f)' \/ (entry[f] = "compiling" /\ ~Fills(t, f))

(* A thread lets go of an entry only when it has filled it.                *)
LEMMA EntrySteps ==
  ASSUME TypeOK, Named, NEW t \in Threads, Step(t) \/ \E f \in Addresses : Call(t, f)
  PROVE  FillsOrLeaves(t)
<1>1. EntryTypes /\ thread \in [Threads -> Calls] /\ thread[t] \in Calls
      /\ (thread[t].at # "idle" => F(t) \in Addresses)
  BY TypesApart DEF Named
<1>2. ASSUME NEW at, thread' = [thread EXCEPT ![t].at = at]
      PROVE  Others(t) /\ thread'[t].at = at /\ F(t)' = F(t)
  BY <1>1, <1>2, Goes DEF Others, F
<1>3. ASSUME Others(t), UNCHANGED entry, thread[t].at \notin Filling
      PROVE  FillsOrLeaves(t)
  BY <1>3 DEF FillsOrLeaves, Fills
<1>4. ASSUME Others(t), UNCHANGED entry, F(t)' = F(t), thread'[t].at \in Filling
      PROVE  FillsOrLeaves(t)
  BY <1>4 DEF FillsOrLeaves, Fills
<1>5. ASSUME NEW f \in Addresses, Call(t, f)
      PROVE  FillsOrLeaves(t)
  <2>1. Others(t) /\ thread[t].at \notin Filling /\ UNCHANGED entry
    BY <1>1, <1>5 DEF Call, At, Idle, Others, Filling
  <2>. QED  BY <1>3, <2>1
<1>6. CASE GetOrCreate(t)
  <2>1. F(t) \in Addresses /\ thread[t].at = "enter"
    BY <1>1, <1>6 DEF GetOrCreate, At
  <2>2. CASE entry[F(t)] = "none"
    <3>1. /\ entry' = [entry EXCEPT ![F(t)] = "compiling"]
          /\ thread' = [thread EXCEPT ![t].at = "lookup"]
      BY <1>6, <2>2 DEF GetOrCreate, Goto
    <3>2. Others(t) /\ Fills(t, F(t))'
      BY <1>2, <3>1 DEF Fills, Filling
    <3>3. \A f \in Addresses : entry'[f] = IF f = F(t) THEN "compiling" ELSE entry[f]
      BY <1>1, <3>1 DEF EntryTypes
    <3>4. F(t)' = F(t)
      BY <1>2, <3>1
    <3>. QED  BY <2>1, <3>2, <3>3, <3>4 DEF FillsOrLeaves, Fills, Filling
  <2>3. CASE entry[F(t)] # "none"
    <3>1. PICK at \in {"wait", "read"} : thread' = [thread EXCEPT ![t].at = at]
      BY <1>6, <2>3 DEF GetOrCreate, Goto
    <3>2. UNCHANGED entry
      BY <1>6, <2>3 DEF GetOrCreate
    <3>. QED  BY <1>2, <1>3, <2>1, <3>1, <3>2 DEF Filling
  <2>. QED  BY <2>2, <2>3
<1>7. CASE Wait(t) \/ Read(t)
  <2>1. Others(t) /\ thread[t].at \notin Filling /\ UNCHANGED entry
    BY <1>1, <1>7 DEF Wait, Read, At, Goto, Others, Filling
  <2>. QED  BY <1>3, <2>1
<1>8. CASE StoreFunction(t)
  BY <1>8 DEF StoreFunction, FillsOrLeaves, Others, Fills, F
<1>9. CASE StoreReady(t)
  <2>1. /\ F(t) \in Addresses /\ entry' = [entry EXCEPT ![F(t)] = "ready"] /\ UNCHANGED thread
    BY <1>1, <1>9 DEF StoreReady, At
  <2>2. \A f \in Addresses : entry'[f] = IF f = F(t) THEN "ready" ELSE entry[f]
    BY <1>1, <2>1 DEF EntryTypes
  <2>. QED  BY <2>1, <2>2 DEF FillsOrLeaves, Others, Fills, F
<1>10. CASE Published(t)
  <2>1. /\ entry[F(t)] = "ready" /\ UNCHANGED entry
        /\ thread' = [thread EXCEPT ![t].at = "read"]
    BY <1>10 DEF Published, Goto
  <2>2. Others(t)
    BY <1>2, <2>1
  <2>. QED  BY <2>1, <2>2 DEF FillsOrLeaves, Fills
<1>11. CASE Fail(t)
  <2>1. /\ F(t) \in Addresses /\ entry' = [entry EXCEPT ![F(t)] = "failed"]
        /\ thread' = [thread EXCEPT ![t].at = "read"]
    BY <1>1, <1>11 DEF Fail, At, Goto
  <2>2. \A f \in Addresses : entry'[f] = IF f = F(t) THEN "failed" ELSE entry[f]
    BY <1>1, <2>1 DEF EntryTypes
  <2>3. Others(t)
    BY <1>2, <2>1
  <2>. QED  BY <2>2, <2>3 DEF FillsOrLeaves, Fills
<1>12. CASE LookupFunction(t)
  <2>1. PICK at \in {"declared", "demand", "fail"} : thread' = [thread EXCEPT ![t].at = at]
    BY <1>12 DEF LookupFunction, Lookup, Goto
  <2>2. UNCHANGED entry
    BY <1>12 DEF LookupFunction
  <2>. QED  BY <1>2, <1>4, <2>1, <2>2 DEF Filling
<1>13. CASE SetDeclared(t)
  BY <1>2, <1>4, <1>13 DEF SetDeclared, Goto, Filling
<1>14. CASE DefineSymbol(t)
  <2>1. CASE symbol[F(t)] = "declared"
    <3>1. thread' = [thread EXCEPT ![t].at = "translate", ![t].todo = Branches[F(t)]]
          /\ UNCHANGED entry
      BY <1>14, <2>1 DEF DefineSymbol
    <3>2. Others(t) /\ thread'[t].at = "translate" /\ F(t)' = F(t)
      BY <1>1, <3>1 DEF Others, F, Calls
    <3>. QED  BY <1>4, <3>1, <3>2 DEF Filling
  <2>2. CASE symbol[F(t)] # "declared"
    <3>1. PICK at \in {"defining", "fail", "publish"} : thread' = [thread EXCEPT ![t].at = at]
      BY <1>14, <2>2 DEF DefineSymbol, Goto
    <3>2. UNCHANGED entry
      BY <1>14 DEF DefineSymbol
    <3>. QED  BY <1>2, <1>4, <3>1, <3>2 DEF Filling
  <2>. QED  BY <2>1, <2>2
<1>15. CASE WaitDefined(t)
  <2>1. PICK at \in {"fail", "publish"} : thread' = [thread EXCEPT ![t].at = at]
    BY <1>15 DEF WaitDefined, Goto
  <2>2. UNCHANGED entry
    BY <1>15 DEF WaitDefined
  <2>. QED  BY <1>2, <1>4, <2>1, <2>2 DEF Filling
<1>16. ASSUME NEW g \in Addresses, LookupCallee(t, g)
       PROVE  FillsOrLeaves(t)
  <2>1. thread[t].at = "translate" /\ UNCHANGED entry
    BY <1>16 DEF LookupCallee, At
  <2>2. PICK at \in {"callee", thread[t].at}, h \in Addresses \cup {"none"} :
          thread' = [thread EXCEPT ![t].todo = @ \ {g}, ![t].at = at, ![t].g = h]
    BY <1>16 DEF LookupCallee
  <2>3. Others(t) /\ thread'[t].at = at /\ F(t)' = F(t)
    BY <1>1, <2>2 DEF Others, F, Calls
  <2>. QED  BY <1>4, <2>1, <2>3 DEF Filling
<1>17. CASE SetCalleeDeclared(t)
  <2>1. thread' = [thread EXCEPT ![t].at = "translate", ![t].g = "none"] /\ UNCHANGED entry
    BY <1>17 DEF SetCalleeDeclared
  <2>2. Others(t) /\ thread'[t].at = "translate" /\ F(t)' = F(t)
    BY <1>1, <2>1 DEF Others, F, Calls
  <2>. QED  BY <1>4, <2>1, <2>2 DEF Filling
<1>18. CASE Translate(t)
  <2>1. PICK at \in {"fail", "publish"} : thread' = [thread EXCEPT ![t].at = at]
    BY <1>18 DEF Translate, Goto
  <2>2. UNCHANGED entry
    BY <1>18 DEF Translate
  <2>. QED  BY <1>2, <1>4, <2>1, <2>2 DEF Filling
<1>. QED
  BY <1>5, <1>6, <1>7, <1>8, <1>9, <1>10, <1>11, <1>12, <1>13, <1>14, <1>15, <1>16, <1>17, <1>18
  DEF Step

(* Nobody gives up what others wait for.                                   *)
LEMMA AttendedStep ==
  ASSUME TypeOK, Named, OneWorker, HasFiller, HasWorker, [Next]_vars
  PROVE  HasFiller' /\ HasWorker'
<1>1. CASE UNCHANGED vars
  BY <1>1 DEF vars, HasFiller, HasWorker, Fills, Declares, Translates, F
<1>2. ASSUME NEW t \in Threads, Step(t) \/ \E f \in Addresses : Call(t, f)
      PROVE  HasFiller' /\ HasWorker'
  <2>1. Others(t) =>
          \A u \in Threads \ {t}, f \in Addresses :
            /\ Fills(u, f)' <=> Fills(u, f)
            /\ Declares(u, f)' <=> Declares(u, f)
            /\ Translates(u, f)' <=> Translates(u, f)
    BY DEF Others, Fills, Declares, Translates, F
  <2>2. HasFiller'
    BY <1>2, <2>1, EntrySteps DEF FillsOrLeaves, HasFiller
  <2>3. CASE Aside(t)
    <3>1. \A f \in Addresses : ~Declares(t, f) /\ ~Translates(t, f)
      BY <2>3 DEF Aside, Declares, Translates
    <3>. QED  BY <2>1, <2>2, <2>3, <3>1 DEF Aside, HasWorker
  <2>4. CASE PassesOver(t)
    <3>1. \A f \in Addresses : Declares(t, f) \/ Translates(t, f) => Translates(t, f)'
      BY <2>4 DEF PassesOver, Declares, Translates, F
    <3>. QED  BY <2>1, <2>2, <2>4, <3>1 DEF PassesOver, HasWorker
  <2>5. ASSUME NEW f \in Addresses, TakesUp(t, f)
        PROVE  HasWorker'
    BY <2>1, <2>5 DEF TakesUp, HasWorker
  <2>6. ASSUME NEW f \in Addresses, SetsDown(t, f)
        PROVE  HasWorker'
    BY <2>1, <2>6 DEF SetsDown, HasWorker
  <2>. QED  BY <1>2, <2>2, <2>3, <2>4, <2>5, <2>6, SymbolSteps DEF Worked
<1>. QED  BY <1>1, <1>2 DEF Next

(* However functions branch to one another, no thread waits for an entry   *)
(* or a symbol that nobody is at work on, and those at work do not wait    *)
(* for one another (entry_table.cc:66-76, module.cc:120-127).              *)
THEOREM Attendance == Spec => []Attended
<1>1. Init => TypeOK /\ Named /\ OneWorker /\ HasFiller /\ HasWorker
  BY TypeInit DEF Init, OneWorker, HasFiller, HasWorker, Declares, Translates, Idle
<1>2. TypeOK /\ Named /\ OneWorker /\ HasFiller /\ HasWorker /\ [Next]_vars
        => (TypeOK /\ Named /\ OneWorker /\ HasFiller /\ HasWorker)'
  BY TypeStep, WorkerStep, AttendedStep
<1>3. TypeOK /\ HasFiller /\ HasWorker => Attended
  BY DEF Attended, HasFiller, HasWorker, Fills, Filling, Declares, Translates, At
<1>. QED  BY <1>1, <1>2, <1>3, PTL DEF Spec
==============================================================================

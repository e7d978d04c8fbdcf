------------------------- MODULE ParserBufferProofs -------------------------
(***************************************************************************)
(* Proofs about ParserBuffer, for streams of any length, messages of any   *)
(* length, chunks of any size and any number of exceptions.                *)
(*                                                                         *)
(* Each recursive definition stands for one function.  That there is one,  *)
(* and what it yields, is shown with the first place where either fails.   *)
(***************************************************************************)
EXTENDS ParserBuffer, SequenceTheorems, WellFoundedInduction, TLAPS

-----------------------------------------------------------------------------
\* Naturals.

LEMMA LeastOf ==
    ASSUME NEW S \in SUBSET Nat, S # {}
    PROVE  \E x \in S : \A y \in S : x <= y
<1>1. PICK x \in S : \A y \in S : ~(<<y, x>> \in OpToRel(<, Nat))
  BY NatLessThanWellFounded, WFMin
<1>2. \A y \in S : ~(y < x)
  BY <1>1 DEF OpToRel
<1> QED BY <1>2

LEMMA GreatestOf ==
    ASSUME NEW S \in SUBSET Nat, S # {}, NEW n \in Nat, \A x \in S : x <= n
    PROVE  \E x \in S : \A y \in S : y <= x
<1> DEFINE T == {n - x : x \in S}
<1>1. T \in SUBSET Nat /\ T # {}
  <2>1. \A x \in S : n - x \in Nat
    OBVIOUS
  <2>2. \E x \in S : n - x \in T
    OBVIOUS
  <2> QED BY <2>1, <2>2
<1>2. PICK t \in T : \A u \in T : t <= u
  <2> HIDE DEF T
  <2> QED BY <1>1, LeastOf
<1>3. PICK x \in S : t = n - x
  OBVIOUS
<1>4. ASSUME NEW y \in S PROVE y <= x
  <2>1. n - y \in T
    OBVIOUS
  <2>2. n - x <= n - y
    BY <1>2, <1>3, <2>1
  <2> QED BY <2>2
<1> QED BY <1>4

LEMMA MaxIs ==
    ASSUME NEW S \in SUBSET Nat, S # {}, NEW n \in Nat, \A x \in S : x <= n
    PROVE  Max(S) \in S /\ \A x \in S : x <= Max(S)
<1>1. PICK x \in S : \A y \in S : y <= x
  BY GreatestOf
<1>2. \A y \in S : x >= y
  BY <1>1
<1>3. Max(S) \in S /\ \A y \in S : Max(S) >= y
  BY <1>2 DEF Max
<1> QED BY <1>3

-----------------------------------------------------------------------------
\* Where the messages begin.

N == Len(lengths)

LEMMA StreamIs ==
    ASSUME lengths \in Streams
    PROVE  /\ lengths \in Seq(Nat) /\ N \in Nat \ {0} /\ DOMAIN lengths = 1..N
           /\ HeaderLength \in Nat \ {0} /\ \A i \in 1..N : lengths[i] \in Nat /\ lengths[i] >= HeaderLength
<1>1. /\ lengths \in Seq(Nat) /\ lengths # <<>>
      /\ \A i \in DOMAIN lengths : lengths[i] >= HeaderLength
      /\ HeaderLength \in Nat \ {0}
  BY ParserAssumption
<1>2. N \in Nat /\ DOMAIN lengths = 1..N /\ \A i \in 1..N : lengths[i] \in Nat
  BY <1>1, LenProperties, ElementOfSeq DEF N
<1>3. N # 0
  BY <1>1, EmptySeq DEF N
<1> QED BY <1>1, <1>2, <1>3

\* The equation of Start, for the first m messages.
Begins(m, f) ==
    \A n \in 1..m : f[n] = IF n = 1 THEN 1 ELSE f[n - 1] + lengths[n - 1]

LEMMA SomeBegins ==
    ASSUME lengths \in Streams
    PROVE  \E f \in [1..(N + 1) -> Nat] : Begins(N + 1, f)
<1> DEFINE Bad == {m \in 1..(N + 1) : ~\E f \in [1..m -> Nat] : Begins(m, f)}
<1>0. N \in Nat /\ \A i \in 1..N : lengths[i] \in Nat
  BY StreamIs
<1>1. SUFFICES Bad = {}
  BY <1>0
<1>2. SUFFICES ASSUME Bad # {} PROVE FALSE
  OBVIOUS
<1>3. PICK m \in Bad : \A n \in Bad : m <= n
  <2>1. Bad \in SUBSET Nat
    BY <1>0
  <2> HIDE DEF Bad
  <2> QED BY <1>2, <2>1, LeastOf
<1>4. m \in 1..(N + 1) /\ ~\E f \in [1..m -> Nat] : Begins(m, f)
  OBVIOUS
<1>5. m # 1
  <2>1. [n \in 1..1 |-> 1] \in [1..1 -> Nat] /\ Begins(1, [n \in 1..1 |-> 1])
    BY DEF Begins
  <2> QED BY <1>4, <2>1
<1>6. m - 1 \in 1..N /\ m - 1 \notin Bad
  BY <1>0, <1>3, <1>4, <1>5
<1>7. PICK f \in [1..(m - 1) -> Nat] : Begins(m - 1, f)
  BY <1>0, <1>6
<1> DEFINE g == [n \in 1..m |-> IF n = m THEN f[m - 1] + lengths[m - 1] ELSE f[n]]
<1>8. g \in [1..m -> Nat]
  <2>1. f[m - 1] + lengths[m - 1] \in Nat
    BY <1>0, <1>6, <1>7
  <2>2. \A n \in 1..m : n # m => n \in 1..(m - 1)
    BY <1>0, <1>4
  <2> QED BY <1>7, <2>1, <2>2
<1>9. Begins(m, g)
  <2> SUFFICES ASSUME NEW n \in 1..m
               PROVE  g[n] = IF n = 1 THEN 1 ELSE g[n - 1] + lengths[n - 1]
    BY DEF Begins
  <2>1. CASE n = m
    BY <1>0, <1>4, <1>5, <2>1
  <2>2. CASE n # m
    <3>1. n \in 1..(m - 1) /\ (n # 1 => n - 1 \in 1..m /\ n - 1 # m)
      BY <1>0, <1>4, <2>2
    <3>2. f[n] = IF n = 1 THEN 1 ELSE f[n - 1] + lengths[n - 1]
      BY <1>7, <3>1 DEF Begins
    <3> QED BY <2>2, <3>1, <3>2
  <2> QED BY <2>1, <2>2
<1> QED BY <1>4, <1>8, <1>9

\* A message begins where the one before it ends.
LEMMA StartIs ==
    ASSUME lengths \in Streams
    PROVE  /\ Start \in [1..(N + 1) -> Nat] /\ Start[1] = 1
           /\ \A n \in 1..N : Start[n + 1] = Start[n] + lengths[n]
<1>0. N \in Nat \ {0}
  BY StreamIs
<1>1. PICK f \in [1..(N + 1) -> Nat] : Begins(N + 1, f)
  BY SomeBegins
<1>2. f = [n \in 1..(N + 1) |-> IF n = 1 THEN 1 ELSE f[n - 1] + lengths[n - 1]]
  BY <1>1 DEF Begins
<1>3. Start = [n \in 1..(N + 1) |-> IF n = 1 THEN 1 ELSE Start[n - 1] + lengths[n - 1]]
  BY <1>2 DEF Start, N
<1> HIDE DEF Start
<1>4. Start[1] = 1
  BY <1>0, <1>3
<1>5. ASSUME NEW n \in 1..N PROVE Start[n + 1] = Start[n] + lengths[n]
  <2>1. n + 1 \in 1..(N + 1) /\ n + 1 # 1 /\ (n + 1) - 1 = n
    BY <1>0
  <2> QED BY <1>3, <2>1
<1> DEFINE Bad == {n \in 1..(N + 1) : Start[n] \notin Nat}
<1>6. Bad = {}
  <2>1. SUFFICES ASSUME Bad # {} PROVE FALSE
    OBVIOUS
  <2>2. PICK m \in Bad : \A n \in Bad : m <= n
    <3>1. Bad \in SUBSET Nat
      BY <1>0
    <3> HIDE DEF Bad
    <3> QED BY <2>1, <3>1, LeastOf
  <2>3. m # 1 /\ m \in 1..(N + 1)
    BY <1>4
  <2>4. m - 1 \in 1..N /\ m - 1 \in 1..(N + 1) /\ ~(m <= m - 1) /\ (m - 1) + 1 = m
    BY <1>0, <2>3
  <2>5. Start[m - 1] \in Nat
    BY <2>2, <2>4
  <2>6. Start[m] = Start[m - 1] + lengths[m - 1] /\ lengths[m - 1] \in Nat
    BY <1>5, <2>4, StreamIs
  <2> QED BY <2>2, <2>5, <2>6
<1>7. \A n \in 1..(N + 1) : Start[n] \in Nat
  BY <1>6
<1>8. Start \in [1..(N + 1) -> Nat]
  BY <1>3, <1>7
<1> QED BY <1>4, <1>5, <1>8

LEMMA SameStart == ASSUME lengths' = lengths PROVE Start' = Start
  BY DEF Start
LEMMA StartGrows ==
    ASSUME lengths \in Streams, NEW j \in 1..(N + 1), NEW i \in 1..N, i < j
    PROVE  Start[i] + HeaderLength <= Start[j]
<1> DEFINE Bad == {k \in (i + 1)..(N + 1) : ~(Start[i] + HeaderLength <= Start[k])}
<1>0. N \in Nat /\ HeaderLength \in Nat /\ i \in Nat
  BY StreamIs
<1>1. \A k \in 1..N : /\ Start[k] \in Nat /\ Start[k + 1] \in Nat
                      /\ Start[k] + HeaderLength <= Start[k + 1]
  <2>1. ASSUME NEW k \in 1..N
        PROVE  /\ Start[k] \in Nat /\ Start[k + 1] \in Nat
               /\ Start[k] + HeaderLength <= Start[k + 1]
    <3>1. k \in 1..(N + 1) /\ k + 1 \in 1..(N + 1)
      BY <1>0
    <3>2. lengths[k] \in Nat /\ lengths[k] >= HeaderLength /\ Start[k + 1] = Start[k] + lengths[k]
      BY StreamIs, StartIs
    <3>3. Start[k] \in Nat /\ Start[k + 1] \in Nat
      BY <3>1, StartIs
    <3> QED BY <1>0, <3>2, <3>3
  <2> QED BY <2>1
<1>2. SUFFICES ASSUME Bad # {} PROVE FALSE
  <2>1. j \in (i + 1)..(N + 1)
    BY <1>0
  <2> QED BY <2>1
<1>3. PICK m \in Bad : \A k \in Bad : m <= k
  <2>1. Bad \in SUBSET Nat
    BY <1>0
  <2> HIDE DEF Bad
  <2> QED BY <1>2, <2>1, LeastOf
<1>4. m \in (i + 1)..(N + 1) /\ ~(Start[i] + HeaderLength <= Start[m])
  OBVIOUS
<1>5. m # i + 1
  BY <1>1, <1>4
<1>6. m - 1 \in (i + 1)..(N + 1) /\ m - 1 \notin Bad /\ m - 1 \in 1..N /\ (m - 1) + 1 = m
  BY <1>0, <1>3, <1>4, <1>5
<1>7. Start[i] + HeaderLength <= Start[m - 1]
  BY <1>6
<1>8. Start[m - 1] + HeaderLength <= Start[m] /\ Start[m - 1] \in Nat /\ Start[m] \in Nat
  BY <1>1, <1>6
<1> QED BY <1>0, <1>1, <1>4, <1>7, <1>8

\* The starts as one increasing sequence; Length is the length of the message at
\* a start.
LEMMA StartsAre ==
    ASSUME lengths \in Streams
    PROVE  /\ \A i \in 1..(N + 1) : Start[i] \in Nat /\ Start[i] >= 1
           /\ \A i, j \in 1..(N + 1) : i < j <=> Start[i] < Start[j]
           /\ Starts \in [1..N -> Nat] /\ \A i \in 1..N : Starts[i] = Start[i]
           /\ \A m : m \in ToSet(Starts) <=> \E i \in 1..N : m = Start[i]
           /\ \A i \in 1..N : Length(Start[i]) = lengths[i]
<1>0. N \in Nat \ {0} /\ HeaderLength \in Nat \ {0} /\ DOMAIN lengths = 1..N
  BY StreamIs
<1>1. Start \in [1..(N + 1) -> Nat] /\ Start[1] = 1
  BY StartIs
<1>2. \A i, j \in 1..(N + 1) : i < j => Start[i] < Start[j]
  <2>1. ASSUME NEW i \in 1..(N + 1), NEW j \in 1..(N + 1), i < j PROVE Start[i] < Start[j]
    <3>1. i \in 1..N
      BY <1>0, <2>1
    <3>2. Start[i] + HeaderLength <= Start[j] /\ Start[i] \in Nat /\ Start[j] \in Nat
      BY <1>1, <2>1, <3>1, StartGrows
    <3> QED BY <1>0, <3>2
  <2> QED BY <2>1
<1>3. \A i, j \in 1..(N + 1) : i < j <=> Start[i] < Start[j]
  <2>1. ASSUME NEW i \in 1..(N + 1), NEW j \in 1..(N + 1), Start[i] < Start[j] PROVE i < j
    <3>1. Start[i] \in Nat /\ Start[j] \in Nat /\ i \in Nat /\ j \in Nat
      BY <1>0, <1>1
    <3>2. i # j /\ ~(j < i)
      BY <1>2, <2>1, <3>1
    <3> QED BY <3>1, <3>2
  <2> QED BY <1>2, <2>1
<1>4. \A i \in 1..(N + 1) : Start[i] \in Nat /\ Start[i] >= 1
  <2>1. ASSUME NEW i \in 1..(N + 1) PROVE Start[i] \in Nat /\ Start[i] >= 1
    <3>1. 1 \in 1..(N + 1) /\ (i = 1 \/ 1 < i)
      BY <1>0
    <3>2. Start[i] \in Nat /\ (i = 1 \/ Start[1] < Start[i])
      BY <1>1, <1>2, <3>1
    <3> QED BY <1>1, <3>2
  <2> QED BY <2>1
<1>5. Starts = [n \in 1..N |-> Start[n]]
  BY <1>0 DEF Starts
<1>6. \A i \in 1..N : i \in 1..(N + 1)
  BY <1>0
<1>7. Starts \in [1..N -> Nat] /\ (\A i \in 1..N : Starts[i] = Start[i]) /\ DOMAIN Starts = 1..N
  BY <1>4, <1>5, <1>6
<1>8. \A m : m \in ToSet(Starts) <=> \E i \in 1..N : m = Start[i]
  BY <1>7 DEF ToSet
<1>9. ASSUME NEW i \in 1..N PROVE Length(Start[i]) = lengths[i]
  <2>1. \A n \in 1..N : Start[n] = Start[i] => n = i
    <3>1. ASSUME NEW n \in 1..N, Start[n] = Start[i] PROVE n = i
      <4>1. n \in Nat /\ i \in Nat /\ ~(Start[n] < Start[i]) /\ ~(Start[i] < Start[n])
        BY <1>0, <1>4, <1>6, <3>1
      <4>2. ~(n < i) /\ ~(i < n)
        BY <1>2, <1>6, <4>1
      <4> QED BY <4>1, <4>2
    <3> QED BY <3>1
  <2>2. (CHOOSE n \in 1..N : Start[n] = Start[i]) = i
    BY <2>1
  <2> QED BY <1>0, <2>2 DEF Length
<1> QED BY <1>3, <1>4, <1>7, <1>8, <1>9

\* How many messages are complete among the first n bytes: those that end there.
LEMMA CompletedIs ==
    ASSUME lengths \in Streams, NEW n \in Nat
    PROVE  /\ Completed(n) \in 0..N /\ Start[Completed(n) + 1] <= n + 1
           /\ \A i \in 0..N : Start[i + 1] <= n + 1 <=> i <= Completed(n)
<1> DEFINE S == {0} \cup {i \in DOMAIN lengths : Start[i + 1] <= n + 1}
<1>0. N \in Nat \ {0} /\ DOMAIN lengths = 1..N
  BY StreamIs
<1>1. Start[1] = 1
  BY StartIs
<1>2. S \in SUBSET (0..N) /\ S # {} /\ \A i \in 0..N : i \in S <=> Start[i + 1] <= n + 1
  <2>1. S \in SUBSET (0..N) /\ 0 \in S /\ Start[0 + 1] <= n + 1
    BY <1>0, <1>1
  <2>2. \A i \in 0..N : i # 0 => (i \in S <=> Start[i + 1] <= n + 1)
    BY <1>0
  <2> QED BY <2>1, <2>2
<1>3. Completed(n) = Max(S)
  BY DEF Completed
<1> HIDE DEF S
<1>4. Max(S) \in S /\ \A i \in S : i <= Max(S)
  <2>1. S \in SUBSET Nat /\ \A i \in S : i <= N
    BY <1>0, <1>2
  <2> QED BY <1>0, <1>2, <2>1, MaxIs
<1>5. ASSUME NEW i \in 0..N, i <= Max(S) PROVE Start[i + 1] <= n + 1
  <2>1. Max(S) \in 0..N /\ Start[Max(S) + 1] <= n + 1
    BY <1>2, <1>4
  <2>2. i + 1 \in 1..(N + 1) /\ Max(S) + 1 \in 1..(N + 1)
    BY <1>0, <2>1
  <2>3. Start[i + 1] \in Nat /\ Start[Max(S) + 1] \in Nat
    BY <2>2, StartsAre
  <2>4. i = Max(S) \/ Start[i + 1] < Start[Max(S) + 1]
    <3>1. i = Max(S) \/ i + 1 < Max(S) + 1
      BY <1>0, <1>5, <2>1
    <3> QED BY <2>2, <3>1, StartsAre
  <2> QED BY <2>1, <2>3, <2>4
<1> QED BY <1>2, <1>3, <1>4, <1>5

LEMMA CompletedAre ==
    ASSUME lengths \in Streams, NEW n \in Nat, NEW k \in 0..N, Start[k + 1] <= n + 1,
           k # N => n + 1 < Start[k + 2]
    PROVE  Completed(n) = k
<1>0. N \in Nat \ {0}
  BY StreamIs
<1>1. /\ Completed(n) \in 0..N
      /\ \A i \in 0..N : Start[i + 1] <= n + 1 <=> i <= Completed(n)
  BY CompletedIs
<1>2. k <= Completed(n)
  BY <1>1
<1>3. CASE k = N
  BY <1>0, <1>1, <1>2, <1>3
<1>4. CASE k # N
  <2>1. k + 1 \in 0..N /\ (k + 1) + 1 = k + 2 /\ k + 2 \in 1..(N + 1)
    BY <1>0, <1>4
  <2>2. Start[k + 2] \in Nat
    BY <2>1, StartsAre
  <2>3. ~(Start[(k + 1) + 1] <= n + 1)
    BY <1>4, <2>1, <2>2
  <2> QED BY <1>0, <1>1, <1>2, <2>1, <2>3
<1> QED BY <1>3, <1>4
-----------------------------------------------------------------------------
\* mergeBuffer

IsBuffer(b) ==
    /\ b = [byteLength |-> b.byteLength, byte |-> b.byte] /\ b.byteLength \in Nat
    /\ b.byte = [o \in 0..(b.byteLength - 1) |-> b.byte[o]]

LEMMA EmptyIsBuffer == IsBuffer(emptyBuffer) /\ emptyBuffer.byteLength = 0
<1>1. <<>> = [o \in 0..(0 - 1) |-> <<>>[o]]
  OBVIOUS
<1> QED BY <1>1 DEF emptyBuffer, IsBuffer

\* What a copy is, of bytes of a source to a target.
Copies(c, source, from, length, target, to) ==
    /\ IsBuffer(c) /\ c.byteLength = target.byteLength
    /\ \A o \in 0..(target.byteLength - 1) :
          c.byte[o] = IF o \in to..(to + length - 1) THEN source.byte[from + o - to]
                      ELSE target.byte[o]

LEMMA CopyIs ==
    ASSUME NEW source, NEW from, NEW length, NEW target, NEW to, IsBuffer(target)
    PROVE  Copies(Copy(source, from, length, target, to), source, from, length, target, to)
<1> DEFINE D == 0..(target.byteLength - 1)
           bytes == [o \in D |-> IF o \in to..(to + length - 1) THEN source.byte[from + o - to]
                                 ELSE target.byte[o]]
<1>1. DOMAIN target.byte = D
  BY DEF IsBuffer
<1>2. Copy(source, from, length, target, to) = [byteLength |-> target.byteLength, byte |-> bytes]
  <2>1. Copy(source, from, length, target, to) = [target EXCEPT !.byte = bytes]
    BY <1>1 DEF Copy
  <2>2. target = [byteLength |-> target.byteLength, byte |-> target.byte]
    BY DEF IsBuffer
  <2> HIDE DEF bytes
  <2> QED BY <2>1, <2>2
<1> QED BY <1>2 DEF IsBuffer, Copies

LEMMA AllocatedIs ==
    ASSUME NEW size \in Nat
    PROVE  IsBuffer(Allocated(size)) /\ Allocated(size).byteLength = size
  BY DEF Allocated, IsBuffer

LEMMA ChunkIs ==
    ASSUME NEW n \in Nat
    PROVE  /\ IsBuffer(Chunk(n)) /\ Chunk(n).byteLength = n
           /\ \A o \in 0..(n - 1) : Chunk(n).byte[o] = received + 1 + o
  BY DEF Chunk, IsBuffer

\* The equation of the doubled sizes, from m on.
Grows(m, top, needed, f) ==
    \A d \in m..top : f[d] = IF needed >= d THEN f[d * 2] ELSE d

LEMMA SomeGrows ==
    ASSUME NEW needed \in Nat, NEW top \in Nat, top >= 2 * needed, top >= 1
    PROVE  \E f \in [1..top -> Nat] : Grows(1, top, needed, f)
<1> DEFINE Bad == {m \in 1..top : ~\E f \in [m..top -> Nat] : Grows(m, top, needed, f)}
<1>1. SUFFICES ASSUME Bad # {} PROVE FALSE
  OBVIOUS
<1>2. PICK m \in Bad : \A n \in Bad : n <= m
  <2>1. Bad \in SUBSET Nat /\ \A x \in Bad : x <= top
    OBVIOUS
  <2> HIDE DEF Bad
  <2> QED BY <1>1, <2>1, GreatestOf
<1>3. m \in 1..top /\ ~\E f \in [m..top -> Nat] : Grows(m, top, needed, f)
  OBVIOUS
<1>4. m <= needed
  <2>1. SUFFICES ASSUME ~(m <= needed) PROVE FALSE
    OBVIOUS
  <2>2. [d \in m..top |-> d] \in [m..top -> Nat] /\ Grows(m, top, needed, [d \in m..top |-> d])
    BY <1>3, <2>1 DEF Grows
  <2> QED BY <1>3, <2>2
<1>5. m + 1 \in 1..top /\ m + 1 \notin Bad
  BY <1>2, <1>3, <1>4
<1>6. PICK f \in [(m + 1)..top -> Nat] : Grows(m + 1, top, needed, f)
  BY <1>5
<1> DEFINE g == [d \in m..top |-> IF d = m THEN f[m * 2] ELSE f[d]]
<1>7. m * 2 \in (m + 1)..top
  BY <1>3, <1>4
<1>8. g \in [m..top -> Nat]
  <2>1. \A d \in m..top : d # m => d \in (m + 1)..top
    BY <1>3
  <2> QED BY <1>6, <1>7, <2>1
<1>9. Grows(m, top, needed, g)
  <2> SUFFICES ASSUME NEW d \in m..top
               PROVE  g[d] = IF needed >= d THEN g[d * 2] ELSE d
    BY DEF Grows
  <2>1. CASE d = m
    BY <1>3, <1>4, <1>7, <2>1
  <2>2. CASE d # m
    <3>1. d \in (m + 1)..top /\ (needed >= d => d * 2 \in m..top /\ d * 2 # m)
      BY <1>3, <2>2
    <3>2. f[d] = IF needed >= d THEN f[d * 2] ELSE d
      BY <1>6, <3>1 DEF Grows
    <3> QED BY <2>2, <3>1, <3>2
  <2> QED BY <2>1, <2>2
<1> QED BY <1>3, <1>8, <1>9

\* The doubled size is larger than what is needed, and not more than twice of it
\* unless one doubling was enough.
LEMMA DoubledIs ==
    ASSUME NEW size \in Nat \ {0}, NEW needed \in Nat
    PROVE  /\ Doubled(size, needed) \in Nat /\ Doubled(size, needed) > needed
           /\ Doubled(size, needed) = size * 2 \/ Doubled(size, needed) <= 2 * needed
<1> DEFINE top == 2 * (size + needed)
           grown == CHOOSE f : f = [d \in 1..top |-> IF needed >= d THEN f[d * 2] ELSE d]
<1>1. top \in Nat /\ top >= 2 * needed /\ top >= 1 /\ size * 2 \in 1..top
  OBVIOUS
<1> HIDE DEF top
<1>2. PICK f \in [1..top -> Nat] : Grows(1, top, needed, f)
  BY <1>1, SomeGrows
<1>3. f = [d \in 1..top |-> IF needed >= d THEN f[d * 2] ELSE d]
  BY <1>2 DEF Grows
<1>4. grown = [d \in 1..top |-> IF needed >= d THEN grown[d * 2] ELSE d]
  BY <1>3
<1>5. Doubled(size, needed) = grown[size * 2]
  BY DEF Doubled, top
<1> HIDE DEF grown
<1> DEFINE Fits(d) == grown[d] \in Nat /\ grown[d] > needed /\ (grown[d] = d \/ grown[d] <= 2 * needed)
           Bad == {d \in 1..top : ~Fits(d)}
<1>6. Bad = {}
  <2>1. SUFFICES ASSUME Bad # {} PROVE FALSE
    OBVIOUS
  <2>2. PICK m \in Bad : \A n \in Bad : n <= m
    <3>1. Bad \in SUBSET Nat /\ \A x \in Bad : x <= top
      BY <1>1
    <3> HIDE DEF Bad
    <3> QED BY <1>1, <2>1, <3>1, GreatestOf
  <2>3. m \in 1..top /\ ~Fits(m) /\ m \in Nat
    OBVIOUS
  <2>4. needed >= m
    <3>1. ~(needed >= m) => grown[m] = m
      BY <1>4, <2>3
    <3> QED BY <2>3, <3>1
  <2>5. m * 2 \in 1..top /\ m * 2 \notin Bad
    BY <1>1, <2>2, <2>3, <2>4
  <2>6. grown[m] = grown[m * 2] /\ Fits(m * 2)
    BY <1>4, <2>3, <2>4, <2>5
  <2> QED BY <2>3, <2>4, <2>6
<1>7. Fits(size * 2)
  BY <1>1, <1>6
<1> QED BY <1>5, <1>7
\* What is kept of the stream: the last bufferLength of the bytes received.
Held ==
    /\ IsBuffer(buffer) /\ received \in Nat /\ bufferOffset \in Nat /\ bufferLength \in 0..received
    /\ bufferOffset + bufferLength <= buffer.byteLength
    /\ RestKept

\* A buffer has the l bytes of the stream from position p on at offset o.
Has(b, o, l, p) ==
    /\ IsBuffer(b) /\ o \in Nat /\ o + l <= b.byteLength
    /\ \A i \in 0..(l - 1) : b.byte[o + i] = p + i

First == received - bufferLength + 1

\* Moving keeps the rest, and makes room.
LEMMA MovedIs ==
    ASSUME Held, bufferLength > 0, NEW needed \in Nat, needed > bufferLength,
           needed + bufferOffset > buffer.byteLength
    PROVE  /\ Has(Moved(needed), 0, bufferLength, First) /\ needed <= Moved(needed).byteLength
           /\ \/ Moved(needed).byteLength = buffer.byteLength
              \/ Moved(needed).byteLength <= 4 * needed
<1> DEFINE size == Doubled(buffer.byteLength, needed)
           target == IF Reuses(needed) THEN buffer ELSE Allocated(size)
<1>1. buffer.byteLength \in Nat \ {0} /\ bufferLength \in Nat /\ bufferOffset \in Nat
  BY DEF Held, IsBuffer
<1>2. size \in Nat /\ size > needed /\ (size = buffer.byteLength * 2 \/ size <= 2 * needed)
  BY <1>1, DoubledIs
<1>3. ~Reuses(needed) => size <= 4 * needed
  <2> HIDE DEF size
  <2>1. CASE size <= 2 * needed
    BY <1>1, <1>2, <2>1
  <2>2. CASE size = buffer.byteLength * 2
    BY <1>1, <1>2, <2>2 DEF Reuses
  <2> QED BY <1>2, <2>1, <2>2
<1>4. /\ IsBuffer(target) /\ needed <= target.byteLength
      /\ target.byteLength = buffer.byteLength \/ target.byteLength <= 4 * needed
  <2> HIDE DEF size
  <2>1. CASE Reuses(needed)
    BY <2>1 DEF Reuses, Held
  <2>2. CASE ~Reuses(needed)
    BY <1>2, <1>3, <2>2, AllocatedIs
  <2> QED BY <2>1, <2>2
<1>5. Moved(needed) = Copy(buffer, bufferOffset, bufferLength, target, 0)
  BY DEF Moved
<1> HIDE DEF target
<1>6. Copies(Moved(needed), buffer, bufferOffset, bufferLength, target, 0)
  BY <1>4, <1>5, CopyIs
<1>7. ASSUME NEW i \in 0..(bufferLength - 1) PROVE Moved(needed).byte[0 + i] = First + i
  <2>1. i \in 0..(target.byteLength - 1) /\ target.byteLength \in Nat
    BY <1>1, <1>4 DEF IsBuffer
  <2>2. Moved(needed).byte[i] = buffer.byte[bufferOffset + i]
    BY <1>1, <1>6, <2>1 DEF Copies
  <2>3. buffer.byte[bufferOffset + i] = First + i
    BY DEF Held, RestKept, First
  <2> QED BY <2>2, <2>3
<1>8. 0 + bufferLength <= Moved(needed).byteLength
  BY <1>1, <1>4, <1>6 DEF IsBuffer, Copies
<1> QED BY <1>4, <1>6, <1>7, <1>8 DEF Has, Copies

\* Appending a chunk behind the rest.
LEMMA AppendedIs ==
    ASSUME Held, NEW n \in Nat \ {0}, NEW base, NEW offset \in Nat,
           Has(base, offset, bufferLength, First), offset + bufferLength + n <= base.byteLength
    PROVE  /\ Has(Copy(Chunk(n), 0, n, base, offset + bufferLength), offset, bufferLength + n, First)
           /\ Copy(Chunk(n), 0, n, base, offset + bufferLength).byteLength = base.byteLength
<1> DEFINE to == offset + bufferLength
           made == Copy(Chunk(n), 0, n, base, to)
<1>1. bufferLength \in Nat /\ to \in Nat /\ base.byteLength \in Nat /\ received \in Nat
  BY DEF Held, Has, IsBuffer
<1>2. Copies(made, Chunk(n), 0, n, base, to)
  BY CopyIs DEF Has
<1> HIDE DEF made
<1>3. ASSUME NEW i \in 0..(bufferLength + n - 1) PROVE made.byte[offset + i] = First + i
  <2>1. offset + i \in 0..(base.byteLength - 1) /\ i \in Nat
    BY <1>1
  <2>2. CASE i < bufferLength
    <3>1. offset + i \notin to..(to + n - 1) /\ i \in 0..(bufferLength - 1)
      BY <1>1, <2>2
    <3>2. made.byte[offset + i] = base.byte[offset + i]
      BY <1>2, <2>1, <3>1 DEF Copies
    <3>3. base.byte[offset + i] = First + i
      BY <3>1 DEF Has
    <3> QED BY <3>2, <3>3
  <2>3. CASE ~(i < bufferLength)
    <3>1. offset + i \in to..(to + n - 1) /\ i - bufferLength \in 0..(n - 1)
      BY <1>1, <2>3
    <3>2. 0 + (offset + i) - to = i - bufferLength
      BY <1>1, <2>1
    <3>3. made.byte[offset + i] = Chunk(n).byte[i - bufferLength]
      BY <1>2, <2>1, <3>1, <3>2 DEF Copies
    <3>4. Chunk(n).byte[i - bufferLength] = received + 1 + (i - bufferLength)
      BY <3>1, ChunkIs
    <3>5. received + 1 + (i - bufferLength) = First + i
      BY <1>1, <2>1 DEF First
    <3> QED BY <3>3, <3>4, <3>5
  <2> QED BY <2>2, <2>3
<1>4. offset + (bufferLength + n) <= made.byteLength
  BY <1>1, <1>2 DEF Copies
<1>5. Has(made, offset, bufferLength + n, First) /\ made.byteLength = base.byteLength
  <2>1. IsBuffer(made) /\ made.byteLength = base.byteLength
    BY <1>2 DEF Copies
  <2>2. \A i \in 0..((bufferLength + n) - 1) : made.byte[offset + i] = First + i
    BY <1>1, <1>3
  <2> QED BY <1>4, <2>1, <2>2 DEF Has
<1> QED BY <1>5 DEF made

LEMMA MergedIs ==
    ASSUME Held, NEW n \in Nat \ {0}
    PROVE  /\ Has(Merged(n).buffer, Merged(n).offset, bufferLength + n, First)
           /\ Merged(n).length = bufferLength + n
           /\ \/ Merged(n).buffer.byteLength = buffer.byteLength
              \/ Merged(n).buffer.byteLength <= 4 * (bufferLength + n)
<1>1. bufferLength \in Nat /\ received \in Nat /\ bufferOffset \in Nat /\ buffer.byteLength \in Nat
  BY DEF Held, IsBuffer
<1>2. CASE bufferLength = 0
  <2>1. Merged(n).buffer = Chunk(n) /\ Merged(n).offset = 0 /\ Merged(n).length = n
    BY <1>2 DEF Merged
  <2>2. Has(Chunk(n), 0, n, First)
    BY <1>1, <1>2, ChunkIs DEF Has, First
  <2>3. n <= 4 * n /\ Chunk(n).byteLength = n /\ bufferLength + n = n
    BY <1>2, ChunkIs
  <2> QED BY <2>1, <2>2, <2>3
<1>3. CASE bufferLength # 0
  <2> DEFINE needed == bufferLength + n
             moves == needed + bufferOffset > buffer.byteLength
             base == IF moves THEN Moved(needed) ELSE buffer
             offset == IF moves THEN 0 ELSE bufferOffset
  <2>1. /\ Merged(n).buffer = Copy(Chunk(n), 0, n, base, offset + bufferLength)
        /\ Merged(n).offset = offset /\ Merged(n).length = needed
    BY <1>3 DEF Merged
  <2>2. /\ Has(base, offset, bufferLength, First) /\ offset \in Nat
        /\ offset + bufferLength + n <= base.byteLength
        /\ base.byteLength = buffer.byteLength \/ base.byteLength <= 4 * needed
    <3>1. CASE moves
      <4>1. needed \in Nat /\ needed > bufferLength /\ bufferLength > 0
        BY <1>1, <1>3
      <4>2. /\ Has(Moved(needed), 0, bufferLength, First) /\ needed <= Moved(needed).byteLength
            /\ Moved(needed).byteLength = buffer.byteLength \/ Moved(needed).byteLength <= 4 * needed
        BY <3>1, <4>1, MovedIs
      <4>3. base = Moved(needed) /\ offset = 0 /\ offset + bufferLength + n = needed
        BY <1>1, <3>1
      <4> HIDE DEF base, offset, needed
      <4> QED BY <4>2, <4>3
    <3>2. CASE ~moves
      <4>1. Has(buffer, bufferOffset, bufferLength, First)
        BY DEF Held, Has, RestKept, First
      <4>2. bufferOffset + bufferLength + n <= buffer.byteLength
        BY <1>1, <3>2
      <4> QED BY <1>1, <3>2, <4>1, <4>2
    <3> QED BY <3>1, <3>2
  <2> HIDE DEF base, offset
  <2>3. /\ Has(Merged(n).buffer, offset, needed, First)
        /\ Merged(n).buffer.byteLength = base.byteLength
    BY <2>1, <2>2, AppendedIs
  <2> QED BY <2>1, <2>2, <2>3
<1> QED BY <1>2, <1>3
-----------------------------------------------------------------------------
\* parse

LEMMA FullLengthIs ==
    ASSUME lengths \in Streams, NEW b, NEW o
    PROVE  FullLength(HeaderAt(b, o)) \in Nat \ {0}
<1> DEFINE m == HeaderAt(b, o)
<1> SUFFICES FullLength(m) \in Nat \ {0}
  OBVIOUS
<1>1. m = Junk \/ m \in ToSet(Starts)
  BY DEF HeaderAt
<1>2. HeaderLength \in Nat \ {0} /\ \A i \in 1..N : lengths[i] \in Nat /\ lengths[i] >= HeaderLength
  BY StreamIs
<1> HIDE DEF m
<1>3. CASE m = Junk
  BY <1>2, <1>3 DEF FullLength
<1>4. CASE m # Junk
  <2>1. PICK i \in 1..N : m = Start[i]
    BY <1>1, <1>4, StartsAre
  <2>2. FullLength(m) = lengths[i]
    BY <1>4, <2>1, StartsAre DEF FullLength
  <2> QED BY <1>2, <2>2
<1> QED BY <1>3, <1>4

\* The header of a message tells its length, when all of it is there.
LEMMA HeaderIs ==
    ASSUME lengths \in Streams, NEW b, NEW o \in Nat, NEW l \in Nat, NEW p \in Nat, Has(b, o, l, p),
           NEW m \in 1..N, Start[m] >= p, Start[m] - p + HeaderLength <= l,
           NEW at, at = o + (Start[m] - p)
    PROVE  HeaderAt(b, at) = Start[m] /\ FullLength(HeaderAt(b, at)) = lengths[m]
<1>0. N \in Nat /\ HeaderLength \in Nat \ {0}
  BY StreamIs
<1>1. m \in 1..(N + 1)
  BY <1>0
<1>2. Start[m] \in Nat /\ Start[m] >= 1 /\ Start[m] \in ToSet(Starts) /\ Length(Start[m]) = lengths[m]
  BY <1>1, StartsAre
<1>3. ASSUME NEW i \in 0..(HeaderLength - 1) PROVE b.byte[at + i] = Start[m] + i
  <2> DEFINE d == Start[m] - p + i
  <2>1. d \in 0..(l - 1) /\ at + i = o + d /\ p + d = Start[m] + i
    BY <1>0, <1>2
  <2>2. b.byte[o + d] = p + d
    BY <2>1 DEF Has
  <2> QED BY <2>1, <2>2
<1>4. b.byte[at] = Start[m]
  <2>1. 0 \in 0..(HeaderLength - 1) /\ at + 0 = at /\ Start[m] + 0 = Start[m]
    BY <1>0, <1>2
  <2>2. b.byte[at + 0] = Start[m] + 0
    BY <1>3, <2>1
  <2> QED BY <2>1, <2>2
<1>5. HeaderAt(b, at) = Start[m]
  BY <1>2, <1>3, <1>4 DEF HeaderAt
<1>6. FullLength(Start[m]) = lengths[m]
  BY <1>2 DEF FullLength, Junk
<1> QED BY <1>5, <1>6

\* The equation of the messages of a buffer, from offset m on.
Cut(full, b, f, o) ==
    LET l == FullLength(HeaderAt(b, o))
    IN IF o + HeaderLength > full \/ o + l > full THEN <<>> ELSE <<o>> \o f[o + l]
Cuts(m, full, b, f) == \A o \in m..full : f[o] = Cut(full, b, f, o)

LEMMA SomeCuts ==
    ASSUME lengths \in Streams, NEW b, NEW full \in Nat
    PROVE  \E f \in [0..full -> Seq(Nat)] : Cuts(0, full, b, f)
<1> DEFINE Bad == {m \in 0..full : ~\E f \in [m..full -> Seq(Nat)] : Cuts(m, full, b, f)}
<1>1. SUFFICES ASSUME Bad # {} PROVE FALSE
  OBVIOUS
<1>2. PICK m \in Bad : \A n \in Bad : n <= m
  <2>1. Bad \in SUBSET Nat /\ \A x \in Bad : x <= full
    OBVIOUS
  <2> HIDE DEF Bad
  <2> QED BY <1>1, <2>1, GreatestOf
<1>3. m \in 0..full /\ ~\E f \in [m..full -> Seq(Nat)] : Cuts(m, full, b, f)
  OBVIOUS
<1>4. PICK f : f \in [(m + 1)..full -> Seq(Nat)] /\ Cuts(m + 1, full, b, f)
  <2>1. CASE m = full
    <3>1. (m + 1)..full = {}
      BY <1>3, <2>1
    <3>2. [o \in (m + 1)..full |-> <<>>] \in [(m + 1)..full -> Seq(Nat)]
      BY <3>1
    <3>3. Cuts(m + 1, full, b, [o \in (m + 1)..full |-> <<>>])
      BY <3>1 DEF Cuts
    <3> QED BY <3>2, <3>3
  <2>2. CASE m # full
    <3>1. m + 1 \in 0..full /\ m + 1 \notin Bad
      BY <1>2, <1>3, <2>2
    <3> QED BY <3>1
  <2> QED BY <2>1, <2>2
<1> DEFINE l(o) == FullLength(HeaderAt(b, o))
           g == [o \in m..full |-> IF o = m THEN Cut(full, b, f, m) ELSE f[o]]
<1>5. \A o : l(o) \in Nat \ {0}
  BY FullLengthIs
<1>6. \A o \in m..full : ~(o + l(o) > full) => o + l(o) \in (m + 1)..full
  <2> HIDE DEF l
  <2> QED BY <1>3, <1>5
<1>7. g \in [m..full -> Seq(Nat)]
  <2>1. Cut(full, b, f, m) \in Seq(Nat)
    <3>1. <<>> \in Seq(Nat) /\ <<m>> \in Seq(Nat)
      BY <1>3
    <3>2. ~(m + l(m) > full) => f[m + l(m)] \in Seq(Nat)
      BY <1>3, <1>4, <1>6
    <3>3. ~(m + l(m) > full) => <<m>> \o f[m + l(m)] \in Seq(Nat)
      BY <3>1, <3>2, ConcatProperties
    <3> QED BY <3>1, <3>3 DEF Cut
  <2>2. \A o \in m..full : o # m => o \in (m + 1)..full
    BY <1>3
  <2> QED BY <1>4, <2>1, <2>2
<1>8. ASSUME NEW o \in m..full PROVE g[o] = Cut(full, b, g, o)
  <2>1. ~(o + l(o) > full) => g[o + l(o)] = f[o + l(o)]
    <3> SUFFICES ASSUME ~(o + l(o) > full) PROVE g[o + l(o)] = f[o + l(o)]
      OBVIOUS
    <3>1. o + l(o) \in (m + 1)..full
      BY <1>6
    <3>2. o + l(o) \in m..full /\ o + l(o) # m
      BY <1>3, <3>1
    <3> QED BY <3>2
  <2>2. Cut(full, b, g, o) = Cut(full, b, f, o)
    BY <2>1 DEF Cut
  <2>3. g[o] = Cut(full, b, f, o)
    <3>1. CASE o = m
      BY <3>1
    <3>2. CASE o # m
      <4>1. o \in (m + 1)..full
        BY <1>3, <3>2
      <4> QED BY <1>4, <3>2, <4>1 DEF Cuts
    <3> QED BY <3>1, <3>2
  <2> QED BY <2>2, <2>3
<1>9. Cuts(m, full, b, g)
  BY <1>8 DEF Cuts
<1> QED BY <1>3, <1>7, <1>9

\* The offsets that parse finds are those of one function that satisfies the
\* equation.
LEMMA ParsedBy ==
    ASSUME lengths \in Streams, NEW merged, merged.offset \in Nat, merged.length \in Nat
    PROVE  \E f : /\ Parsed(merged) = f[merged.offset]
                  /\ Cuts(0, merged.offset + merged.length, merged.buffer, f)
<1> DEFINE full == merged.offset + merged.length
           from == CHOOSE f : f = [o \in 0..full |->
                       IF o + HeaderLength > full THEN <<>>
                       ELSE LET l == FullLength(HeaderAt(merged.buffer, o))
                            IN IF o + l > full THEN <<>> ELSE <<o>> \o f[o + l]]
<1>1. full \in Nat
  OBVIOUS
<1>2. Parsed(merged) = from[merged.offset]
  BY DEF Parsed
<1> HIDE DEF full
<1>3. PICK f \in [0..full -> Seq(Nat)] : Cuts(0, full, merged.buffer, f)
  BY <1>1, SomeCuts
<1>4. f = [o \in 0..full |-> IF o + HeaderLength > full THEN <<>>
                       ELSE LET l == FullLength(HeaderAt(merged.buffer, o))
                            IN IF o + l > full THEN <<>> ELSE <<o>> \o f[o + l]]
  BY <1>3 DEF Cuts, Cut
<1>5. from = [o \in 0..full |-> IF o + HeaderLength > full THEN <<>>
                       ELSE LET l == FullLength(HeaderAt(merged.buffer, o))
                            IN IF o + l > full THEN <<>> ELSE <<o>> \o from[o + l]]
  BY <1>4
<1> HIDE DEF from
<1>6. Cuts(0, full, merged.buffer, from)
  BY <1>5 DEF Cuts, Cut
<1> QED BY <1>2, <1>6 DEF full
\* The messages that parse finds in a buffer that begins with message k + 1: all
\* that are complete among the bytes up to its end.
LEMMA ParsedIs ==
    ASSUME lengths \in Streams, NEW merged, NEW k \in 0..N, merged.length \in Nat,
           Has(merged.buffer, merged.offset, merged.length, Start[k + 1]),
           NEW end \in Nat, end = Start[k + 1] + merged.length - 1, end <= Total
    PROVE  /\ Completed(end) \in k..N /\ Parsed(merged) \in Seq(Nat)
           /\ Len(Parsed(merged)) = Completed(end) - k
           /\ \A i \in 1..(Completed(end) - k) :
                 /\ Parsed(merged)[i] = merged.offset + (Start[k + i] - Start[k + 1])
                 /\ HeaderAt(merged.buffer, Parsed(merged)[i]) = Start[k + i]
<1> DEFINE b == merged.buffer
           full == merged.offset + merged.length
           p == Start[k + 1]
           j == Completed(end)
           At(m) == merged.offset + (Start[m + 1] - p)
<1>0. N \in Nat \ {0} /\ k + 1 \in 1..(N + 1) /\ HeaderLength \in Nat \ {0}
  BY StreamIs
<1>1. p \in Nat /\ p >= 1 /\ merged.offset \in Nat /\ full \in Nat
  BY <1>0, StartsAre DEF Has
<1>2. j \in 0..N /\ \A i \in 0..N : Start[i + 1] <= end + 1 <=> i <= j
  BY CompletedIs
<1>3. k <= j
  BY <1>1, <1>2
<1> HIDE DEF j
<1>4. ASSUME NEW m \in k..j
      PROVE  /\ m \in 0..N /\ Start[m + 1] \in Nat /\ p <= Start[m + 1] /\ Start[m + 1] <= end + 1
             /\ At(m) \in 0..full
  <2>1. m \in 0..N /\ m + 1 \in 1..(N + 1) /\ (k = m \/ k + 1 < m + 1)
    BY <1>0, <1>2, <1>3
  <2>2. Start[m + 1] \in Nat /\ (k = m \/ p < Start[m + 1])
    BY <1>0, <2>1, StartsAre
  <2>3. Start[m + 1] <= end + 1
    BY <1>2, <2>1
  <2> QED BY <1>1, <2>1, <2>2, <2>3
<1>5. PICK f : Parsed(merged) = f[merged.offset] /\ Cuts(0, full, b, f)
  BY <1>1, ParsedBy
<1> DEFINE Found(m) == /\ f[At(m)] \in Seq(Nat) /\ Len(f[At(m)]) = j - m
                       /\ \A i \in 1..(j - m) : f[At(m)][i] = At(m + (i - 1))
\* A message that begins in the buffer ends where the next one begins.
<1>6. ASSUME NEW m \in k..j, m # N, At(m) + HeaderLength <= full
      PROVE  /\ HeaderAt(b, At(m)) = Start[m + 1]
             /\ At(m) + FullLength(HeaderAt(b, At(m))) = At(m + 1)
  <2>1. m + 1 \in 1..N
    BY <1>0, <1>4, <1>6
  <2>2. Start[m + 1] - p + HeaderLength <= merged.length
    BY <1>0, <1>1, <1>4, <1>6
  <2>3. /\ HeaderAt(b, At(m)) = Start[m + 1]
        /\ FullLength(HeaderAt(b, At(m))) = lengths[m + 1]
    <3> DEFINE q == m + 1
               o == merged.offset
               l == merged.length
               at == At(m)
    <3>1. /\ Has(b, o, l, p) /\ o \in Nat /\ l \in Nat /\ p \in Nat
          /\ q \in 1..N /\ Start[q] >= p /\ Start[q] - p + HeaderLength <= l
          /\ at = o + (Start[q] - p)
      BY <1>1, <1>4, <2>1, <2>2
    <3> HIDE DEF b, p, q, o, l, at
    <3>2. HeaderAt(b, at) = Start[q] /\ FullLength(HeaderAt(b, at)) = lengths[q]
      BY <3>1, HeaderIs
    <3> QED BY <3>2 DEF q, at
  <2>4. Start[(m + 1) + 1] = Start[m + 1] + lengths[m + 1] /\ lengths[m + 1] \in Nat
    BY <2>1, StartIs, StreamIs
  <2> QED BY <1>1, <1>4, <2>3, <2>4
<1>7. Found(j)
  <2>1. j \in k..j /\ At(j) \in 0..full
    BY <1>2, <1>3, <1>4
  <2>2. Cut(full, b, f, At(j)) = <<>>
    <3>1. CASE j = N
      <4>1. Start[N + 1] = end + 1
        BY <1>4, <2>1, <3>1 DEF Total, N
      <4>2. At(j) = full
        BY <1>1, <3>1, <4>1
      <4> QED BY <1>1, <4>2, StreamIs DEF Cut
    <3>2. CASE j # N
      <4>1. j + 1 \in 0..N /\ ~(j + 1 <= j)
        BY <1>0, <1>2, <3>2
      <4>2. ~(Start[(j + 1) + 1] <= end + 1) /\ (j + 1) + 1 \in 1..(N + 1)
        BY <1>0, <1>2, <4>1
      <4>3. Start[(j + 1) + 1] \in Nat
        BY <4>2, StartsAre
      <4>4. At(j + 1) > full
        BY <1>1, <4>2, <4>3
      <4>5. ~(At(j) + HeaderLength > full) => At(j) + FullLength(HeaderAt(b, At(j))) = At(j + 1)
        BY <1>0, <1>1, <1>4, <1>6, <2>1, <3>2
      <4> QED BY <4>4, <4>5 DEF Cut
    <3> QED BY <3>1, <3>2
  <2>3. f[At(j)] = <<>>
    BY <1>5, <2>1, <2>2 DEF Cuts
  <2>4. j - j = 0 /\ <<>> \in Seq(Nat) /\ Len(<<>>) = 0
    BY <1>2
  <2> QED BY <2>3, <2>4
<1>8. ASSUME NEW m \in k..j, m # j, Found(m + 1) PROVE Found(m)
  <2>1. m + 1 \in k..j /\ m # N /\ m \in 0..N
    BY <1>2, <1>3, <1>4, <1>8
  <2>2. At(m) \in 0..full /\ At(m + 1) \in 0..full
    BY <1>4, <2>1
  <2>3. At(m) + HeaderLength <= full
    <3>1. Start[m + 1] + HeaderLength <= Start[(m + 1) + 1]
      <4>1. m + 1 \in 1..N /\ (m + 1) + 1 \in 1..(N + 1) /\ m + 1 < (m + 1) + 1
        BY <1>0, <2>1
      <4> QED BY <4>1, StartGrows
    <3>2. Start[m + 1] \in Nat /\ Start[(m + 1) + 1] \in Nat
      BY <1>4, <2>1
    <3>3. At(m) + HeaderLength <= At(m + 1)
      BY <1>0, <1>1, <3>1, <3>2
    <3> QED BY <1>0, <1>1, <2>2, <3>3
  <2>4. At(m) + FullLength(HeaderAt(b, At(m))) = At(m + 1)
    BY <1>6, <2>1, <2>3
  <2> HIDE DEF At
  <2>5. f[At(m)] = <<At(m)>> \o f[At(m + 1)]
    <3>1. f[At(m)] = Cut(full, b, f, At(m))
      BY <1>5, <2>2 DEF Cuts
    <3>2. ~(At(m) + HeaderLength > full) /\ ~(At(m + 1) > full)
      BY <1>1, <2>2, <2>3, StreamIs
    <3> QED BY <2>4, <3>1, <3>2 DEF Cut
  <2>6. <<At(m)>> \in Seq(Nat) /\ Len(<<At(m)>>) = 1 /\ <<At(m)>>[1] = At(m)
    BY <2>2
  <2>7. /\ f[At(m)] \in Seq(Nat) /\ Len(f[At(m)]) = 1 + (j - (m + 1))
        /\ \A i \in 1..(1 + (j - (m + 1))) :
              f[At(m)][i] = IF i <= 1 THEN <<At(m)>>[i] ELSE f[At(m + 1)][i - 1]
    BY <1>8, <2>5, <2>6, ConcatProperties
  <2>8. 1 + (j - (m + 1)) = j - m
    BY <1>2, <2>1
  <2>9. ASSUME NEW i \in 1..(j - m) PROVE f[At(m)][i] = At(m + (i - 1))
    <3>1. CASE i = 1
      <4>1. m + (i - 1) = m
        BY <2>1, <3>1
      <4> QED BY <2>6, <2>7, <2>8, <3>1, <4>1
    <3>2. CASE i # 1
      <4>1. /\ i - 1 \in 1..(j - (m + 1)) /\ ~(i <= 1)
            /\ (m + 1) + ((i - 1) - 1) = m + (i - 1)
        BY <1>2, <2>1, <3>2
      <4>2. f[At(m + 1)][i - 1] = At((m + 1) + ((i - 1) - 1))
        BY <1>8, <4>1
      <4> QED BY <2>7, <2>8, <4>1, <4>2
    <3> QED BY <3>1, <3>2
  <2> QED BY <2>7, <2>8, <2>9
<1>9. Found(k)
  <2> HIDE DEF Found
  <2> DEFINE Bad == {m \in k..j : ~Found(m)}
  <2>1. SUFFICES ASSUME Bad # {} PROVE FALSE
    BY <1>2, <1>3
  <2>2. PICK m \in Bad : \A n \in Bad : n <= m
    <3>1. Bad \in SUBSET Nat /\ (\A x \in Bad : x <= j) /\ j \in Nat
      BY <1>2
    <3> HIDE DEF Bad
    <3> QED BY <2>1, <3>1, GreatestOf
  <2>3. m \in k..j /\ m # j /\ ~Found(m)
    BY <1>7
  <2>4. m + 1 \in k..j /\ m + 1 \notin Bad
    BY <1>2, <2>2, <2>3
  <2> QED BY <1>8, <2>3, <2>4
<1>10. At(k) = merged.offset
  BY <1>1
<1>11. /\ Parsed(merged) \in Seq(Nat) /\ Len(Parsed(merged)) = j - k
       /\ \A i \in 1..(j - k) : Parsed(merged)[i] = At(k + (i - 1))
  <2> HIDE DEF At
  <2> QED BY <1>5, <1>9, <1>10
<1>12. ASSUME NEW i \in 1..(j - k)
       PROVE  /\ Parsed(merged)[i] = merged.offset + (Start[k + i] - p)
              /\ HeaderAt(b, Parsed(merged)[i]) = Start[k + i]
  <2> DEFINE m == k + (i - 1)
  <2>1. m \in k..j /\ m + 1 \in k..j /\ m + 1 = k + i /\ m # N /\ m \in 0..N /\ k + i \in 1..N
    BY <1>0, <1>2, <1>3
  <2>2. Parsed(merged)[i] = At(m)
    BY <1>11
  <2>3. At(m) + HeaderLength <= full
    <3>1. (m + 1) + 1 \in 1..(N + 1) /\ m + 1 \in 1..N /\ m + 1 < (m + 1) + 1
      BY <1>0, <2>1
    <3>2. Start[m + 1] + HeaderLength <= Start[(m + 1) + 1]
      BY <3>1, StartGrows
    <3>3. At(m + 1) \in 0..full /\ Start[m + 1] \in Nat /\ Start[(m + 1) + 1] \in Nat
      BY <1>4, <2>1
    <3> HIDE DEF m
    <3>4. At(m) + HeaderLength <= At(m + 1)
      BY <1>1, <3>2, <3>3, StreamIs
    <3> QED BY <1>1, <3>3, <3>4, StreamIs
  <2>4. HeaderAt(b, At(m)) = Start[m + 1]
    <3> HIDE DEF m
    <3> QED BY <1>6, <2>1, <2>3
  <2> QED BY <2>1, <2>2, <2>4
<1> QED BY <1>2, <1>3, <1>11, <1>12 DEF j
-----------------------------------------------------------------------------
\* The inductive invariant.

\* The first k messages.
Upto(k) == {Start[i] : i \in 1..k}

\* What is kept begins with message k + 1.
Follows(k) ==
    /\ First = Start[k + 1]
    /\ throws = 0 => heard = SubSeq(Starts, 1, k)
    /\ Upto(k) \subseteq ToSet(heard)
    /\ ~thrown => k = Completed(received)

Longest == Max(ToSet(lengths))

Bounded == bufferLength <= Longest - 1 + throws * MaxChunk /\ BufferBounded

ParserTypes ==
    /\ lengths \in Streams /\ received \in 0..Total /\ heard \in Seq(Nat)
    /\ throws \in 0..MaxThrows /\ thrown \in BOOLEAN /\ (thrown => throws # 0)

ParserInv ==
    /\ ParserTypes /\ Held /\ Bounded
    /\ \E k \in 0..N : Follows(k)
    /\ ToSet(heard) \subseteq Upto(Completed(received))

-----------------------------------------------------------------------------
\* What the stream determines.

LEMMA SameStream ==
    ASSUME lengths' = lengths
    PROVE  /\ N' = N /\ Start' = Start /\ Starts' = Starts /\ Total' = Total /\ Longest' = Longest
           /\ \A k : Upto(k)' = Upto(k) /\ Completed(k)' = Completed(k)
<1>1. N' = N /\ Start' = Start
  BY SameStart DEF N
<1>2. Starts' = Starts /\ Total' = Total
  BY <1>1 DEF Starts, Total
<1>3. Longest' = Longest
  BY DEF Longest
<1>4. \A k : Upto(k)' = Upto(k) /\ Completed(k)' = Completed(k)
  BY <1>1 DEF Upto, Completed
<1> QED BY <1>1, <1>2, <1>3, <1>4

LEMMA TotalIs ==
    ASSUME lengths \in Streams
    PROVE  Total \in Nat /\ Start[N + 1] = Total + 1
<1>1. N + 1 \in 1..(N + 1) /\ Total = Start[N + 1] - 1
  BY StreamIs DEF Total, N
<1> QED BY <1>1, StartsAre

LEMMA LongestIs ==
    ASSUME lengths \in Streams
    PROVE  Longest \in Nat \ {0} /\ \A i \in 1..N : lengths[i] <= Longest
<1>0. /\ N \in Nat \ {0} /\ HeaderLength \in Nat \ {0} /\ DOMAIN lengths = 1..N
      /\ \A i \in 1..N : lengths[i] \in Nat /\ lengths[i] >= HeaderLength
  BY StreamIs
<1>1. ToSet(lengths) = {lengths[i] : i \in 1..N}
  BY <1>0 DEF ToSet
<1>2. \A i \in 1..N : lengths[i] <= Total + 1
  <2>1. ASSUME NEW i \in 1..N PROVE lengths[i] <= Total + 1
    <3>1. i \in 1..(N + 1) /\ i + 1 \in 1..(N + 1) /\ (i + 1 = N + 1 \/ i + 1 < N + 1)
          /\ N + 1 \in 1..(N + 1)
      BY <1>0
    <3>2. Start[i] \in Nat /\ Start[i + 1] \in Nat /\ Start[i + 1] = Start[i] + lengths[i]
      BY <3>1, StartsAre, StartIs
    <3>3. Start[i + 1] <= Total + 1
      <4>1. CASE i + 1 = N + 1
        BY <3>2, <4>1, TotalIs
      <4>2. CASE i + 1 < N + 1
        BY <3>1, <3>2, <4>2, TotalIs, StartsAre
      <4> QED BY <3>1, <4>1, <4>2
    <3> QED BY <1>0, <3>2, <3>3, TotalIs
  <2> QED BY <2>1
<1> DEFINE S == {lengths[i] : i \in 1..N}
<1>3. S \in SUBSET Nat /\ S # {} /\ (\A x \in S : x <= Total + 1) /\ lengths[1] \in S
  BY <1>0, <1>2
<1>4. Total + 1 \in Nat
  BY TotalIs
<1>5. Max(S) \in S /\ \A x \in S : x <= Max(S)
  <2> HIDE DEF S
  <2> QED BY <1>3, <1>4, MaxIs
<1>6. Longest = Max(S)
  BY <1>1 DEF Longest
<1>7. \A i \in 1..N : lengths[i] <= Longest
  BY <1>5, <1>6
<1>8. Longest \in Nat \ {0}
  <2>1. PICK i \in 1..N : Longest = lengths[i]
    BY <1>5, <1>6
  <2> QED BY <1>0, <2>1
<1> QED BY <1>7, <1>8

LEMMA PrefixIs ==
    ASSUME lengths \in Streams, NEW k \in 0..N
    PROVE  /\ SubSeq(Starts, 1, k) \in Seq(Nat) /\ Len(SubSeq(Starts, 1, k)) = k
           /\ \A i \in 1..k : SubSeq(Starts, 1, k)[i] = Start[i]
           /\ ToSet(SubSeq(Starts, 1, k)) = Upto(k)
<1> DEFINE s == SubSeq(Starts, 1, k)
<1>0. N \in Nat \ {0} /\ k \in Nat /\ k \in Int /\ 1 \in Int
  BY StreamIs
<1>1. \A i \in 1..k : i \in 1..N /\ Starts[i] = Start[i] /\ Starts[i] \in Nat
  <2>1. \A i \in 1..k : i \in 1..N
    BY <1>0
  <2> QED BY <2>1, StartsAre
<1>2. /\ s \in Seq(Nat) /\ Len(s) = (IF 1 <= k THEN k - 1 + 1 ELSE 0)
      /\ \A i \in 1..(k - 1 + 1) : s[i] = Starts[1 + i - 1]
  BY <1>0, <1>1, SubSeqProperties
<1> HIDE DEF s
<1>3. Len(s) = k /\ \A i \in 1..k : s[i] = Start[i]
  <2>1. k - 1 + 1 = k /\ (1 <= k \/ k = 0) /\ \A i \in 1..k : 1 + i - 1 = i
    BY <1>0
  <2> QED BY <1>1, <1>2, <2>1
<1>4. ToSet(s) = Upto(k)
  <2>1. DOMAIN s = 1..k
    BY <1>2, <1>3, LenProperties
  <2> QED BY <1>3, <2>1 DEF ToSet, Upto
<1> QED BY <1>2, <1>3, <1>4 DEF s

\* The first messages are among the first ones.
LEMMA UptoMore == ASSUME NEW j \in Nat, NEW k \in Nat, j <= k PROVE Upto(j) \subseteq Upto(k)
  BY DEF Upto
LEMMA UptoStarts == ASSUME lengths \in Streams, NEW k \in 0..N PROVE Upto(k) \subseteq ToSet(Starts)
<1>1. \A i \in 1..k : i \in 1..N
  BY StreamIs
<1> QED BY <1>1, StartsAre DEF Upto

\* More bytes, no fewer messages.
LEMMA CompletedGrows ==
    ASSUME lengths \in Streams, NEW m \in Nat, NEW n \in Nat, m <= n
    PROVE  Completed(m) <= Completed(n)
<1>1. Completed(m) \in 0..N /\ Start[Completed(m) + 1] <= m + 1 /\ N \in Nat
  BY CompletedIs, StreamIs
<1>2. Completed(m) + 1 \in 1..(N + 1)
  BY <1>1
<1>3. Start[Completed(m) + 1] \in Nat
  BY <1>2, StartsAre
<1>4. Start[Completed(m) + 1] <= n + 1
  BY <1>1, <1>3
<1> QED BY <1>1, <1>4, CompletedIs

-----------------------------------------------------------------------------
\* What a chunk adds.

\* The messages that parse finds in a chunk of n bytes behind the rest.
LEMMA ChunkFinds ==
    ASSUME lengths \in Streams, Held, NEW k \in 0..N, First = Start[k + 1],
           NEW n \in Nat \ {0}, received + n <= Total
    PROVE  /\ Completed(received + n) \in k..N
           /\ Parsed(Merged(n)) \in Seq(Nat)
           /\ Len(Parsed(Merged(n))) = Completed(received + n) - k
           /\ \A i \in 1..(Completed(received + n) - k) :
                 /\ Parsed(Merged(n))[i] = Merged(n).offset + (Start[k + i] - Start[k + 1])
                 /\ HeaderAt(Merged(n).buffer, Parsed(Merged(n))[i]) = Start[k + i]
<1> DEFINE merged == Merged(n)
           end == received + n
<1>1. received \in Nat /\ bufferLength \in Nat
  BY DEF Held
<1>2. /\ Has(merged.buffer, merged.offset, merged.length, Start[k + 1])
      /\ merged.length = bufferLength + n
  BY MergedIs
<1>3. end \in Nat /\ merged.length \in Nat /\ end = Start[k + 1] + merged.length - 1
  BY <1>1, <1>2 DEF First
<1> HIDE DEF merged, end
<1>4. /\ Completed(end) \in k..N /\ Parsed(merged) \in Seq(Nat)
      /\ Len(Parsed(merged)) = Completed(end) - k
      /\ \A i \in 1..(Completed(end) - k) :
            /\ Parsed(merged)[i] = merged.offset + (Start[k + i] - Start[k + 1])
            /\ HeaderAt(merged.buffer, Parsed(merged)[i]) = Start[k + i]
  <2>1. end <= Total
    BY DEF end
  <2> QED BY <1>2, <1>3, <2>1, ParsedIs
<1> QED BY <1>4 DEF merged, end

\* What the callback hears of them, when it is given the first c.
LEMMA HearsFound ==
    ASSUME ParserTypes, Held, NEW k \in 0..N, First = Start[k + 1],
           NEW n \in Nat \ {0}, received + n <= Total,
           NEW c \in 0..(Completed(received + n) - k), Hears(Merged(n), c)
    PROVE  /\ heard' \in Seq(Nat) /\ ToSet(heard') = ToSet(heard) \cup {Start[k + i] : i \in 1..c}
           /\ heard = SubSeq(Starts, 1, k) => heard' = SubSeq(Starts, 1, k + c)
<1> DEFINE s == [i \in 1..c |-> Start[k + i]]
<1>1. lengths \in Streams /\ heard \in Seq(Nat) /\ N \in Nat \ {0}
  BY StreamIs DEF ParserTypes
<1>2. Completed(received + n) \in k..N
  BY <1>1, ChunkFinds
<1>3. c \in Nat /\ k + c \in 0..N /\ k \in Nat /\ \A i \in 1..c : k + i \in 1..(N + 1)
  BY <1>1, <1>2
<1>4. [i \in 1..c |-> HeaderAt(Merged(n).buffer, Parsed(Merged(n))[i])] = s
  <2>1. \A i \in 1..c : i \in 1..(Completed(received + n) - k)
    BY <1>2
  <2>2. \A i \in 1..c : HeaderAt(Merged(n).buffer, Parsed(Merged(n))[i]) = Start[k + i]
    BY <1>1, <2>1, ChunkFinds
  <2> QED BY <2>2
<1>5. heard' = heard \o s
  BY <1>4 DEF Hears
<1>6. s \in Seq(Nat) /\ Len(s) = c /\ (\A i \in 1..c : s[i] = Start[k + i])
  <2>1. \A i \in 1..c : Start[k + i] \in Nat
    BY <1>1, <1>3, StartsAre
  <2>2. s \in [1..c -> Nat]
    BY <2>1
  <2>3. \A i \in 1..c : s[i] = Start[k + i]
    OBVIOUS
  <2> HIDE DEF s
  <2>4. s \in Seq(Nat) /\ Len(s) = c
    BY <1>3, <2>2, SeqDef
  <2> QED BY <2>3, <2>4
<1> HIDE DEF s
<1>7. /\ heard' \in Seq(Nat) /\ Len(heard') = Len(heard) + c /\ Len(heard) \in Nat
      /\ \A i \in 1..(Len(heard) + c) :
            heard'[i] = IF i <= Len(heard) THEN heard[i] ELSE s[i - Len(heard)]
  BY <1>1, <1>5, <1>6, ConcatProperties, LenProperties
<1>8. ToSet(heard') = ToSet(heard) \cup {Start[k + i] : i \in 1..c}
  <2>1. DOMAIN heard = 1..Len(heard) /\ DOMAIN heard' = 1..(Len(heard) + c)
    BY <1>1, <1>7, LenProperties
  <2>2. ASSUME NEW i \in DOMAIN heard'
        PROVE  heard'[i] \in ToSet(heard) \cup {Start[k + d] : d \in 1..c}
    <3>1. CASE i <= Len(heard)
      BY <1>7, <2>1, <3>1 DEF ToSet
    <3>2. CASE ~(i <= Len(heard))
      <4>1. i - Len(heard) \in 1..c
        BY <1>3, <1>7, <2>1, <3>2
      <4> QED BY <1>6, <1>7, <2>1, <3>2, <4>1
    <3> QED BY <3>1, <3>2
  <2>3. ASSUME NEW i \in DOMAIN heard PROVE heard[i] \in ToSet(heard')
    <3>1. i \in DOMAIN heard' /\ i <= Len(heard)
      BY <1>3, <1>7, <2>1
    <3> QED BY <1>7, <2>1, <3>1 DEF ToSet
  <2>4. ASSUME NEW d \in 1..c PROVE Start[k + d] \in ToSet(heard')
    <3>1. Len(heard) + d \in DOMAIN heard' /\ ~(Len(heard) + d <= Len(heard))
          /\ Len(heard) + d - Len(heard) = d
      BY <1>3, <1>7, <2>1
    <3>2. heard'[Len(heard) + d] = s[Len(heard) + d - Len(heard)]
      BY <1>7, <2>1, <3>1
    <3>3. heard'[Len(heard) + d] = Start[k + d]
      BY <1>6, <3>1, <3>2
    <3> QED BY <3>1, <3>3 DEF ToSet
  <2> QED BY <2>2, <2>3, <2>4 DEF ToSet
<1>9. ASSUME heard = SubSeq(Starts, 1, k) PROVE heard' = SubSeq(Starts, 1, k + c)
  <2> DEFINE t == SubSeq(Starts, 1, k + c)
  <2>1. Len(heard) = k /\ \A i \in 1..k : heard[i] = Start[i]
    BY <1>1, <1>9, PrefixIs
  <2>2. t \in Seq(Nat) /\ Len(t) = k + c /\ \A i \in 1..(k + c) : t[i] = Start[i]
    BY <1>1, <1>3, PrefixIs
  <2> HIDE DEF t
  <2>3. ASSUME NEW i \in 1..(k + c) PROVE heard'[i] = t[i]
    <3>1. CASE i <= k
      <4>1. i \in 1..k /\ i \in 1..(Len(heard) + c) /\ i <= Len(heard)
        BY <1>3, <2>1, <3>1
      <4>2. heard'[i] = heard[i]
        BY <1>7, <4>1
      <4> QED BY <2>1, <2>2, <4>1, <4>2
    <3>2. CASE ~(i <= k)
      <4>1. i - k \in 1..c /\ k + (i - k) = i
        BY <1>3, <3>2
      <4> QED BY <1>6, <1>7, <2>1, <2>2, <3>2, <4>1
    <3> QED BY <3>1, <3>2
  <2>4. Len(heard') = k + c
    BY <1>7, <2>1
  <2>5. heard' = t
    BY <1>7, <2>2, <2>3, <2>4, SeqEqual
  <2> QED BY <2>5 DEF t
<1> QED BY <1>7, <1>8, <1>9
\* Where parse stops: where the first message begins that is not complete.
LEMMA StopsAt ==
    ASSUME lengths \in Streams, Held, NEW k \in 0..N, First = Start[k + 1],
           NEW n \in Nat \ {0}, received + n <= Total
    PROVE  (IF Parsed(Merged(n)) = <<>> THEN Merged(n).offset
            ELSE Last(Parsed(Merged(n)))
                 + FullLength(HeaderAt(Merged(n).buffer, Last(Parsed(Merged(n))))))
           = Merged(n).offset + (Start[Completed(received + n) + 1] - Start[k + 1])
<1> DEFINE merged == Merged(n)
           s == Parsed(merged)
           j == Completed(received + n)
<1>1. /\ j \in k..N /\ s \in Seq(Nat) /\ Len(s) = j - k
      /\ \A i \in 1..(j - k) : /\ s[i] = merged.offset + (Start[k + i] - Start[k + 1])
                               /\ HeaderAt(merged.buffer, s[i]) = Start[k + i]
  BY ChunkFinds
<1>2. N \in Nat \ {0} /\ merged.offset \in Nat
  BY StreamIs, MergedIs DEF Has
<1>3. Start[k + 1] \in Nat /\ Start[j + 1] \in Nat
  <2>1. k + 1 \in 1..(N + 1) /\ j + 1 \in 1..(N + 1)
    BY <1>1, <1>2
  <2> QED BY <2>1, StartsAre
<1> HIDE DEF merged, s, j
<1>4. CASE s = <<>>
  <2>1. j = k
    BY <1>1, <1>2, <1>4
  <2>2. merged.offset = merged.offset + (Start[j + 1] - Start[k + 1])
    BY <1>2, <1>3, <2>1
  <2> QED BY <1>4, <2>2 DEF merged, s, j
<1>5. CASE s # <<>>
  <2>1. Len(s) # 0 /\ Last(s) = s[Len(s)]
    BY <1>1, <1>5, EmptySeq DEF Last
  <2>2. j - k \in 1..(j - k) /\ k + (j - k) = j /\ j \in 1..N /\ j \in 1..(N + 1)
    BY <1>1, <1>2, <2>1
  <2>3. s[j - k] = merged.offset + (Start[j] - Start[k + 1]) /\ HeaderAt(merged.buffer, s[j - k]) = Start[j]
    BY <1>1, <2>2
  <2>4. Last(s) = merged.offset + (Start[j] - Start[k + 1]) /\ HeaderAt(merged.buffer, Last(s)) = Start[j]
    BY <1>1, <2>1, <2>3
  <2>5. FullLength(Start[j]) = lengths[j] /\ Start[j] \in Nat
    BY <2>2, StartsAre DEF FullLength, Junk
  <2>6. Start[j + 1] = Start[j] + lengths[j] /\ lengths[j] \in Nat
    BY <2>2, StartIs, StreamIs
  <2>7. Last(s) + FullLength(HeaderAt(merged.buffer, Last(s)))
        = merged.offset + (Start[j + 1] - Start[k + 1])
    BY <1>2, <1>3, <2>4, <2>5, <2>6
  <2> QED BY <1>5, <2>7 DEF merged, s, j
<1> QED BY <1>4, <1>5

\* What is kept from there on.
LEMMA KeepsRest ==
    ASSUME lengths \in Streams, lengths' = lengths, Held, NEW k \in 0..N, First = Start[k + 1],
           NEW n \in Nat \ {0}, received + n <= Total, received' = received + n,
           NEW j \in k..N, Start[j + 1] <= received + n + 1,
           Keeps(Merged(n), Merged(n).offset + (Start[j + 1] - Start[k + 1]))
    PROVE  /\ Held' /\ First' = Start[j + 1] /\ bufferLength' = received + n + 1 - Start[j + 1]
           /\ buffer'.byteLength <= Merged(n).buffer.byteLength
<1> DEFINE merged == Merged(n)
           b == merged.buffer
           o == merged.offset
           full == merged.offset + merged.length
           d == Start[j + 1] - Start[k + 1]
           rest == received + n + 1 - Start[j + 1]
<1>0. N \in Nat \ {0} /\ received \in Nat /\ bufferLength \in Nat
  BY StreamIs DEF Held
<1>1. /\ Has(b, o, bufferLength + n, First) /\ merged.length = bufferLength + n
      /\ o \in Nat /\ IsBuffer(b) /\ b.byteLength \in Nat
  BY MergedIs DEF Has, IsBuffer
<1>2. /\ Start[k + 1] \in Nat /\ Start[j + 1] \in Nat /\ Start[k + 1] <= Start[j + 1]
      /\ Start[j + 1] >= 1
  <2>1. k + 1 \in 1..(N + 1) /\ j + 1 \in 1..(N + 1) /\ (k = j \/ k + 1 < j + 1)
    BY <1>0
  <2>2. Start[k + 1] \in Nat /\ Start[j + 1] \in Nat /\ Start[j + 1] >= 1
        /\ (k = j \/ Start[k + 1] < Start[j + 1])
    BY <2>1, StartsAre
  <2> QED BY <2>2
<1>3. received - bufferLength + 1 = Start[k + 1]
  BY DEF First
<1>4. /\ rest \in Nat /\ rest <= received + n /\ d \in Nat /\ full = o + (bufferLength + n)
      /\ full - (o + d) = rest /\ d + rest = bufferLength + n
  BY <1>0, <1>1, <1>2, <1>3
<1>5. received' = received + n
  OBVIOUS
<1>6. CASE o + d = full
  <2>1. buffer' = emptyBuffer /\ bufferLength' = 0 /\ bufferOffset' = 0
    BY <1>6 DEF Keeps
  <2>2. rest = 0
    BY <1>1, <1>4, <1>6
  <2>3. IsBuffer(buffer)' /\ buffer'.byteLength = 0
    BY <2>1, EmptyIsBuffer DEF IsBuffer, emptyBuffer
  <2>4. RestKept'
    BY <2>1 DEF RestKept
  <2>5. Held'
    BY <1>0, <1>5, <2>1, <2>3, <2>4 DEF Held
  <2>6. First' = Start[j + 1]
    BY <1>0, <1>2, <1>5, <2>1, <2>2 DEF First
  <2> QED BY <1>1, <2>1, <2>2, <2>3, <2>5, <2>6
<1>7. CASE o + d # full
  <2>1. buffer' = b /\ bufferLength' = rest /\ bufferOffset' = o + d
    BY <1>4, <1>7 DEF Keeps
  <2> HIDE DEF b, o, d, rest, full
  <2>2. IsBuffer(buffer)'
    BY <1>1, <2>1 DEF IsBuffer
  <2>3. First' = Start[j + 1]
    <3>1. (received + n) - rest + 1 = Start[j + 1]
      BY <1>0, <1>2 DEF rest
    <3>2. First' = received' - bufferLength' + 1
      BY DEF First
    <3>3. received' \in Int /\ bufferLength' \in Int /\ received' = received + n /\ bufferLength' = rest
      BY <1>0, <1>4, <1>5, <2>1
    <3> QED BY <3>1, <3>2, <3>3
  <2>4. ASSUME NEW i \in 0..(rest - 1) PROVE b.byte[(o + d) + i] = Start[j + 1] + i
    <3>1. d + i \in 0..((bufferLength + n) - 1) /\ o + (d + i) = (o + d) + i
      BY <1>0, <1>1, <1>4
    <3>2. First + (d + i) = Start[j + 1] + i
      BY <1>2 DEF d
    <3>3. b.byte[o + (d + i)] = First + (d + i)
      BY <1>1, <3>1 DEF Has
    <3> QED BY <3>1, <3>2, <3>3
  <2>5. RestKept'
    <3>1. received' - bufferLength' + 1 = Start[j + 1]
      BY <2>3 DEF First
    <3>2. \A i \in 0..(rest - 1) : b.byte[(o + d) + i] = received' - bufferLength' + 1 + i
      BY <2>4, <3>1
    <3> QED BY <2>1, <3>2 DEF RestKept
  <2>6. Held'
    <3>1. (o + d) + rest <= b.byteLength /\ o + d \in Nat
      BY <1>0, <1>1, <1>4 DEF Has
    <3>2. rest \in 0..(received + n) /\ received + n \in Nat
      BY <1>0, <1>4
    <3> QED BY <1>5, <2>1, <2>2, <2>5, <3>1, <3>2 DEF Held
  <2>7. bufferLength' = received + n + 1 - Start[j + 1]
    BY <2>1 DEF rest
  <2>8. buffer'.byteLength <= Merged(n).buffer.byteLength
    BY <1>1, <2>1 DEF b
  <2> QED BY <2>3, <2>6, <2>7, <2>8
<1> QED BY <1>6, <1>7

\* The sizes that exceptions add.
LEMMA Waits ==
    ASSUME ParserTypes
    PROVE  /\ throws \in Nat /\ MaxChunk \in Nat \ {0} /\ throws * MaxChunk \in Nat
           /\ (throws + 1) * MaxChunk = throws * MaxChunk + MaxChunk
           /\ ((throws + 1) + 1) * MaxChunk = (throws + 1) * MaxChunk + MaxChunk
  BY ParserAssumption DEF ParserTypes

LEMMA MergedBounded ==
    ASSUME ParserTypes, Held, Bounded, NEW n \in 1..MaxChunk
    PROVE  /\ n \in Nat \ {0} /\ Merged(n).buffer.byteLength \in Nat
           /\ Merged(n).buffer.byteLength <= 4 * (Longest + (throws + 1) * MaxChunk - 1)
<1>1. n \in Nat \ {0} /\ n <= MaxChunk /\ MaxChunk \in Nat
  BY Waits
<1>2. /\ Longest \in Nat \ {0} /\ bufferLength \in Nat
  BY LongestIs DEF ParserTypes, Held
<1>3. Merged(n).buffer.byteLength \in Nat
  BY <1>1, MergedIs DEF Has, IsBuffer
<1> DEFINE w == throws * MaxChunk
<1>4. w \in Nat /\ (throws + 1) * MaxChunk = w + MaxChunk
  BY Waits
<1>5. bufferLength <= Longest - 1 + w
  BY DEF Bounded
<1>6. buffer.byteLength <= 4 * (Longest + (throws + 1) * MaxChunk - 1)
  BY DEF Bounded, BufferBounded, Longest
<1>7. \/ Merged(n).buffer.byteLength = buffer.byteLength
      \/ Merged(n).buffer.byteLength <= 4 * (bufferLength + n)
  BY <1>1, MergedIs
<1> HIDE DEF w
<1>8. 4 * (bufferLength + n) <= 4 * (Longest + (w + MaxChunk) - 1)
  BY <1>1, <1>2, <1>4, <1>5
<1>9. CASE Merged(n).buffer.byteLength = buffer.byteLength
  BY <1>1, <1>3, <1>6, <1>9
<1>10. CASE Merged(n).buffer.byteLength <= 4 * (bufferLength + n)
  BY <1>1, <1>2, <1>3, <1>4, <1>8, <1>10
<1> QED BY <1>1, <1>3, <1>7, <1>9, <1>10
-----------------------------------------------------------------------------
\* The steps.

\* What is heard is complete.
LEMMA HeardComplete ==
    ASSUME ParserInv, NEW n \in Nat \ {0}, received + n <= Total,
           NEW k \in 0..N, Follows(k), NEW c \in 0..(Completed(received + n) - k),
           Hears(Merged(n), c)
    PROVE  /\ heard' \in Seq(Nat) /\ Upto(k + c) \subseteq ToSet(heard')
           /\ ToSet(heard') \subseteq Upto(Completed(received + n))
           /\ heard = SubSeq(Starts, 1, k) => heard' = SubSeq(Starts, 1, k + c)
<1> DEFINE j == Completed(received + n)
<1>0. ParserTypes /\ Held /\ lengths \in Streams /\ received \in Nat /\ N \in Nat
  BY StreamIs DEF ParserInv, ParserTypes, Held
<1>1. First = Start[k + 1] /\ Upto(k) \subseteq ToSet(heard)
  BY DEF Follows
<1>2. j \in k..N /\ received + n \in Nat /\ received <= received + n
  BY <1>0, <1>1, ChunkFinds
<1>3. /\ heard' \in Seq(Nat) /\ ToSet(heard') = ToSet(heard) \cup {Start[k + i] : i \in 1..c}
      /\ heard = SubSeq(Starts, 1, k) => heard' = SubSeq(Starts, 1, k + c)
  BY <1>0, <1>1, HearsFound
<1>4. ToSet(heard) \subseteq Upto(j)
  <2>1. Completed(received) \in Nat /\ j \in Nat /\ Completed(received) <= j
    <3>1. Completed(received) \in 0..N
      BY <1>0, CompletedIs
    <3>2. Completed(received) <= Completed(received + n)
      BY <1>0, <1>2, CompletedGrows
    <3> QED BY <1>0, <1>2, <3>1, <3>2
  <2>2. ToSet(heard) \subseteq Upto(Completed(received))
    BY DEF ParserInv
  <2> HIDE DEF j
  <2> QED BY <2>1, <2>2, UptoMore
<1> HIDE DEF j
<1>5. \A i \in 1..c : k + i \in 1..j
  BY <1>0, <1>2 DEF j
<1>6. ToSet(heard') \subseteq Upto(j)
  BY <1>3, <1>4, <1>5 DEF Upto
<1>7. \A i \in 1..(k + c) : i \in 1..k \/ (i - k \in 1..c /\ k + (i - k) = i)
  BY <1>0, <1>2
<1>8. Upto(k + c) \subseteq ToSet(heard')
  BY <1>1, <1>3, <1>7 DEF Upto
<1> QED BY <1>3, <1>6, <1>8 DEF j

\* What waits is less than a message.
LEMMA RestBounded ==
    ASSUME lengths \in Streams, NEW n \in Nat, n <= Total
    PROVE  n + 1 - Start[Completed(n) + 1] \in Int /\ n + 1 - Start[Completed(n) + 1] <= Longest - 1
<1> DEFINE j == Completed(n)
<1>0. /\ N \in Nat \ {0} /\ j \in 0..N /\ Start[j + 1] <= n + 1
      /\ Longest \in Nat \ {0}
  BY StreamIs, CompletedIs, LongestIs
<1>1. Start[j + 1] \in Nat
  <2>1. j + 1 \in 1..(N + 1)
    BY <1>0
  <2> QED BY <2>1, StartsAre
<1>2. CASE j = N
  <2>1. Start[j + 1] = Total + 1 /\ Total \in Nat
    BY <1>2, TotalIs
  <2> QED BY <1>0, <1>1, <2>1
<1>3. CASE j # N
  <2>1. j + 1 \in 1..N /\ j + 1 \in 0..N /\ (j + 1) + 1 \in 1..(N + 1) /\ ~(j + 1 <= j)
    BY <1>0, <1>3
  <2>2. ~(Start[(j + 1) + 1] <= n + 1)
    BY <2>1, CompletedIs
  <2>3. /\ Start[(j + 1) + 1] \in Nat /\ Start[(j + 1) + 1] = Start[j + 1] + lengths[j + 1]
        /\ lengths[j + 1] \in Nat /\ lengths[j + 1] <= Longest
    BY <2>1, StartsAre, StartIs, StreamIs, LongestIs
  <2> QED BY <1>0, <1>1, <2>2, <2>3
<1> QED BY <1>2, <1>3

LEMMA ParseStep ==
    ASSUME ParserInv, NEW n \in 1..MaxChunk, Parse(n)
    PROVE  ParserInv'
<1>0. /\ ParserTypes /\ Held /\ Bounded /\ lengths \in Streams /\ received \in Nat /\ N \in Nat
      /\ n \in Nat \ {0} /\ throws \in Nat /\ MaxChunk \in Nat
  BY StreamIs, Waits DEF ParserInv, ParserTypes, Held
<1>1. /\ received + n <= Total /\ received' = received + n /\ thrown' = FALSE
      /\ lengths' = lengths /\ throws' = throws
      /\ Hears(Merged(n), Len(Parsed(Merged(n))))
      /\ Keeps(Merged(n),
               IF Parsed(Merged(n)) = <<>> THEN Merged(n).offset
               ELSE Last(Parsed(Merged(n)))
                    + FullLength(HeaderAt(Merged(n).buffer, Last(Parsed(Merged(n))))))
  BY DEF Parse
<1>2. PICK k \in 0..N : Follows(k)
  BY DEF ParserInv
<1>3. First = Start[k + 1] /\ (throws = 0 => heard = SubSeq(Starts, 1, k))
  BY <1>2 DEF Follows
<1> PICK j \in k..N : j = Completed(received + n)
  BY <1>0, <1>1, <1>3, ChunkFinds
<1>4. /\ j \in 0..N /\ Len(Parsed(Merged(n))) = j - k /\ j - k \in 0..(j - k)
      /\ k + (j - k) = j /\ received + n \in Nat
  BY <1>0, <1>1, <1>3, ChunkFinds
<1>5. Keeps(Merged(n), Merged(n).offset + (Start[j + 1] - Start[k + 1]))
  BY <1>0, <1>1, <1>3, StopsAt
<1>6. /\ heard' \in Seq(Nat) /\ Upto(j) \subseteq ToSet(heard') /\ ToSet(heard') \subseteq Upto(j)
      /\ heard = SubSeq(Starts, 1, k) => heard' = SubSeq(Starts, 1, j)
  BY <1>0, <1>1, <1>2, <1>4, HeardComplete
<1>7. Start[j + 1] <= received + n + 1
  BY <1>0, <1>4, CompletedIs
<1>8. /\ Held' /\ First' = Start[j + 1] /\ bufferLength' = received + n + 1 - Start[j + 1]
      /\ buffer'.byteLength <= Merged(n).buffer.byteLength
  BY <1>0, <1>1, <1>3, <1>4, <1>5, <1>7, KeepsRest
<1>9. /\ N' = N /\ Start' = Start /\ Starts' = Starts /\ Total' = Total /\ Longest' = Longest
      /\ Upto(j)' = {Start[i] : i \in 1..j}
  BY <1>1, SameStream DEF Upto
<1>10. Completed(received)' = j
  BY <1>1, <1>9 DEF Completed
<1>11. ParserTypes'
  <2>1. received' \in 0..Total
    BY <1>0, <1>1, <1>4, TotalIs
  <2> QED BY <1>0, <1>1, <1>6, <1>9, <2>1 DEF ParserTypes
<1>12. Bounded'
  <2>1. bufferLength' <= Longest - 1 /\ bufferLength' \in Int /\ Longest \in Nat
    BY <1>0, <1>1, <1>4, <1>8, RestBounded, LongestIs
  <2>2. throws * MaxChunk \in Nat /\ (throws + 1) * MaxChunk \in Nat
    BY <1>0, Waits
  <2>3. /\ Merged(n).buffer.byteLength \in Nat
        /\ Merged(n).buffer.byteLength <= 4 * (Longest + (throws + 1) * MaxChunk - 1)
    BY <1>0, MergedBounded
  <2>4. buffer'.byteLength \in Nat
    BY <1>8 DEF Held, IsBuffer
  <2>5. buffer'.byteLength <= 4 * (Longest + (throws + 1) * MaxChunk - 1)
    BY <1>8, <2>1, <2>2, <2>3, <2>4
  <2>6. BufferBounded'
    BY <1>1, <1>9, <2>5 DEF BufferBounded, Longest
  <2>7. bufferLength' <= Longest - 1 + throws * MaxChunk
    BY <2>1, <2>2
  <2> QED BY <1>1, <1>9, <2>6, <2>7 DEF Bounded
<1>13. Follows(j)'
  BY <1>1, <1>3, <1>6, <1>8, <1>9, <1>10 DEF Follows, Upto
<1>14. ToSet(heard)' \subseteq Upto(Completed(received))'
  BY <1>6, <1>9, <1>10 DEF Upto
<1> QED BY <1>4, <1>8, <1>9, <1>11, <1>12, <1>13, <1>14 DEF ParserInv
LEMMA ThrowsStep ==
    ASSUME ParserInv, NEW n \in 1..MaxChunk, NEW c \in 1..MaxChunk, ParseThrows(n, c)
    PROVE  ParserInv'
<1>0. /\ ParserTypes /\ Held /\ Bounded /\ lengths \in Streams /\ received \in Nat /\ N \in Nat
      /\ n \in Nat \ {0} /\ n <= MaxChunk /\ throws \in Nat /\ MaxChunk \in Nat /\ bufferLength \in 0..received
  BY StreamIs, Waits DEF ParserInv, ParserTypes, Held
<1>1. /\ throws < MaxThrows /\ throws' = throws + 1 /\ thrown' = TRUE
      /\ received + n <= Total /\ received' = received + n
      /\ c <= Len(Parsed(Merged(n))) /\ Hears(Merged(n), c)
      /\ buffer' = Merged(n).buffer /\ bufferLength' = Merged(n).length
      /\ bufferOffset' = Merged(n).offset /\ lengths' = lengths
  BY DEF ParseThrows
<1>2. PICK k \in 0..N : Follows(k)
  BY DEF ParserInv
<1>3. First = Start[k + 1] /\ Upto(k) \subseteq ToSet(heard)
  BY <1>2 DEF Follows
<1>4. /\ c \in 0..(Completed(received + n) - k) /\ received + n \in Nat
  <2>1. /\ Completed(received + n) \in k..N
        /\ Len(Parsed(Merged(n))) = Completed(received + n) - k
    BY <1>0, <1>1, <1>3, ChunkFinds
  <2> QED BY <1>0, <1>1, <2>1
<1>5. /\ heard' \in Seq(Nat) /\ Upto(k + c) \subseteq ToSet(heard')
      /\ ToSet(heard') \subseteq Upto(Completed(received + n))
  BY <1>0, <1>1, <1>2, <1>4, HeardComplete
<1>6. Upto(k) \subseteq ToSet(heard')
  <2>1. k \in Nat /\ k + c \in Nat /\ k <= k + c
    BY <1>0
  <2> QED BY <1>5, <2>1, UptoMore
<1>7. /\ Has(Merged(n).buffer, Merged(n).offset, bufferLength + n, First)
      /\ Merged(n).length = bufferLength + n
  BY <1>0, MergedIs
<1>8. /\ N' = N /\ Start' = Start /\ Starts' = Starts /\ Total' = Total /\ Longest' = Longest
      /\ Upto(k)' = Upto(k)
  BY <1>1, SameStream
<1>9. Upto(Completed(received))' = Upto(Completed(received + n))
  BY <1>1, <1>8 DEF Upto, Completed
<1>10. First' = First
  <2>1. First' = (received + n) - (bufferLength + n) + 1
    BY <1>1, <1>7 DEF First
  <2>2. First = received - bufferLength + 1
    BY DEF First
  <2>3. (received + n) - (bufferLength + n) = received - bufferLength
    BY <1>0
  <2> QED BY <2>1, <2>2, <2>3
<1>11. Held'
  <2>1. \A i \in 0..((bufferLength + n) - 1) : Merged(n).buffer.byte[Merged(n).offset + i] = First + i
    BY <1>7 DEF Has
  <2>2. received' - bufferLength' + 1 = First
    BY <1>10 DEF First
  <2>3. RestKept'
    BY <1>1, <1>7, <2>1, <2>2 DEF RestKept
  <2>4. bufferLength' \in 0..received' /\ received' \in Nat
    BY <1>0, <1>1, <1>4, <1>7
  <2>5. /\ IsBuffer(buffer)' /\ bufferOffset' \in Nat
        /\ bufferOffset' + bufferLength' <= buffer'.byteLength
    BY <1>1, <1>7 DEF Has, IsBuffer
  <2> QED BY <2>3, <2>4, <2>5 DEF Held
<1>12. ParserTypes'
  <2>1. received' \in 0..Total /\ throws' \in 0..MaxThrows /\ throws' # 0
    BY <1>0, <1>1, <1>4, TotalIs, ParserAssumption
  <2> QED BY <1>0, <1>1, <1>5, <1>8, <2>1 DEF ParserTypes
<1>13. Bounded'
  <2> DEFINE w == throws * MaxChunk
  <2>1. /\ w \in Nat /\ (throws + 1) * MaxChunk = w + MaxChunk
        /\ ((throws + 1) + 1) * MaxChunk = (w + MaxChunk) + MaxChunk
    <3>1. ((throws + 1) + 1) * MaxChunk = (throws + 1) * MaxChunk + MaxChunk
      BY <1>0, Waits
    <3>2. w \in Nat /\ (throws + 1) * MaxChunk = w + MaxChunk
      BY <1>0, Waits
    <3> QED BY <3>1, <3>2
  <2>2. bufferLength <= Longest - 1 + w /\ Longest \in Nat
    BY <1>0, LongestIs DEF Bounded
  <2>3. /\ Merged(n).buffer.byteLength \in Nat
        /\ Merged(n).buffer.byteLength <= 4 * (Longest + (throws + 1) * MaxChunk - 1)
    BY <1>0, MergedBounded
  <2> HIDE DEF w
  <2>4. bufferLength + n <= Longest - 1 + (w + MaxChunk)
    BY <1>0, <2>1, <2>2
  <2>5. Merged(n).buffer.byteLength <= 4 * (Longest + ((w + MaxChunk) + MaxChunk) - 1)
    BY <1>0, <2>1, <2>2, <2>3
  <2>6. BufferBounded'
    <3>1. buffer'.byteLength <= 4 * (Longest + (throws' + 1) * MaxChunk - 1)
      BY <1>1, <2>1, <2>5
    <3> QED BY <1>8, <3>1 DEF BufferBounded, Longest
  <2>7. bufferLength' <= Longest - 1 + throws' * MaxChunk
    BY <1>1, <1>7, <2>1, <2>4
  <2> QED BY <1>8, <2>6, <2>7 DEF Bounded
<1>14. Follows(k)'
  BY <1>1, <1>3, <1>6, <1>8, <1>10, <1>12 DEF Follows, ParserTypes
<1>15. ToSet(heard)' \subseteq Upto(Completed(received))'
  BY <1>5, <1>9
<1> QED BY <1>8, <1>11, <1>12, <1>13, <1>14, <1>15 DEF ParserInv

LEMMA InvInit == ASSUME Init PROVE ParserInv
<1>0. /\ lengths \in Streams /\ received = 0 /\ buffer = emptyBuffer /\ bufferLength = 0
      /\ bufferOffset = 0 /\ heard = <<>> /\ throws = 0 /\ thrown = FALSE
  BY DEF Init
<1>1. N \in Nat \ {0} /\ HeaderLength \in Nat \ {0} /\ Start[1] = 1
  BY <1>0, StreamIs, StartIs
<1>2. Completed(0) = 0
  <2>1. 1 < Start[2]
    <3>1. Start[2] = Start[1] + lengths[1] /\ lengths[1] \in Nat /\ lengths[1] >= HeaderLength
      <4>1. 1 \in 1..N /\ 1 + 1 = 2
        BY <1>1
      <4> QED BY <1>0, <4>1, StartIs, StreamIs
    <3> QED BY <1>1, <3>1
  <2>2. 0 \in 0..N /\ Start[0 + 1] <= 0 + 1 /\ 0 + 1 < Start[0 + 2]
    BY <1>1, <2>1
  <2> QED BY <1>0, <2>2, CompletedAre
<1>3. ParserTypes
  <2>1. <<>> \in Seq(Nat) /\ 0 \in 0..Total /\ 0 \in 0..MaxThrows
    BY <1>0, TotalIs, EmptySeq, ParserAssumption
  <2> QED BY <1>0, <2>1 DEF ParserTypes
<1>4. Held
  BY <1>0, EmptyIsBuffer DEF Held, RestKept
<1>5. Bounded
  <2>1. /\ Longest \in Nat \ {0} /\ throws * MaxChunk = 0
        /\ (throws + 1) * MaxChunk \in Nat /\ emptyBuffer.byteLength = 0
    <3>1. (throws + 1) * MaxChunk = throws * MaxChunk + MaxChunk /\ MaxChunk \in Nat
          /\ throws * MaxChunk \in Nat
      BY <1>3, Waits
    <3> QED BY <1>0, <3>1, LongestIs, EmptyIsBuffer
  <2>2. BufferBounded
    BY <1>0, <2>1 DEF BufferBounded, Longest
  <2>3. bufferLength <= Longest - 1 + throws * MaxChunk
    BY <1>0, <2>1
  <2> QED BY <2>2, <2>3 DEF Bounded
<1>6. SubSeq(Starts, 1, 0) = <<>> /\ Upto(0) = {}
  <2>1. SubSeq(Starts, 1, 0) \in Seq(Nat) /\ Len(SubSeq(Starts, 1, 0)) = 0
    BY <1>0, <1>1, PrefixIs
  <2>2. Upto(0) = {}
    BY DEF Upto
  <2> QED BY <2>1, <2>2, EmptySeq
<1>7. Follows(0)
  BY <1>0, <1>1, <1>2, <1>6 DEF Follows, First
<1>8. ToSet(heard) = {}
  BY <1>0 DEF ToSet
<1> QED BY <1>1, <1>3, <1>4, <1>5, <1>7, <1>8 DEF ParserInv

LEMMA InvStep == ASSUME ParserInv, [Next]_vars PROVE ParserInv'
<1>1. CASE UNCHANGED vars
  <2>1. /\ lengths' = lengths /\ received' = received /\ buffer' = buffer
        /\ bufferLength' = bufferLength /\ bufferOffset' = bufferOffset /\ heard' = heard
        /\ throws' = throws /\ thrown' = thrown
    BY <1>1 DEF vars
  <2>2. /\ N' = N /\ Start' = Start /\ Starts' = Starts /\ Total' = Total /\ Longest' = Longest
        /\ \A k : Upto(k)' = Upto(k)
    BY <2>1, SameStream
  <2>3. Completed(received)' = Completed(received) /\ First' = First
    BY <2>1, <2>2 DEF Completed, First
  <2>4. ParserTypes' /\ Held' /\ Bounded'
    BY <2>1, <2>2 DEF ParserInv, ParserTypes, Held, IsBuffer, RestKept, Bounded, BufferBounded
  <2>5. PICK k \in 0..N : Follows(k)
    BY DEF ParserInv
  <2>6. Follows(k)'
    BY <2>1, <2>2, <2>3, <2>5 DEF Follows
  <2>7. ToSet(heard)' \subseteq Upto(Completed(received))'
    <3>1. Upto(Completed(received))' = Upto(Completed(received))
      BY <2>2, <2>3 DEF Upto
    <3> QED BY <2>1, <3>1 DEF ParserInv
  <2> QED BY <2>2, <2>4, <2>6, <2>7 DEF ParserInv
<1>2. ASSUME NEW n \in 1..MaxChunk, Parse(n) PROVE ParserInv'
  BY <1>2, ParseStep
<1>3. ASSUME NEW n \in 1..MaxChunk, NEW k \in 1..MaxChunk, ParseThrows(n, k) PROVE ParserInv'
  BY <1>3, ThrowsStep
<1> QED BY <1>1, <1>2, <1>3 DEF Next

-----------------------------------------------------------------------------

\* In every state what is kept is the rest of the stream from the end of some
\* message on, all messages before it have been heard, and nothing that is not
\* complete (parse and mergeBuffer).
THEOREM ParserInvariant == Spec => []ParserInv
<1> QED BY InvInit, InvStep, PTL DEF Spec

\* The types of the parser's state; only messages of the stream are heard.
THEOREM TypeCorrect == Spec => []WithinBuffer
<1>1. ASSUME ParserInv PROVE WithinBuffer
  <2>1. ParserTypes /\ Held /\ lengths \in Streams /\ received \in Nat
    BY <1>1 DEF ParserInv, ParserTypes, Held
  <2>2. DOMAIN buffer.byte = 0..(buffer.byteLength - 1)
    BY <2>1 DEF Held, IsBuffer
  <2>3. ToSet(heard) \subseteq ToSet(Starts)
    <3>1. Completed(received) \in 0..N
      BY <2>1, CompletedIs
    <3> QED BY <1>1, <2>1, <3>1, UptoStarts DEF ParserInv
  <2> QED BY <2>1, <2>2, <2>3 DEF WithinBuffer, ParserTypes, Held
<1> QED BY <1>1, ParserInvariant, PTL

\* However the stream is cut into chunks, and whatever the callback throws: each
\* complete message is heard, in order and once unless a callback threw, what is
\* kept is the rest, and the buffer is bounded (parse, mergeBuffer).
THEOREM MessagesAreExact == Spec => []MessagesExact
<1>1. ASSUME ParserInv PROVE MessagesExact
  <2>1. ParserTypes /\ Held /\ Bounded /\ lengths \in Streams /\ received \in Nat
    BY <1>1 DEF ParserInv, ParserTypes, Held
  <2>2. PICK k \in 0..N : Follows(k)
    BY <1>1 DEF ParserInv
  <2>3. Completed(received) \in 0..N
    BY <2>1, CompletedIs
  <2>4. ToSet(Complete(received)) = Upto(Completed(received))
    BY <2>1, <2>3, PrefixIs DEF Complete
  <2>5. throws = 0 => heard = Complete(received)
    BY <2>1, <2>2 DEF Follows, Complete, ParserTypes
  <2>6. ~thrown => ToSet(heard) = ToSet(Complete(received))
    BY <1>1, <2>2, <2>4 DEF Follows, ParserInv
  <2> QED BY <2>1, <2>5, <2>6 DEF MessagesExact, Held, Bounded
<1> QED BY <1>1, ParserInvariant, PTL
=============================================================================

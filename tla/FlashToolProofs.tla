-------------------------- MODULE FlashToolProofs --------------------------
(***************************************************************************)
(* Proofs about FlashTool, for any size of a page, any program and any     *)
(* number of faults:                                                       *)
(*   - the queue holds the requests that were not sent (QueueInOrder),     *)
(*   - a page that is reported as written holds its bytes                  *)
(*     (ReportedPagesHold),                                                *)
(*   - when success is reported, the flash holds the program               *)
(*     (SuccessIsReal).                                                    *)
(*                                                                         *)
(* The first part is about the functions: FlashMemory yields a run of      *)
(* bytes of the program, and on a program without a gap inside a page      *)
(* every byte is in the run of its page.  The second part is about the     *)
(* steps.  Commands, echoes and answers carry no number, so the invariant  *)
(* is that the two ends are in step (LockStep) as long as no page failed:  *)
(* from the first failure on the tool may take a late answer for that of   *)
(* another page, but then it does not report success any more (Stuck).     *)
(***************************************************************************)
EXTENDS FlashTool, FunctionTheorems, SequenceTheorems, TLAPS

-----------------------------------------------------------------------------
(***************************************************************************)
(* Induction, for a set of numbers.  A set that holds 0 and the successors *)
(* of its elements holds every number: were x missing, the numbers up to x *)
(* could be mapped one to one to those below x.                            *)
(***************************************************************************)
LEMMA SetInduction ==
  ASSUME NEW S \in SUBSET Nat, 0 \in S, \A n \in S : n + 1 \in S
  PROVE  S = Nat
<1> SUFFICES ASSUME NEW x \in Nat \ S PROVE FALSE
  OBVIOUS
<1> DEFINE f == [i \in 1..(x + 1) |-> IF i - 1 \in S THEN i ELSE i - 1]
<1>1. \A i \in Nat \ {0} : i \in S \/ i - 1 \notin S
  <2> SUFFICES ASSUME NEW i \in Nat \ {0}, i - 1 \in S PROVE i \in S
    OBVIOUS
  <2>1. (i - 1) + 1 \in S /\ (i - 1) + 1 = i
    OBVIOUS
  <2> QED BY <2>1
<1>2. ASSUME NEW i \in 1..(x + 1) PROVE f[i] \in 1..x
  <2>1. CASE i - 1 \in S
    <3>1. i # x + 1
      BY <2>1
    <3> QED BY <2>1, <3>1
  <2>2. CASE i - 1 \notin S
    <3>1. i # 1
      BY <2>2
    <3> QED BY <2>2, <3>1
  <2> QED BY <2>1, <2>2
<1>3. ASSUME NEW i \in 1..(x + 1), NEW j \in 1..(x + 1), i # j, f[i] = f[j]
      PROVE  FALSE
  <2>1. ASSUME NEW k \in 1..(x + 1), NEW l \in 1..(x + 1), f[k] = f[l], k - 1 \in S, l - 1 \notin S
        PROVE  FALSE
    <3>1. k = l - 1
      BY <2>1
    <3>2. l - 1 \in Nat \ {0} /\ k - 1 = (l - 1) - 1
      BY <3>1
    <3>3. l - 1 \in S \/ (l - 1) - 1 \notin S
      BY <1>1, <3>2
    <3> QED BY <2>1, <3>2, <3>3
  <2> QED BY <1>3, <2>1
<1>4. f \in Injection(1..(x + 1), 1..x)
  BY <1>2, <1>3 DEF Injection, IsInjective
<1>5. x + 1 <= x
  BY <1>4, Fun_NatInjLeq DEF ExistsInjection
<1> QED BY <1>5

\* A set of numbers that is not empty has a least element.
LEMMA LeastElement ==
  ASSUME NEW T \in SUBSET Nat, T # {}
  PROVE  \E x \in T : \A y \in T : x <= y
<1> SUFFICES ASSUME \A x \in T : \E y \in T : y < x PROVE FALSE
  OBVIOUS
<1> DEFINE S == {n \in Nat : \A m \in 0..n : m \notin T}
<1>1. 0 \in S
  OBVIOUS
<1>2. ASSUME NEW n \in S PROVE n + 1 \in S
  <2>1. n \in Nat /\ \A m \in 0..n : m \notin T
    BY <1>2
  <2>2. n + 1 \notin T
    <3> SUFFICES ASSUME n + 1 \in T PROVE FALSE
      OBVIOUS
    <3>1. PICK y \in T : y < n + 1
      OBVIOUS
    <3>2. y \in 0..n
      BY <2>1, <3>1
    <3> QED BY <2>1, <3>2
  <2> QED BY <2>1, <2>2
<1> HIDE DEF S
<1>3. S = Nat
  <2>1. S \in SUBSET Nat
    BY DEF S
  <2> QED BY <1>1, <1>2, <2>1, SetInduction
<1>4. \A n \in Nat : n \notin T
  BY <1>3 DEF S
<1> QED BY <1>4

-----------------------------------------------------------------------------
(***************************************************************************)
(* The bytes of a page.                                                    *)
(***************************************************************************)
Segments == [type : {"load"}, paddr : Nat, memsz : Nat \ {0}, data : Seq(Int)]

\* What the definition of MemoryOf means: the bytes found after each segment.
Found(bytes, program, addr) ==
  bytes = [n \in 0..Len(program) |->
             IF n = 0 THEN <<>> ELSE Continued(bytes[n - 1], program[n], addr)]

LEMMA MemoryFound ==
  ASSUME NEW program, NEW addr, \E bytes : Found(bytes, program, addr)
  PROVE  \E bytes : Found(bytes, program, addr) /\ MemoryOf(program, addr) = bytes[Len(program)]
BY DEF MemoryOf, Found

\* After the first address of a page no other page begins for PageSize addresses.
LEMMA NextBorder ==
  ASSUME NEW x \in Int, NEW p \in Nat \ {0}, x % p = 0, NEW d \in 1..(p - 1)
  PROVE  (x + d) % p # 0
<1>1. x \div p \in Int /\ x % p = x - p * (x \div p)
  OBVIOUS
<1>2. PICK q \in Int : x = p * q + 0
  <2> DEFINE t == p * (x \div p)
  <2>1. t \in Int
    BY <1>1
  <2>2. x = t + 0
    <3> HIDE DEF t
    <3>1. x - t = 0
      BY <1>1, <2>1 DEF t
    <3> QED BY <2>1, <3>1
  <2> QED BY <1>1, <2>2
<1>3. (p * q + d) % p = d
  OBVIOUS
<1>4. x + d = p * q + d
  BY <1>2
<1> QED BY <1>3, <1>4

\* The address a page begins with.
LEMMA PageStart ==
  ASSUME NEW x \in Nat, NEW p \in Nat \ {0}
  PROVE  /\ x % p \in 0..(p - 1)
         /\ 0 <= x - (x % p) /\ (x - (x % p)) % p = 0
<1>1. \A z \in Int : (z - (z % p)) % p = 0
  OBVIOUS
<1>2. x % p \in 0..(p - 1) /\ 0 <= x - (x % p)
  OBVIOUS
<1> QED BY <1>1, <1>2

LEMMA MinOfTwo ==
  ASSUME NEW x \in Int, NEW y \in Int
  PROVE  Min({x, y}) = IF x <= y THEN x ELSE y
BY DEF Min

\* A part of one sequence appended to another.
LEMMA Appended ==
  ASSUME NEW bytes \in Seq(Int), NEW data \in Seq(Int), NEW u \in Nat \ {0}, NEW v \in Nat,
         v <= Len(data), u - 1 <= v
  PROVE  LET c == bytes \o SubSeq(data, u, v) IN
         /\ c \in Seq(Int) /\ Len(c) = Len(bytes) + (v + 1 - u)
         /\ \A m \in 1..Len(bytes) : c[m] = bytes[m]
         /\ \A m \in Len(bytes) + 1 .. Len(c) : c[m] = data[u + (m - Len(bytes)) - 1]
<1>1. \A i \in u..v : data[i] \in Int
  <2> SUFFICES ASSUME NEW i \in u..v PROVE data[i] \in Int
    OBVIOUS
  <2>1. i \in 1..Len(data)
    <3>1. Len(data) \in Nat
      OBVIOUS
    <3> QED BY <3>1
  <2> QED BY <2>1
<1> DEFINE s == SubSeq(data, u, v)
<1>2. /\ s \in Seq(Int) /\ Len(s) = IF u <= v THEN v - u + 1 ELSE 0
      /\ \A m \in 1..v - u + 1 : s[m] = data[u + m - 1]
  BY <1>1, SubSeqProperties
<1> HIDE DEF s
<1>3. s \in Seq(Int) /\ Len(s) = v + 1 - u
  BY <1>2
<1>4. \A m \in 1..Len(s) : s[m] = data[u + m - 1]
  BY <1>2, <1>3
<1> DEFINE c == bytes \o s
<1>5. /\ c \in Seq(Int) /\ Len(c) = Len(bytes) + Len(s)
      /\ \A m \in 1..Len(c) : c[m] = IF m <= Len(bytes) THEN bytes[m] ELSE s[m - Len(bytes)]
  BY <1>3, ConcatProperties
<1> HIDE DEF c
<1>6. Len(bytes) \in Nat /\ Len(s) \in Nat
  BY <1>3
<1>7. \A m \in 1..Len(bytes) : c[m] = bytes[m]
  BY <1>5, <1>6
<1>8. ASSUME NEW m \in Len(bytes) + 1 .. Len(c) PROVE c[m] = data[u + (m - Len(bytes)) - 1]
  <2>1. c[m] = s[m - Len(bytes)] /\ m - Len(bytes) \in 1..Len(s)
    BY <1>5, <1>6
  <2> QED BY <2>1, <1>4
<1> QED BY <1>3, <1>5, <1>7, <1>8 DEF c, s

\* A segment that covers the next address fills the page or is read to its end.
LEMMA ContinuedBytes ==
  ASSUME NEW bytes \in Seq(Int), NEW p \in Segments, NEW addr \in Int,
         Len(p.data) = p.memsz, Len(bytes) <= PageSize
  PROVE  LET c == Continued(bytes, p, addr) IN
         IF addr + Len(bytes) \in p.paddr .. p.paddr + p.memsz - 1
         THEN /\ c \in Seq(Int)
              /\ Len(bytes) <= Len(c) /\ Len(c) <= PageSize
              /\ \A m \in 1..Len(bytes) : c[m] = bytes[m]
              /\ \A m \in Len(bytes) + 1 .. Len(c) :
                   /\ addr + m - 1 \in p.paddr .. p.paddr + p.memsz - 1
                   /\ c[m] = p.data[addr + m - p.paddr]
              /\ Len(c) = PageSize \/ addr + Len(c) = p.paddr + p.memsz
         ELSE c = bytes
<1> DEFINE len  == Len(bytes)
           a    == addr + len
           base == p.paddr
           size == p.memsz
           data == p.data
           w    == a - base + PageSize - len
           v    == Min({size, w})
           u    == a - base + 1
<1>1. CASE a \notin p.paddr .. p.paddr + p.memsz - 1
  BY <1>1 DEF Continued
<1>2. CASE a \in p.paddr .. p.paddr + p.memsz - 1
  <2>1. /\ size \in Nat /\ base \in Nat /\ data \in Seq(Int) /\ Len(data) = size
        /\ PageSize \in Nat /\ len \in Nat /\ len <= PageSize
    BY AddressAssumption DEF Segments
  <2>2. a \in Int /\ base <= a /\ a <= base + size - 1 /\ a = addr + len
    BY <1>2, <2>1
  <2>3. Continued(bytes, p, addr) = bytes \o SubSeq(data, u, v) /\ len = Len(bytes)
    BY <1>2 DEF Continued
  <2>4. w = a - base + PageSize - len /\ u = a - base + 1
    OBVIOUS
  <2> HIDE DEF len, a, base, size, data, w, u
  <2>5. w \in Int /\ u \in Int
    BY <2>1, <2>2, <2>4
  <2>6. v = IF size <= w THEN size ELSE w
    BY <2>1, <2>5, MinOfTwo
  <2> HIDE DEF v
  <2>7. 1 <= u /\ u <= size
    BY <2>1, <2>2, <2>4, <2>5
  <2>8. 0 <= w /\ u - 1 <= w /\ w + 1 - u = PageSize - len
    BY <2>1, <2>2, <2>4, <2>5
  <2>9. v \in Nat /\ u \in Nat \ {0} /\ v <= size /\ u - 1 <= v /\ v + 1 - u <= PageSize - len
    BY <2>1, <2>5, <2>6, <2>7, <2>8
  <2>10. v + 1 - u = PageSize - len \/ v = size
    BY <2>1, <2>5, <2>6, <2>8
  <2> DEFINE c == bytes \o SubSeq(data, u, v)
  <2>11. /\ c \in Seq(Int) /\ Len(c) = len + (v + 1 - u)
         /\ \A m \in 1..len : c[m] = bytes[m]
         /\ \A m \in len + 1 .. Len(c) : c[m] = data[u + (m - len) - 1]
    <3>1. data \in Seq(Int) /\ u \in Nat \ {0} /\ v \in Nat /\ v <= Len(data) /\ u - 1 <= v
      BY <2>1, <2>9
    <3>2. len = Len(bytes)
      BY <2>3
    <3>3. /\ c \in Seq(Int) /\ Len(c) = Len(bytes) + (v + 1 - u)
          /\ \A m \in 1..Len(bytes) : c[m] = bytes[m]
          /\ \A m \in Len(bytes) + 1 .. Len(c) : c[m] = data[u + (m - Len(bytes)) - 1]
      BY <3>1, Appended
    <3> QED BY <3>2, <3>3
  <2> HIDE DEF c
  <2>12. len <= Len(c) /\ Len(c) <= PageSize
    BY <2>1, <2>5, <2>9, <2>11
  <2>13. ASSUME NEW m \in len + 1 .. Len(c)
         PROVE  addr + m - 1 \in base .. base + size - 1 /\ c[m] = data[addr + m - base]
    <3>1. m \in Int /\ len + 1 <= m /\ m <= len + (v + 1 - u)
      BY <2>1, <2>9, <2>11
    <3>2. u + (m - len) - 1 = addr + m - base
      BY <3>1, <2>1, <2>2, <2>4
    <3>3. base <= addr + m - 1 /\ addr + m - 1 <= base + size - 1
      BY <3>1, <2>1, <2>2, <2>4, <2>9
    <3>4. c[m] = data[u + (m - len) - 1]
      BY <2>11
    <3>5. addr + m - 1 \in base .. base + size - 1
      BY <3>1, <3>3, <2>1
    <3> QED BY <3>2, <3>4, <3>5
  <2>14. Len(c) = PageSize \/ addr + Len(c) = base + size
    BY <2>1, <2>2, <2>4, <2>9, <2>10, <2>11
  <2> QED BY <1>2, <2>3, <2>11, <2>12, <2>13, <2>14 DEF c, len, a, base, size, data
<1> QED BY <1>1, <1>2

\* There is such a function: each of its values is made of the one before.
LEMMA FoundExists ==
  ASSUME NEW program, Len(program) \in Nat, NEW addr
  PROVE  \E bytes : Found(bytes, program, addr)
<1> DEFINE IsPart(g, n) == g = [k \in 0..n |-> IF k = 0 THEN <<>>
                                             ELSE Continued(g[k - 1], program[k], addr)]
           S == {n \in Nat : \E g : IsPart(g, n)}
<1>1. 0 \in S
  <2> DEFINE g == [k \in 0..0 |-> <<>>]
  <2>1. IsPart(g, 0)
    OBVIOUS
  <2> QED BY <2>1
<1>2. ASSUME NEW n \in S PROVE n + 1 \in S
  <2>1. PICK g : IsPart(g, n)
    OBVIOUS
  <2> DEFINE h == [k \in 0..(n + 1) |-> IF k <= n THEN g[k]
                                       ELSE Continued(g[n], program[n + 1], addr)]
  <2>2. n \in Nat
    OBVIOUS
  <2>3. ASSUME NEW k \in 0..(n + 1)
        PROVE  h[k] = IF k = 0 THEN <<>> ELSE Continued(h[k - 1], program[k], addr)
    <3>1. CASE k = 0
      BY <2>1, <2>2, <3>1
    <3>2. CASE k \in 1..n
      <4>1. k - 1 \in 0..n /\ k \in 0..n /\ k # 0 /\ k - 1 \in 0..(n + 1) /\ k <= n /\ k - 1 <= n
        BY <2>2, <3>2
      <4>2. h[k] = g[k] /\ h[k - 1] = g[k - 1]
        BY <4>1
      <4>3. g[k] = Continued(g[k - 1], program[k], addr)
        BY <2>1, <4>1
      <4> QED BY <4>1, <4>2, <4>3
    <3>3. CASE k = n + 1
      <4>1. k - 1 = n /\ n \in 0..(n + 1) /\ n <= n /\ ~(n + 1 <= n) /\ k # 0 /\ n + 1 \in 0..(n + 1)
        BY <2>2, <3>3
      <4>2. h[n] = g[n] /\ h[n + 1] = Continued(g[n], program[n + 1], addr)
        BY <4>1
      <4> QED BY <3>3, <4>1, <4>2
    <3> QED BY <2>2, <3>1, <3>2, <3>3
  <2>4. IsPart(h, n + 1)
    BY <2>3
  <2> HIDE DEF h, IsPart
  <2> QED BY <2>2, <2>4
<1> HIDE DEF S
<1>3. S = Nat
  <2>1. S \in SUBSET Nat
    BY DEF S
  <2> QED BY <1>1, <1>2, <2>1, SetInduction
<1>4. PICK g : IsPart(g, Len(program))
  BY <1>3 DEF S
<1> QED BY <1>4 DEF Found

Area(p) == p.paddr .. p.paddr + p.memsz - 1

\* What the first n segments leave of a page: their bytes without a gap, up to an address
\* none of them covers.
Part(b, program, n, addr) ==
  /\ b \in Seq(Int) /\ Len(b) <= PageSize
  /\ \A m \in 1..Len(b) : \E j \in 1..n :
       addr + m - 1 \in Area(program[j]) /\ b[m] = program[j].data[addr + m - program[j].paddr]
  /\ Len(b) = PageSize \/ \A j \in 1..n : addr + Len(b) \notin Area(program[j])

LEMMA SideBySideFacts ==
  ASSUME NEW program, SideBySide(program)
  PROVE  /\ Len(program) \in Nat
         /\ \A i \in 1..Len(program) :
              /\ program[i] \in Segments /\ Len(program[i].data) = program[i].memsz
              /\ FlashStart <= program[i].paddr /\ program[i].paddr + program[i].memsz - 1 <= FlashEnd
              /\ \/ (program[i].paddr - FlashStart) % PageSize = 0
                 \/ \E j \in 1..Len(program) :
                      program[j].paddr + program[j].memsz = program[i].paddr
         /\ \A i, j \in 1..Len(program) :
              i < j => program[i].paddr + program[i].memsz <= program[j].paddr
<1>1. program \in Seq(Segments) /\ DOMAIN program = 1..Len(program) /\ Len(program) \in Nat
  BY DEF SideBySide, Segments
<1>2. \A i \in 1..Len(program) : program[i] \in Segments
  BY <1>1
<1> QED BY <1>1, <1>2 DEF SideBySide

LEMMA PartStep ==
  ASSUME NEW program, SideBySide(program), NEW addr \in Int, NEW n \in Nat, n + 1 <= Len(program),
         NEW b, Part(b, program, n, addr)
  PROVE  Part(Continued(b, program[n + 1], addr), program, n + 1, addr)
<1> DEFINE p == program[n + 1]
           c == Continued(b, p, addr)
<1>1. /\ p \in Segments /\ Len(p.data) = p.memsz /\ n + 1 \in 1..Len(program)
      /\ p.paddr \in Nat /\ p.memsz \in Nat \ {0}
  BY SideBySideFacts DEF Segments
<1>2. b \in Seq(Int) /\ Len(b) <= PageSize /\ Len(b) \in Nat
  BY DEF Part
<1>3. \A j \in 1..n : j \in 1..(n + 1)
  OBVIOUS
<1>4. CASE addr + Len(b) \in Area(p)
  <2>1. /\ c \in Seq(Int)
        /\ Len(b) <= Len(c) /\ Len(c) <= PageSize
        /\ \A m \in 1..Len(b) : c[m] = b[m]
        /\ \A m \in Len(b) + 1 .. Len(c) :
             /\ addr + m - 1 \in p.paddr .. p.paddr + p.memsz - 1
             /\ c[m] = p.data[addr + m - p.paddr]
        /\ Len(c) = PageSize \/ addr + Len(c) = p.paddr + p.memsz
    BY <1>1, <1>2, <1>4, ContinuedBytes DEF Area
  <2> HIDE DEF c
  <2>2. ASSUME NEW m \in 1..Len(c)
        PROVE  \E j \in 1..(n + 1) : addr + m - 1 \in Area(program[j])
                                   /\ c[m] = program[j].data[addr + m - program[j].paddr]
    <3>1. CASE m \in 1..Len(b)
      <4>1. PICK j \in 1..n : addr + m - 1 \in Area(program[j])
                             /\ b[m] = program[j].data[addr + m - program[j].paddr]
        BY <3>1 DEF Part
      <4> QED BY <1>3, <2>1, <3>1, <4>1
    <3>2. CASE m \in Len(b) + 1 .. Len(c)
      <4>1. addr + m - 1 \in Area(p) /\ c[m] = p.data[addr + m - p.paddr]
        BY <2>1, <3>2 DEF Area
      <4>2. n + 1 \in 1..(n + 1)
        OBVIOUS
      <4> QED BY <4>1, <4>2
    <3>3. m \in 1..Len(b) \/ m \in Len(b) + 1 .. Len(c)
      <4>1. Len(c) \in Nat
        BY <2>1
      <4> QED BY <4>1, <1>2
    <3> QED BY <3>1, <3>2, <3>3
  <2>3. ASSUME addr + Len(c) = p.paddr + p.memsz, NEW j \in 1..(n + 1)
        PROVE  addr + Len(c) \notin Area(program[j])
    <3>1. CASE j = n + 1
      BY <1>1, <2>3, <3>1 DEF Area
    <3>2. CASE j \in 1..n
      <4>1. j \in 1..Len(program) /\ j < n + 1
        BY <3>2, <1>1
      <4>2. program[j].paddr + program[j].memsz <= p.paddr
        BY <4>1, <1>1, SideBySideFacts
      <4>3. program[j].paddr \in Nat /\ program[j].memsz \in Nat
        BY <4>1, SideBySideFacts DEF Segments
      <4> DEFINE x == program[j].paddr
                 y == program[j].memsz
                 z == p.paddr
                 t == p.memsz
                 e == addr + Len(c)
      <4>4. x \in Nat /\ y \in Nat /\ z \in Nat /\ t \in Nat /\ x + y <= z /\ e = z + t
        BY <1>1, <2>3, <4>2, <4>3
      <4> HIDE DEF x, y, z, t, e
      <4>5. e \notin x .. x + y - 1
        BY <4>4
      <4> QED BY <4>5 DEF x, y, e, Area
    <3> QED BY <3>1, <3>2
  <2>4. Len(c) = PageSize \/ \A j \in 1..(n + 1) : addr + Len(c) \notin Area(program[j])
    BY <2>1, <2>3
  <2> QED BY <2>1, <2>2, <2>4 DEF Part, c
<1>5. CASE addr + Len(b) \notin Area(p)
  <2>1. c = b
    BY <1>5 DEF Continued, Area
  <2>2. ASSUME NEW m \in 1..Len(b)
        PROVE  \E j \in 1..(n + 1) : addr + m - 1 \in Area(program[j])
                                   /\ b[m] = program[j].data[addr + m - program[j].paddr]
    <3>1. PICK j \in 1..n : addr + m - 1 \in Area(program[j])
                           /\ b[m] = program[j].data[addr + m - program[j].paddr]
      BY DEF Part
    <3> QED BY <1>3, <3>1
  <2>3. ASSUME NEW j \in 1..(n + 1), Len(b) # PageSize
        PROVE  addr + Len(b) \notin Area(program[j])
    <3>1. CASE j = n + 1
      BY <1>5, <3>1
    <3>2. CASE j \in 1..n
      BY <2>3, <3>2 DEF Part
    <3> QED BY <3>1, <3>2
  <2> HIDE DEF c
  <2>4. Part(b, program, n + 1, addr)
    BY <1>2, <2>2, <2>3 DEF Part
  <2> QED BY <2>1, <2>4 DEF c
<1> QED BY <1>4, <1>5

LEMMA PartOfAll ==
  ASSUME NEW program, SideBySide(program), NEW addr \in Int
  PROVE  Part(MemoryOf(program, addr), program, Len(program), addr)
<1>1. Len(program) \in Nat
  BY SideBySideFacts
<1>2. PICK bytes : Found(bytes, program, addr) /\ MemoryOf(program, addr) = bytes[Len(program)]
  BY <1>1, FoundExists, MemoryFound
<1> DEFINE S == {n \in Nat : n <= Len(program) => Part(bytes[n], program, n, addr)}
<1>3. 0 \in S
  <2>1. bytes[0] = <<>>
    BY <1>1, <1>2 DEF Found
  <2>2. Part(<<>>, program, 0, addr)
    BY AddressAssumption DEF Part
  <2> QED BY <2>1, <2>2
<1>4. ASSUME NEW n \in S PROVE n + 1 \in S
  <2> SUFFICES ASSUME n + 1 <= Len(program) PROVE Part(bytes[n + 1], program, n + 1, addr)
    OBVIOUS
  <2>1. n \in Nat /\ Part(bytes[n], program, n, addr)
    BY <1>1, <1>4
  <2>2. n + 1 \in 0..Len(program) /\ n + 1 # 0 /\ (n + 1) - 1 = n
    BY <1>1, <2>1
  <2>3. bytes[n + 1] = Continued(bytes[(n + 1) - 1], program[n + 1], addr)
    BY <1>2, <2>2 DEF Found
  <2>4. bytes[n + 1] = Continued(bytes[n], program[n + 1], addr)
    BY <2>2, <2>3
  <2> QED BY <2>1, <2>4, PartStep
<1> HIDE DEF S
<1>5. S = Nat
  <2>1. S \in SUBSET Nat
    BY DEF S
  <2> QED BY <1>3, <1>4, <2>1, SetInduction
<1> QED BY <1>1, <1>2, <1>5 DEF S

\* The areas of two segments share no address.
LEMMA OneSegment ==
  ASSUME NEW program, SideBySide(program), NEW i \in 1..Len(program), NEW j \in 1..Len(program),
         NEW x \in Int, x \in Area(program[i]), x \in Area(program[j])
  PROVE  i = j
<1>1. ASSUME NEW l \in 1..Len(program), NEW n \in 1..Len(program),
             x \in Area(program[l]), x \in Area(program[n]), l < n
      PROVE  FALSE
  <2>1. program[l].paddr + program[l].memsz <= program[n].paddr
    BY <1>1, SideBySideFacts
  <2>2. /\ program[l].paddr \in Nat /\ program[l].memsz \in Nat
        /\ program[n].paddr \in Nat /\ program[n].memsz \in Nat
    BY SideBySideFacts DEF Segments
  <2>3. x <= program[l].paddr + program[l].memsz - 1 /\ program[n].paddr <= x
    BY <1>1, <2>2 DEF Area
  <2> DEFINE r == program[l].paddr
             s == program[l].memsz
             t == program[n].paddr
  <2>4. r \in Nat /\ s \in Nat /\ t \in Nat /\ r + s <= t /\ x <= r + s - 1 /\ t <= x
    BY <2>1, <2>2, <2>3
  <2> HIDE DEF r, s, t
  <2> QED BY <2>4
<1>2. i \in Int /\ j \in Int
  BY SideBySideFacts
<1> QED BY <1>1, <1>2

\* Where an address of a page is covered, so is every address of the page before it from
\* some segment's first on: a gap would have to end with a segment that follows another.
LEMMA NoGap ==
  ASSUME NEW program, SideBySide(program), NEW page \in Int, NEW g \in Int, NEW x \in Int,
         NEW i \in 1..Len(program), x \in Area(program[i]),
         (page - FlashStart) % PageSize = 0, page <= g, g <= x, x <= page + (PageSize - 1)
  PROVE  \E j \in 1..Len(program) : g \in Area(program[j])
<1> SUFFICES ASSUME \A j \in 1..Len(program) : g \notin Area(program[j]) PROVE FALSE
  OBVIOUS
<1> DEFINE T == {y \in Nat : g < y /\ y <= x /\ \E j \in 1..Len(program) : y = program[j].paddr}
<1>1. \A j \in 1..Len(program) : program[j].paddr \in Nat /\ program[j].memsz \in Nat \ {0}
  BY SideBySideFacts DEF Segments
<1>2. program[i].paddr \in T
  <2>1. g \notin Area(program[i]) /\ x \in Area(program[i])
    OBVIOUS
  <2> DEFINE r == program[i].paddr
             s == program[i].memsz
  <2>2. r \in Nat /\ s \in Nat /\ g \notin r .. r + s - 1 /\ x \in r .. r + s - 1
    BY <1>1, <2>1 DEF Area
  <2>3. r \in Nat /\ g < r /\ r <= x
    <3> HIDE DEF r, s
    <3> QED BY <2>2
  <2> QED BY <2>3
<1>3. PICK y \in T : \A z \in T : y <= z
  <2>1. T \in SUBSET Nat /\ T # {}
    BY <1>2
  <2> HIDE DEF T
  <2> QED BY <2>1, LeastElement
<1>4. PICK j \in 1..Len(program) : y = program[j].paddr
  OBVIOUS
<1>5. y \in Nat /\ g < y /\ y <= x
  OBVIOUS
<1>6. (y - FlashStart) % PageSize # 0
  <2>1. FlashStart \in Nat /\ PageSize \in Nat \ {0} /\ page - FlashStart \in Int
    BY AddressAssumption
  <2>2. y - page \in 1..(PageSize - 1)
    BY <1>5, <2>1
  <2>3. ((page - FlashStart) + (y - page)) % PageSize # 0
    BY <2>1, <2>2, NextBorder
  <2>4. (page - FlashStart) + (y - page) = y - FlashStart
    BY <1>5, <2>1
  <2> QED BY <2>3, <2>4
<1>7. PICK l \in 1..Len(program) : program[l].paddr + program[l].memsz = y
  BY <1>4, <1>6, SideBySideFacts
<1> DEFINE r == program[l].paddr
           s == program[l].memsz
<1>8. r \in Nat /\ s \in Nat \ {0} /\ r + s = y /\ g \notin r .. r + s - 1
  BY <1>1, <1>7 DEF Area
<1>9. r \in T => y <= r
  BY <1>3
<1>10. r \in Nat /\ g < r /\ r <= x => r \in T
  OBVIOUS
<1> HIDE DEF r, s, T
<1>11. g < r /\ r <= x /\ r < y
  BY <1>5, <1>8
<1> QED BY <1>5, <1>8, <1>9, <1>10, <1>11

\* Every byte of the program is in the page of its address, at its place.
LEMMA ByteFound ==
  ASSUME NEW program, SideBySide(program),
         NEW i \in 1..Len(program), NEW k \in 1..program[i].memsz
  PROVE  LET addr   == program[i].paddr + k - 1
             offset == (addr - FlashStart) % PageSize
             b      == MemoryOf(program, addr - offset)
         IN  /\ addr - offset \in Pages /\ b # <<>>
             /\ Filled(b)[offset + 1] = program[i].data[k]
<1> DEFINE addr   == program[i].paddr + k - 1
           offset == (addr - FlashStart) % PageSize
           page   == addr - offset
           b      == MemoryOf(program, page)
<1>1. /\ program[i].paddr \in Nat /\ program[i].memsz \in Nat \ {0} /\ k \in Nat
      /\ FlashStart <= program[i].paddr /\ program[i].paddr + program[i].memsz - 1 <= FlashEnd
      /\ FlashStart \in Nat /\ FlashEnd \in Nat /\ PageSize \in Nat \ {0}
  BY AddressAssumption, SideBySideFacts DEF Segments
<1>2. /\ addr \in Nat /\ FlashStart <= addr /\ addr <= FlashEnd /\ addr \in Area(program[i])
      /\ addr + 1 - program[i].paddr = k /\ addr - FlashStart \in Nat
  <2> DEFINE r == program[i].paddr
             t == program[i].memsz
  <2>1. r \in Nat /\ t \in Nat \ {0} /\ FlashStart <= r /\ r + t - 1 <= FlashEnd /\ k \in 1..t
    BY <1>1
  <2>2. addr = r + k - 1
    OBVIOUS
  <2> HIDE DEF r, t, addr
  <2>3. addr \in Nat /\ FlashStart <= addr /\ addr <= FlashEnd /\ addr \in r .. r + t - 1
        /\ addr + 1 - r = k /\ addr - FlashStart \in Nat
    BY <1>1, <2>1, <2>2
  <2> QED BY <2>3 DEF r, t, Area
<1> HIDE DEF addr
<1>3. /\ offset \in 0..(PageSize - 1)
      /\ 0 <= (addr - FlashStart) - offset /\ ((addr - FlashStart) - offset) % PageSize = 0
  BY <1>1, <1>2, PageStart
<1> HIDE DEF offset
<1>4. page \in Int /\ page = addr - offset
  BY <1>1, <1>2, <1>3
<1> HIDE DEF page
<1>5. page - FlashStart = (addr - FlashStart) - offset
  BY <1>1, <1>2, <1>3, <1>4
<1>6. /\ page \in FlashStart..FlashEnd /\ page <= addr /\ addr <= page + (PageSize - 1)
      /\ addr = page + offset
  BY <1>1, <1>2, <1>3, <1>4, <1>5
<1>7. (page - FlashStart) % PageSize = 0
  BY <1>3, <1>5
<1>8. page \in Pages
  BY <1>6, <1>7 DEF Pages
<1>9. Part(b, program, Len(program), page)
  BY <1>4, PartOfAll
<1> HIDE DEF b
<1>10. b \in Seq(Int) /\ Len(b) \in Nat /\ Len(b) <= PageSize
  BY <1>9 DEF Part
<1>11. offset + 1 <= Len(b)
  <2> SUFFICES ASSUME Len(b) < offset + 1 PROVE FALSE
    BY <1>3, <1>10
  <2>1. Len(b) # PageSize
    BY <1>1, <1>3, <1>10
  <2>2. /\ page + Len(b) \in Int /\ page <= page + Len(b) /\ page + Len(b) <= addr
    BY <1>3, <1>4, <1>6, <1>10
  <2>3. PICK j \in 1..Len(program) : page + Len(b) \in Area(program[j])
    BY <1>2, <1>4, <1>6, <1>7, <2>2, NoGap
  <2> QED BY <1>9, <2>1, <2>3 DEF Part
<1>12. offset + 1 \in 1..Len(b) /\ page + (offset + 1) - 1 = addr /\ page + (offset + 1) = addr + 1
  BY <1>3, <1>4, <1>6, <1>10, <1>11
<1>13. PICK j \in 1..Len(program) :
         /\ page + (offset + 1) - 1 \in Area(program[j])
         /\ b[offset + 1] = program[j].data[page + (offset + 1) - program[j].paddr]
  BY <1>9, <1>12 DEF Part
<1>14. j = i
  BY <1>2, <1>12, <1>13, OneSegment
<1>15. b[offset + 1] = program[i].data[k]
  <2>1. b[offset + 1] = program[i].data[page + (offset + 1) - program[i].paddr]
    BY <1>13, <1>14
  <2>2. page + (offset + 1) - program[i].paddr = k
    <3> DEFINE r == program[i].paddr
    <3>1. page + (offset + 1) = addr + 1 /\ addr + 1 - r = k /\ r \in Nat
      BY <1>1, <1>2, <1>12
    <3> HIDE DEF r
    <3>2. page + (offset + 1) - r = k
      BY <1>2, <1>3, <1>4, <3>1
    <3> QED BY <3>2 DEF r
  <2> QED BY <2>1, <2>2
<1>16. Filled(b)[offset + 1] = b[offset + 1]
  <2>1. offset + 1 \in 1..PageSize /\ offset + 1 <= Len(b)
    BY <1>1, <1>3, <1>11
  <2> QED BY <2>1 DEF Filled
<1>17. b # <<>>
  BY <1>10, <1>12
<1> QED BY <1>4, <1>8, <1>15, <1>16, <1>17 DEF addr, offset, page, b

-----------------------------------------------------------------------------
(***************************************************************************)
(* The invariant.  As long as no page has failed, tool and target go in    *)
(* lockstep: one command at a time is on the line, read, executed and      *)
(* answered, and only when the command was read as it was sent can the     *)
(* request come to wait for its answer.  Once a page has failed, main()    *)
(* closes the port before it looks at what was written, so that the        *)
(* request under way never gets that far (Stuck).                          *)
(***************************************************************************)
States   == {"none", "waitingForSend", "waitingForBytesWritten", "waitingForCommand",
             "waitingForResponse", "done"}
Outcomes == {"none", "open", "ok", "error"}

SerialType(line) ==
  [waiting : SUBSET Requests, pending : Requests \cup {None, ResetRequest}, line : {line},
   writing : SUBSET Requests, state : [Pages -> States], outcome : [Pages -> Outcomes]]

QueueOf(s) ==
  /\ s \in SerialType(s.line)
  /\ s.waiting = {a \in Pages : s.state[a] = "waitingForSend" /\ s.outcome[a] = "open"}
  /\ s.pending \in Pages => s.state[s.pending] \notin {"none", "waitingForSend", "done"}
  /\ \A a \in s.writing : s.state[a] \notin {"none", "waitingForSend"}
  /\ \A a \in Pages : s.outcome[a] # "none" => a \in Requests

Types ==
  /\ elf \in Elfs
  /\ stage \in {"start", "reset", "awaitId", "flashing", "closed", "failed"}
  /\ target \in [application : BOOLEAN, phase : {"idle", "busy", "answering"},
                 command : {target.command}]
  /\ DOMAIN flash = Pages
  /\ noise \in Nat /\ noise <= MaxNoise

Queue == QueueOf(serial)

Early ==
  stage \in {"start", "reset", "awaitId"} =>
    /\ serial.line = <<>> /\ serial.waiting = {} /\ serial.writing = {}
    /\ serial.pending \in {None, ResetRequest}
    /\ \A a \in Pages : serial.state[a] = "none" /\ serial.outcome[a] = "none"
    /\ target.phase = "idle"
    /\ answers = IF stage = "awaitId" THEN <<[kind |-> "id"]>> ELSE <<>>

Failed == \E a \in Pages : serial.outcome[a] = "error"

Stuck ==
  stage = "flashing" /\ Failed /\ serial.pending \in Pages =>
    serial.state[serial.pending] = "waitingForBytesWritten"

Holds(a) == flash[a] = Filled(FlashMemory(a))
Right == \A a \in Pages : serial.outcome[a] = "ok" => Holds(a)

Quiet == serial.line = <<>> /\ answers = <<>> /\ target.phase # "busy"

\* The command of page p waits on the line,
InLine(p) ==
  /\ Len(serial.line) = 1 /\ serial.line = <<serial.line[1]>>
  /\ serial.line[1].command = Command(p)
  /\ serial.state[p] # "waitingForResponse"
  /\ answers = <<>> /\ target.phase # "busy" /\ Right

\* or is lost,
Vanished(p) == Quiet /\ serial.state[p] # "waitingForResponse"

\* or was read as target.command,
Read(p) ==
  /\ serial.line = <<>> /\ target.phase = "busy" /\ serial.state[p] # "waitingForResponse"
  /\ answers = <<[kind |-> "echo", command |-> target.command]>>
  /\ target.command = Command(p) => Right

\* or executed and answered,
Executed(p) ==
  /\ serial.line = <<>> /\ target.phase # "busy" /\ serial.state[p] # "waitingForResponse"
  /\ Len(answers) = 2 /\ answers = <<answers[1], answers[2]>>
  /\ answers[1].kind = "echo" /\ answers[2].kind = "response"
  /\ answers[2].status \in Int
  /\ answers[1].command = Command(p) => Right /\ (answers[2].status = 0 => Holds(p))

\* and the tool has handled the echo.
Echoed(p) ==
  /\ serial.line = <<>> /\ target.phase # "busy"
  /\ Len(answers) = 1 /\ answers = <<answers[1]>>
  /\ answers[1].kind = "response" /\ answers[1].status \in Int
  /\ serial.state[p] = "waitingForResponse" => Right /\ (answers[1].status = 0 => Holds(p))

UnderWay(p) ==
  /\ p \in Requests /\ serial.outcome[p] = "open"
  /\ InLine(p) \/ Vanished(p) \/ Read(p) \/ Executed(p) \/ Echoed(p)

LockStep ==
  stage \in {"flashing", "closed"} /\ ~Failed =>
    /\ \A a \in Requests : \/ serial.outcome[a] = "ok" \/ a \in serial.waiting
                           \/ a = serial.pending
    /\ IF serial.pending = None THEN serial.waiting = {} /\ Quiet /\ Right
       ELSE UnderWay(serial.pending)

IInv == Types /\ Queue /\ Early /\ Stuck /\ LockStep

-----------------------------------------------------------------------------
(***************************************************************************)
(* The operators of Serial.                                                *)
(***************************************************************************)
LEMMA PagesAreNumbers ==
  Pages \subseteq Nat /\ Requests \subseteq Pages /\ None \notin Pages /\ ResetRequest \notin Pages
BY AddressAssumption DEF Pages, Requests

LEMMA SameElf ==
  ASSUME elf' = elf
  PROVE  /\ Requests' = Requests
         /\ \A a : Command(a)' = Command(a)
         /\ \A a : FlashMemory(a)' = FlashMemory(a)
<1>1. \A a : FlashMemory(a)' = FlashMemory(a)
  BY DEF FlashMemory, Program
<1>2. \A a : Command(a)' = Command(a)
  BY DEF Command, FlashMemory, Program
<1>3. Requests' = Requests
  BY DEF Requests, FlashMemory, Program
<1> QED BY <1>1, <1>2, <1>3

\* The next request is one of those that wait.
LEMMA MinOfWaiting ==
  ASSUME NEW T \in SUBSET Requests, T # {}
  PROVE  Min(T) \in T
<1>1. PICK x \in T : \A y \in T : x <= y
  BY PagesAreNumbers, LeastElement
<1> QED BY <1>1 DEF Min

\* sendNextRequest does nothing, fails everything that waits, or sends one request.
LEMMA SendCases ==
  ASSUME NEW t, t \in SerialType(t.line)
  PROVE  LET n == SendNextRequest(t) IN
         \/ (t.pending # None \/ t.waiting = {}) /\ n = t
         \/ /\ t.pending = None /\ stage = "closed"
            /\ n = [t EXCEPT !.waiting = {}, !.outcome = Settled(t.outcome, t.waiting, "error")]
         \/ /\ t.pending = None /\ stage # "closed"
            /\ \E a \in t.waiting :
                 n = [t EXCEPT !.waiting = t.waiting \ {a}, !.pending = a,
                               !.writing = t.writing \union {a},
                               !.state[a] = "waitingForBytesWritten",
                               !.line = Append(t.line, [command |-> Command(a),
                                                        overrun |-> target.phase = "answering"])]
<1>1. CASE t.pending # None \/ t.waiting = {}
  BY <1>1 DEF SendNextRequest
<1>2. CASE t.pending = None /\ t.waiting # {} /\ stage = "closed"
  BY <1>2 DEF SendNextRequest
<1>3. CASE t.pending = None /\ t.waiting # {} /\ stage # "closed"
  <2>1. Min(t.waiting) \in t.waiting
    BY <1>3, MinOfWaiting DEF SerialType
  <2> QED BY <1>3, <2>1 DEF SendNextRequest
<1> QED BY <1>1, <1>2, <1>3

LEMMA SettledFacts ==
  ASSUME NEW o \in [Pages -> Outcomes], NEW A, NEW v \in {"ok", "error"}
  PROVE  /\ Settled(o, A, v) \in [Pages -> Outcomes]
         /\ \A a \in Pages : a \notin A => Settled(o, A, v)[a] = o[a]
         /\ \A a \in Pages : o[a] # "open" => Settled(o, A, v)[a] = o[a]
         /\ \A a \in Pages : a \in A /\ o[a] = "open" => Settled(o, A, v)[a] = v
BY DEF Settled, Outcomes

LEMMA SendKeepsQueue ==
  ASSUME NEW t, QueueOf(t)
  PROVE  LET n == SendNextRequest(t) IN
         /\ QueueOf(n)
         /\ \A a \in Pages : t.outcome[a] # "open" => n.outcome[a] = t.outcome[a]
         /\ \A a \in Pages : n.outcome[a] = "ok" => t.outcome[a] = "ok"
<1> DEFINE n == SendNextRequest(t)
<1>1. t \in SerialType(t.line) /\ Pages \subseteq Nat /\ Requests \subseteq Pages
      /\ None \notin Pages
  BY PagesAreNumbers DEF QueueOf
<1>2. CASE n = t
  BY <1>2
<1>3. CASE n = [t EXCEPT !.waiting = {}, !.outcome = Settled(t.outcome, t.waiting, "error")]
  <2> DEFINE o == Settled(t.outcome, t.waiting, "error")
  <2>1. /\ o \in [Pages -> Outcomes]
        /\ \A a \in Pages : a \notin t.waiting => o[a] = t.outcome[a]
        /\ \A a \in Pages : t.outcome[a] # "open" => o[a] = t.outcome[a]
        /\ \A a \in Pages : a \in t.waiting /\ t.outcome[a] = "open" => o[a] = "error"
    BY <1>1, SettledFacts DEF SerialType
  <2> HIDE DEF o
  <2>2. n = [t EXCEPT !.waiting = {}, !.outcome = o]
    BY <1>3 DEF o
  <2> HIDE DEF n
  <2>3. /\ n \in SerialType(n.line) /\ n.waiting = {} /\ n.pending = t.pending
        /\ n.writing = t.writing /\ n.state = t.state /\ n.outcome = o
    BY <1>1, <2>1, <2>2 DEF SerialType
  <2>4. \A a \in Pages : ~(t.state[a] = "waitingForSend" /\ o[a] = "open")
    BY <2>1 DEF QueueOf
  <2>5. \A a \in Pages : o[a] # "none" => a \in Requests
    BY <2>1 DEF QueueOf
  <2> QED BY <2>1, <2>3, <2>4, <2>5 DEF QueueOf, n
<1>4. CASE \E a \in t.waiting :
             n = [t EXCEPT !.waiting = t.waiting \ {a}, !.pending = a,
                           !.writing = t.writing \union {a},
                           !.state[a] = "waitingForBytesWritten",
                           !.line = Append(t.line, [command |-> Command(a),
                                                    overrun |-> target.phase = "answering"])]
  <2> HIDE DEF n
  <2>1. PICK a \in t.waiting :
             n = [t EXCEPT !.waiting = t.waiting \ {a}, !.pending = a,
                           !.writing = t.writing \union {a},
                           !.state[a] = "waitingForBytesWritten",
                           !.line = Append(t.line, [command |-> Command(a),
                                                    overrun |-> target.phase = "answering"])]
    BY <1>4
  <2>2. a \in Requests /\ a \in Pages
    BY <1>1 DEF SerialType
  <2>3. /\ n \in SerialType(n.line) /\ n.waiting = t.waiting \ {a} /\ n.pending = a
        /\ n.writing = t.writing \union {a} /\ n.outcome = t.outcome
        /\ n.state = [t.state EXCEPT ![a] = "waitingForBytesWritten"]
    BY <1>1, <2>1, <2>2 DEF SerialType, States
  <2>4. /\ n.state[a] = "waitingForBytesWritten"
        /\ \A b \in Pages : b # a => n.state[b] = t.state[b]
    BY <1>1, <2>2, <2>3 DEF SerialType
  <2>5. n.waiting = {b \in Pages : n.state[b] = "waitingForSend" /\ n.outcome[b] = "open"}
    BY <2>3, <2>4 DEF QueueOf
  <2>6. \A b \in n.writing : n.state[b] \notin {"none", "waitingForSend"}
    <3>1. t.writing \subseteq Pages
      BY <1>1 DEF SerialType
    <3> QED BY <2>3, <2>4, <3>1 DEF QueueOf
  <2> QED BY <2>3, <2>4, <2>5, <2>6 DEF QueueOf, n
<1> QED BY <1>1, <1>2, <1>3, <1>4, SendCases

\* What sendNextRequest leaves when no request is under way: none, because none waits, or one
\* that waited before.
Advanced(n, t) ==
  IF n.pending = None
  THEN t.waiting = {} /\ n.waiting = {} /\ n.line = t.line
  ELSE /\ n.pending \in t.waiting /\ n.waiting = t.waiting \ {n.pending}
       /\ n.state[n.pending] = "waitingForBytesWritten"
       /\ n.line = Append(t.line, [command |-> Command(n.pending),
                                   overrun |-> target.phase = "answering"])

LEMMA SendAdvances ==
  ASSUME NEW t, QueueOf(t), t.pending = None, stage # "closed"
  PROVE  LET n == SendNextRequest(t) IN n.outcome = t.outcome /\ Advanced(n, t)
<1> DEFINE n == SendNextRequest(t)
<1>1. t \in SerialType(t.line) /\ None \notin Pages /\ Requests \subseteq Pages
  BY PagesAreNumbers DEF QueueOf
<1>2. CASE t.waiting = {} /\ n = t
  BY <1>2 DEF Advanced
<1>3. CASE \E a \in t.waiting :
             n = [t EXCEPT !.waiting = t.waiting \ {a}, !.pending = a,
                           !.writing = t.writing \union {a},
                           !.state[a] = "waitingForBytesWritten",
                           !.line = Append(t.line, [command |-> Command(a),
                                                    overrun |-> target.phase = "answering"])]
  <2> HIDE DEF n
  <2>1. PICK a \in t.waiting :
             n = [t EXCEPT !.waiting = t.waiting \ {a}, !.pending = a,
                           !.writing = t.writing \union {a},
                           !.state[a] = "waitingForBytesWritten",
                           !.line = Append(t.line, [command |-> Command(a),
                                                    overrun |-> target.phase = "answering"])]
    BY <1>3
  <2>2. a \in Pages /\ a # None
    BY <1>1 DEF SerialType
  <2>3. /\ n.waiting = t.waiting \ {a} /\ n.pending = a /\ n.outcome = t.outcome
        /\ n.state[a] = "waitingForBytesWritten"
        /\ n.line = Append(t.line, [command |-> Command(a), overrun |-> target.phase = "answering"])
    BY <1>1, <2>1, <2>2 DEF SerialType
  <2> QED BY <2>2, <2>3 DEF Advanced, n
<1> QED BY <1>1, <1>2, <1>3, SendCases

LEMMA FinalizeFacts ==
  ASSUME QueueOf(serial), serial.pending \in Pages, NEW v \in {"ok", "error"}, stage # "closed"
  PROVE  LET n == Finalize(v) IN
         /\ QueueOf(n) /\ Advanced(n, serial)
         /\ n.outcome = Settled(serial.outcome, {serial.pending}, v)
<1> DEFINE p == serial.pending
           o == Settled(serial.outcome, {p}, v)
           t == [serial EXCEPT !.pending = None, !.state[p] = "done", !.outcome = o]
<1>1. /\ serial \in SerialType(serial.line) /\ None \notin Pages /\ Requests \subseteq Pages
      /\ p \in Pages
  BY PagesAreNumbers DEF QueueOf
<1>2. /\ o \in [Pages -> Outcomes] /\ \A a \in Pages : a # p => o[a] = serial.outcome[a]
      /\ serial.outcome[p] # "open" => o[p] = serial.outcome[p]
  BY <1>1, SettledFacts DEF SerialType
<1>3. Finalize(v) = SendNextRequest(t)
  BY DEF Finalize
<1> HIDE DEF o
<1>4. /\ t \in SerialType(t.line) /\ t.waiting = serial.waiting /\ t.line = serial.line
      /\ t.writing = serial.writing /\ t.outcome = o /\ t.pending = None
      /\ t.state = [serial.state EXCEPT ![p] = "done"]
  BY <1>1, <1>2 DEF SerialType, States
<1> HIDE DEF t
<1>5. t.state[p] = "done" /\ \A b \in Pages : b # p => t.state[b] = serial.state[b]
  BY <1>1, <1>4 DEF SerialType
<1>6. p \in Requests
  BY <1>1, PagesAreNumbers DEF SerialType, QueueOf
<1>7. QueueOf(t)
  <2>1. t.waiting = {b \in Pages : t.state[b] = "waitingForSend" /\ t.outcome[b] = "open"}
    BY <1>1, <1>2, <1>4, <1>5 DEF QueueOf
  <2>2. \A b \in t.writing : t.state[b] \notin {"none", "waitingForSend"}
    <3>1. serial.writing \subseteq Pages
      BY <1>1 DEF SerialType
    <3> QED BY <1>4, <1>5, <3>1 DEF QueueOf
  <2>3. \A b \in Pages : t.outcome[b] # "none" => b \in Requests
    BY <1>2, <1>4, <1>6 DEF QueueOf
  <2> QED BY <1>1, <1>4, <2>1, <2>2, <2>3 DEF QueueOf
<1>8. QueueOf(Finalize(v))
  BY <1>3, <1>7, SendKeepsQueue
<1>9. Finalize(v).outcome = o /\ Advanced(Finalize(v), t)
  BY <1>3, <1>4, <1>7, SendAdvances
<1> QED BY <1>4, <1>8, <1>9 DEF Advanced, o

LEMMA QueuePagesFacts ==
  ASSUME serial \in SerialType(serial.line), serial.writing = {}, stage # "closed",
         \A a \in Pages : serial.state[a] = "none" /\ serial.outcome[a] = "none"
  PROVE  LET n == QueuePages IN
         /\ QueueOf(n) /\ n.pending \in Requests \cup {None}
         /\ IF n.pending = None
            THEN Requests = {} /\ n.waiting = {} /\ n.line = serial.line
            ELSE /\ n.waiting = Requests \ {n.pending}
                 /\ n.state[n.pending] = "waitingForBytesWritten"
                 /\ n.line = Append(serial.line, [command |-> Command(n.pending),
                                                  overrun |-> target.phase = "answering"])
         /\ \A a \in Pages : n.outcome[a] = IF a \in Requests THEN "open" ELSE "none"
<1> DEFINE t == [serial EXCEPT
                   !.pending = None,
                   !.waiting = Requests,
                   !.state   = [a \in Pages |-> IF a \in Requests THEN "waitingForSend" ELSE @[a]],
                   !.outcome = [a \in Pages |-> IF a \in Requests THEN "open" ELSE @[a]]]
<1>1. None \notin Pages /\ Requests \subseteq Pages
  BY PagesAreNumbers
<1>2. QueuePages = SendNextRequest(t)
  BY DEF QueuePages
<1>3. /\ t \in SerialType(t.line) /\ t.waiting = Requests /\ t.line = serial.line
      /\ t.writing = {} /\ t.pending = None
      /\ \A a \in Pages : t.state[a] = IF a \in Requests THEN "waitingForSend" ELSE "none"
      /\ \A a \in Pages : t.outcome[a] = IF a \in Requests THEN "open" ELSE "none"
  BY DEF SerialType, States, Outcomes
<1> HIDE DEF t
<1>4. QueueOf(t)
  BY <1>1, <1>3 DEF QueueOf
<1>5. QueueOf(QueuePages)
  BY <1>2, <1>4, SendKeepsQueue
<1>6. QueuePages.outcome = t.outcome /\ Advanced(QueuePages, t)
  BY <1>2, <1>3, <1>4, SendAdvances
<1> QED BY <1>3, <1>5, <1>6 DEF Advanced

\* What handleReceivedCmd and handleReceivedResponse do.
LEMMA CmdCases ==
  ASSUME NEW c
  PROVE  \/ serial.pending \notin Pages /\ ReceivedCmd(c) = serial
         \/ /\ serial.pending \in Pages /\ c = Command(serial.pending)
            /\ serial.state[serial.pending] = "waitingForCommand"
            /\ ReceivedCmd(c) = [serial EXCEPT !.state[serial.pending] = "waitingForResponse"]
         \/ serial.pending \in Pages /\ ReceivedCmd(c) = Finalize("error")
BY DEF ReceivedCmd, Pending

LEMMA ResponseCases ==
  ASSUME NEW status
  PROVE  \/ serial.pending \notin Pages /\ ReceivedResponse(status) = serial
         \/ /\ serial.pending \in Pages /\ status \in {0, None}
            /\ serial.state[serial.pending] = "waitingForResponse"
            /\ ReceivedResponse(status) = Finalize("ok")
         \/ serial.pending \in Pages /\ ReceivedResponse(status) = Finalize("error")
BY DEF ReceivedResponse, Pending

\* The other changes of the queue: the echo is right,
LEMMA AwaitsResponse ==
  ASSUME QueueOf(serial), serial.pending \in Pages,
         NEW n, n = [serial EXCEPT !.state[serial.pending] = "waitingForResponse"]
  PROVE  /\ QueueOf(n) /\ n.pending = serial.pending /\ n.waiting = serial.waiting
         /\ n.line = serial.line /\ n.outcome = serial.outcome
         /\ n.state[n.pending] = "waitingForResponse"
<1> DEFINE p == serial.pending
<1>1. serial \in SerialType(serial.line)
  BY DEF QueueOf
<1>2. /\ n.pending = p /\ n.waiting = serial.waiting /\ n.line = serial.line
      /\ n.outcome = serial.outcome /\ n.writing = serial.writing
      /\ n.state = [serial.state EXCEPT ![p] = "waitingForResponse"]
      /\ n \in SerialType(n.line)
  BY <1>1 DEF SerialType, States
<1>3. /\ n.state[p] = "waitingForResponse"
      /\ \A b \in Pages : b # p => n.state[b] = serial.state[b]
  BY <1>1, <1>2 DEF SerialType
<1>4. n.waiting = {b \in Pages : n.state[b] = "waitingForSend" /\ n.outcome[b] = "open"}
  BY <1>2, <1>3 DEF QueueOf
<1>5. \A b \in n.writing : n.state[b] \notin {"none", "waitingForSend"}
  <2>1. serial.writing \subseteq Pages
    BY <1>1, PagesAreNumbers DEF SerialType
  <2> QED BY <1>2, <1>3, <2>1 DEF QueueOf
<1> QED BY <1>2, <1>3, <1>4, <1>5 DEF QueueOf

\* a page is written to the port,
Written(a) == [serial EXCEPT !.state[a] = "waitingForCommand", !.writing = @ \ {a}]

LEMMA PageWritten ==
  ASSUME QueueOf(serial), NEW a \in serial.writing, NEW n, n = Written(a)
  PROVE  /\ QueueOf(n) /\ n.pending = serial.pending /\ n.waiting = serial.waiting
         /\ n.line = serial.line /\ n.outcome = serial.outcome
         /\ a \in Pages /\ n.state[a] = "waitingForCommand"
         /\ \A b \in Pages : b # a => n.state[b] = serial.state[b]
<1>1. serial \in SerialType(serial.line) /\ a \in Pages
  BY PagesAreNumbers DEF QueueOf, SerialType
<1>2. /\ n.pending = serial.pending /\ n.waiting = serial.waiting
      /\ n.line = serial.line /\ n.outcome = serial.outcome
      /\ n.writing = serial.writing \ {a}
      /\ n.state = [serial.state EXCEPT ![a] = "waitingForCommand"]
      /\ n \in SerialType(n.line)
  BY <1>1 DEF SerialType, States, Written
<1>3. /\ n.state[a] = "waitingForCommand"
      /\ \A b \in Pages : b # a => n.state[b] = serial.state[b]
  BY <1>1, <1>2 DEF SerialType
<1>4. n.waiting = {b \in Pages : n.state[b] = "waitingForSend" /\ n.outcome[b] = "open"}
  BY <1>2, <1>3 DEF QueueOf
<1>5. \A b \in n.writing : n.state[b] \notin {"none", "waitingForSend"}
  <2>1. serial.writing \subseteq Pages
    BY <1>1, PagesAreNumbers DEF SerialType
  <2> QED BY <1>2, <1>3, <2>1 DEF QueueOf
<1> QED BY <1>1, <1>2, <1>3, <1>4, <1>5 DEF QueueOf

\* or is not.
LEMMA PageNotWritten ==
  ASSUME QueueOf(serial), NEW a \in serial.writing,
         NEW t, t \in SerialType(t.line), t.outcome = Settled(serial.outcome, {a}, "error"),
         t.waiting = serial.waiting, t.state = serial.state, t.writing = serial.writing \ {a},
         t.pending = IF serial.pending = a THEN None ELSE serial.pending
  PROVE  /\ QueueOf(t) /\ t.pending = IF serial.pending = a THEN None ELSE serial.pending
         /\ \A b \in Pages : serial.outcome[b] # "open" => t.outcome[b] = serial.outcome[b]
         /\ serial.outcome[a] = "open" => t.outcome[a] = "error"
         /\ \A b \in Pages : t.outcome[b] = "ok" => serial.outcome[b] = "ok"
<1>1. serial \in SerialType(serial.line) /\ None \notin Pages /\ Requests \subseteq Pages /\ a \in Requests
  BY PagesAreNumbers DEF QueueOf, SerialType
<1>2. /\ \A b \in Pages : b # a => t.outcome[b] = serial.outcome[b]
      /\ \A b \in Pages : serial.outcome[b] # "open" => t.outcome[b] = serial.outcome[b]
      /\ serial.outcome[a] = "open" => t.outcome[a] = "error"
      /\ a \in Pages
  BY <1>1, SettledFacts DEF SerialType
<1>3. serial.state[a] # "waitingForSend"
  BY DEF QueueOf
<1>4. t.waiting = {b \in Pages : t.state[b] = "waitingForSend" /\ t.outcome[b] = "open"}
  <2>1. \A b \in Pages : t.state[b] = "waitingForSend" =>
            (t.outcome[b] = "open" <=> serial.outcome[b] = "open")
    BY <1>2, <1>3
  <2>2. t.waiting = {b \in Pages : /\ serial.state[b] = "waitingForSend"
                                  /\ serial.outcome[b] = "open"}
    BY DEF QueueOf
  <2> QED BY <2>1, <2>2
<1>5. \A b \in Pages : t.outcome[b] # "none" => b \in Requests
  BY <1>1, <1>2 DEF QueueOf
<1>6. t.pending \in Pages => t.state[t.pending] \notin {"none", "waitingForSend", "done"}
  BY <1>1 DEF QueueOf
<1>7. QueueOf(t)
  BY <1>4, <1>5, <1>6 DEF QueueOf
<1> QED BY <1>2, <1>7

\* A failed write settles the request and lets the next one go.
LEMMA WriteFailsFacts ==
  ASSUME QueueOf(serial), NEW a \in Pages, WriteFails(a)
  PROVE  /\ QueueOf(serial')
         /\ \A b \in Pages : serial.outcome[b] = "error" => serial'.outcome[b] = "error"
         /\ serial.outcome[a] = "open" => serial'.outcome[a] = "error"
         /\ \A b \in Pages : serial'.outcome[b] = "ok" => serial.outcome[b] = "ok"
         /\ stage # "closed" /\ serial.pending = a /\ serial'.pending \in Pages =>
              serial'.state[serial'.pending] = "waitingForBytesWritten"
<1> DEFINE o == Settled(serial.outcome, {a}, "error")
           t == [serial EXCEPT !.writing = @ \ {a}, !.outcome = o,
                               !.pending = IF @ = a THEN None ELSE @,
                               !.line = Without(serial.line, a)]
<1>1. a \in serial.writing /\ serial' = SendNextRequest(t)
  BY DEF WriteFails, Callback
<1>2. serial \in SerialType(serial.line) /\ None \notin Pages
  BY PagesAreNumbers DEF QueueOf
<1>3. /\ QueueOf(t) /\ t.pending = IF serial.pending = a THEN None ELSE serial.pending
      /\ \A b \in Pages : serial.outcome[b] # "open" => t.outcome[b] = serial.outcome[b]
      /\ serial.outcome[a] = "open" => t.outcome[a] = "error"
      /\ \A b \in Pages : t.outcome[b] = "ok" => serial.outcome[b] = "ok"
  <2>1. o \in [Pages -> Outcomes] /\ o = Settled(serial.outcome, {a}, "error")
    BY <1>2, SettledFacts DEF SerialType
  <2> HIDE DEF o
  <2>2. /\ t \in SerialType(t.line) /\ t.outcome = o /\ t.waiting = serial.waiting
        /\ t.state = serial.state /\ t.writing = serial.writing \ {a}
        /\ t.pending = IF serial.pending = a THEN None ELSE serial.pending
    BY <1>2, <2>1 DEF SerialType
  <2> HIDE DEF t
  <2> QED BY <1>1, <2>1, <2>2, PageNotWritten
<1> HIDE DEF t
<1>4. /\ QueueOf(serial')
      /\ \A b \in Pages : t.outcome[b] # "open" => serial'.outcome[b] = t.outcome[b]
      /\ \A b \in Pages : serial'.outcome[b] = "ok" => t.outcome[b] = "ok"
  BY <1>1, <1>3, SendKeepsQueue
<1>5. ASSUME stage # "closed", serial.pending = a, serial'.pending \in Pages
      PROVE  serial'.state[serial'.pending] = "waitingForBytesWritten"
  <2>1. Advanced(serial', t)
    BY <1>1, <1>3, <1>5, SendAdvances
  <2> QED BY <1>2, <1>5, <2>1 DEF Advanced
<1> QED BY <1>3, <1>4, <1>5

\* The bytes added to a command are those the bootloader would add to a page.
LEMMA CommandFacts ==
  ASSUME RegularElfs, elf \in Elfs, NEW a \in Pages
  PROVE  /\ Command(a) \in [address : Int, bytes : Seq(Int)] /\ Command(a).address = a
         /\ Command(a) # Garbage
         /\ Filled(Command(a).bytes) = Filled(FlashMemory(a))
<1> DEFINE bytes   == FlashMemory(a)
           missing == (3 - ((Len(bytes) + 4) % 3)) % 3
           more    == [i \in 1..missing |-> 255]
<1>1. a \in Int
  BY PagesAreNumbers
<1>2. bytes \in Seq(Int) /\ Len(bytes) \in Nat
  <2>1. SideBySide(Program)
    BY DEF RegularElfs, Program
  <2>2. Part(FlashMemory(a), Program, Len(Program), a)
    BY <1>1, <2>1, PartOfAll DEF FlashMemory
  <2> QED BY <2>2 DEF Part
<1>3. Command(a) = [address |-> a, bytes |-> bytes \o more]
  BY DEF Command
<1> HIDE DEF bytes
<1>4. missing \in Nat
  BY <1>2
<1> HIDE DEF missing
<1>5. more \in Seq(Int) /\ Len(more) = missing
  BY <1>4
<1>6. \A i \in 1..missing : more[i] = 255
  OBVIOUS
<1> HIDE DEF more
<1>7. /\ bytes \o more \in Seq(Int) /\ Len(bytes \o more) = Len(bytes) + missing
      /\ \A i \in 1..Len(bytes \o more) :
           (bytes \o more)[i] = IF i <= Len(bytes) THEN bytes[i] ELSE more[i - Len(bytes)]
  BY <1>2, <1>5, ConcatProperties
<1> DEFINE all == bytes \o more
<1>8. /\ all \in Seq(Int) /\ Len(all) = Len(bytes) + missing
      /\ \A i \in 1..Len(all) :
           all[i] = IF i <= Len(bytes) THEN bytes[i] ELSE more[i - Len(bytes)]
  BY <1>7
<1>9. Command(a) = [address |-> a, bytes |-> all]
  BY <1>3
<1> HIDE DEF all
<1>10. Command(a) \in [address : Int, bytes : Seq(Int)] /\ Command(a).address = a
       /\ Command(a).bytes = all
  BY <1>1, <1>8, <1>9
<1>11. Command(a) # Garbage
  BY <1>10, GarbageAssumption
<1>12. ASSUME NEW i \in 1..PageSize
       PROVE  (IF i <= Len(all) THEN all[i] ELSE 255) = IF i <= Len(bytes) THEN bytes[i] ELSE 255
  <2>1. i \in Nat \ {0}
    BY AddressAssumption
  <2>2. CASE i <= Len(bytes)
    <3>1. i \in 1..Len(all) /\ i <= Len(all)
      BY <1>2, <1>4, <1>8, <2>1, <2>2
    <3> QED BY <1>8, <2>2, <3>1
  <2>3. CASE ~(i <= Len(bytes)) /\ i <= Len(all)
    <3>1. i \in 1..Len(all) /\ i - Len(bytes) \in 1..missing
      BY <1>2, <1>4, <1>8, <2>1, <2>3
    <3>2. all[i] = more[i - Len(bytes)]
      BY <1>8, <2>3, <3>1
    <3> QED BY <1>6, <2>3, <3>1, <3>2
  <2>4. CASE ~(i <= Len(bytes)) /\ ~(i <= Len(all))
    BY <2>4
  <2> QED BY <2>2, <2>3, <2>4
<1>13. Filled(all) = Filled(bytes)
  BY <1>12 DEF Filled
<1> QED BY <1>10, <1>11, <1>13 DEF bytes

-----------------------------------------------------------------------------
(***************************************************************************)
(* Every step keeps the invariant.                                         *)
(***************************************************************************)
LEMMA QueueInNextState ==
  ASSUME elf' = elf, QueueOf(serial')
  PROVE  Queue'
BY SameElf DEF Queue, QueueOf, SerialType

LEMMA LineOnly ==
  ASSUME QueueOf(serial), NEW line, serial' = [serial EXCEPT !.line = line]
  PROVE  /\ QueueOf(serial') /\ serial'.line = line /\ serial'.outcome = serial.outcome
         /\ serial'.pending = serial.pending /\ serial'.waiting = serial.waiting
         /\ serial'.state = serial.state
BY DEF QueueOf, SerialType

LEMMA InitHolds ==
  ASSUME Init
  PROVE  IInv
<1>1. Types
  BY NoiseAssumption DEF Init, Types
<1>2. serial = [waiting |-> {}, pending |-> None, line |-> <<>>, writing |-> {},
                state |-> [a \in Pages |-> "none"], outcome |-> [a \in Pages |-> "none"]]
  BY DEF Init
<1>3. serial \in SerialType(serial.line)
  BY <1>2 DEF SerialType, States, Outcomes
<1>4. Queue
  BY <1>2, <1>3, PagesAreNumbers DEF Queue, QueueOf
<1>5. Early
  BY <1>2 DEF Init, Early
<1>6. stage = "start"
  BY DEF Init
<1> QED BY <1>1, <1>4, <1>5, <1>6 DEF IInv, Stuck, LockStep

\* The pages are queued: the first one is in the line.
LEMMA QueuedHolds ==
  ASSUME IInv, elf' = elf, stage \in {"start", "awaitId"}, stage' = "flashing",
         serial' = QueuePages, answers' = <<>>,
         target' = target, flash' = flash
  PROVE  Queue' /\ Stuck' /\ LockStep'
<1>1. /\ serial.line = <<>> /\ target.phase = "idle" /\ stage # "closed"
      /\ serial.writing = {} /\ \A a \in Pages : serial.state[a] = "none" /\ serial.outcome[a] = "none"
  BY DEF IInv, Early
<1>2. serial \in SerialType(serial.line)
  BY DEF IInv, Queue, QueueOf
<1>3. /\ QueueOf(serial') /\ serial'.pending \in Requests \cup {None}
      /\ IF serial'.pending = None
         THEN Requests = {} /\ serial'.waiting = {} /\ serial'.line = <<>>
         ELSE /\ serial'.waiting = Requests \ {serial'.pending}
              /\ serial'.state[serial'.pending] = "waitingForBytesWritten"
              /\ serial'.line = Append(<<>>, [command |-> Command(serial'.pending),
                                              overrun |-> target.phase = "answering"])
      /\ \A a \in Pages : serial'.outcome[a] = IF a \in Requests THEN "open" ELSE "none"
  BY <1>1, <1>2, QueuePagesFacts
<1>4. Queue'
  BY <1>3, QueueInNextState
<1>5. Requests' = Requests /\ None \notin Pages /\ Requests \subseteq Pages
  BY SameElf, PagesAreNumbers
<1>6. Stuck'
  BY <1>3, <1>5 DEF Stuck
<1>7. \A a \in Pages : serial'.outcome[a] # "ok"
  BY <1>3
<1>8. Right'
  BY <1>7 DEF Right
<1>9. CASE serial'.pending = None
  <2>1. Quiet'
    BY <1>1, <1>3, <1>9 DEF Quiet
  <2> QED BY <1>3, <1>4, <1>5, <1>6, <1>8, <1>9, <2>1 DEF LockStep
<1>10. CASE serial'.pending # None
  <2> DEFINE x == [command |-> Command(serial'.pending), overrun |-> target.phase = "answering"]
  <2>1. serial'.line = <<x>> /\ x.command = Command(serial'.pending)
    BY <1>3, <1>10
  <2>2. serial'.pending \in Requests
    BY <1>3, <1>10
  <2>3. Command(serial'.pending) = Command(serial.pending)'
    BY SameElf
  <2> HIDE DEF x
  <2>4. /\ Len(serial'.line) = 1 /\ serial'.line = <<serial'.line[1]>>
        /\ serial'.line[1].command = Command(serial'.pending)
    BY <2>1
  <2>5. InLine(serial.pending)'
    BY <1>1, <1>3, <1>8, <1>10, <2>3, <2>4 DEF InLine
  <2>6. UnderWay(serial.pending)'
    BY <1>3, <1>5, <2>2, <2>5 DEF UnderWay
  <2> QED BY <1>3, <1>4, <1>5, <1>6, <1>10, <2>6 DEF LockStep
<1> QED BY <1>9, <1>10

LEMMA StartKeeps ==
  ASSUME IInv, Start
  PROVE  IInv'
<1>1. stage = "start" /\ UNCHANGED <<elf, mode, target, flash, answers, noise, lost>>
  BY DEF Start
<1>2. Types /\ Early /\ QueueOf(serial) /\ answers = <<>>
  BY <1>1 DEF IInv, Queue, Early
<1>3. CASE ~ValidElf(elf)
  <2>1. stage' = "failed" /\ UNCHANGED serial
    BY <1>3 DEF Start
  <2>2. Queue'
    BY <1>1, <1>2, <2>1, QueueInNextState
  <2> QED BY <1>1, <1>2, <2>1, <2>2 DEF IInv, Types, Early, Stuck, LockStep
<1>4. CASE ValidElf(elf) /\ mode = "user"
  <2>1. stage' = "flashing" /\ serial' = QueuePages
    BY <1>4 DEF Start
  <2>2. Queue' /\ Stuck' /\ LockStep'
    BY <1>1, <1>2, <2>1, QueuedHolds
  <2> QED BY <1>1, <1>2, <2>1, <2>2 DEF IInv, Types, Early
<1>5. CASE ValidElf(elf) /\ mode # "user"
  <2>1. stage' = "reset" /\ serial' = [serial EXCEPT !.pending = ResetRequest]
    BY <1>5 DEF Start
  <2>2. /\ QueueOf(serial') /\ serial'.pending = ResetRequest /\ serial'.line = serial.line
        /\ serial'.waiting = serial.waiting /\ serial'.writing = serial.writing
        /\ serial'.state = serial.state /\ serial'.outcome = serial.outcome
    BY <1>2, <2>1, PagesAreNumbers DEF QueueOf, SerialType
  <2>3. Queue'
    BY <1>1, <2>2, QueueInNextState
  <2>4. Early'
    BY <1>1, <1>2, <2>1, <2>2 DEF Early
  <2> QED BY <1>1, <1>2, <2>1, <2>3, <2>4 DEF IInv, Types, Stuck, LockStep
<1> QED BY <1>3, <1>4, <1>5

LEMMA ResetKeeps ==
  ASSUME IInv, ResetTarget \/ ResetFails
  PROVE  IInv'
<1>1. QueueOf(serial) /\ Types /\ Early /\ elf' = elf /\ serial' = serial
  BY DEF IInv, Queue, ResetTarget, ResetFails
<1>2. Queue'
  BY <1>1, QueueInNextState
<1>3. CASE ResetTarget
  <2>1. Types'
    BY <1>1, <1>3 DEF Types, ResetTarget
  <2>2. Early'
    BY <1>1, <1>3 DEF Early, ResetTarget
  <2> QED BY <1>2, <1>3, <2>1, <2>2 DEF IInv, Stuck, LockStep, ResetTarget
<1>4. CASE ResetFails
  BY <1>1, <1>2, <1>4 DEF IInv, Types, Early, Stuck, LockStep, ResetFails
<1> QED BY <1>3, <1>4

\* A step that leaves the queue, the answers and the flash as they are, and the target free.
LEMMA SameLockStep ==
  ASSUME IInv, stage \in {"flashing", "closed"}, UNCHANGED <<elf, serial, flash, answers>>,
         target.phase # "busy" => target'.phase # "busy",
         target.phase = "busy" => target'.phase = "busy" /\ target'.command = target.command
  PROVE  LockStep'
<1> SUFFICES ASSUME ~Failed PROVE LockStep'
  BY DEF LockStep, Failed
<1>1. Requests' = Requests /\ \A a : Command(a)' = Command(a)
  BY SameElf
<1>2. Right' <=> Right
  BY SameElf DEF Right, Holds
<1>3. \A a : Holds(a)' = Holds(a)
  BY SameElf DEF Holds
<1>4. \A a \in Requests : serial.outcome[a] = "ok" \/ a \in serial.waiting \/ a = serial.pending
  BY DEF IInv, LockStep
<1>5. CASE serial.pending = None
  BY <1>1, <1>2, <1>4, <1>5 DEF IInv, LockStep, Quiet
<1>6. CASE serial.pending # None
  <2> DEFINE p == serial.pending
  <2>1. UnderWay(p)
    BY <1>6 DEF IInv, LockStep
  <2>2. InLine(p) => InLine(serial.pending)'
    BY <1>1, <1>2 DEF InLine
  <2>3. Vanished(p) => Vanished(serial.pending)'
    BY DEF Vanished, Quiet
  <2>4. Read(p) => Read(serial.pending)'
    BY <1>1, <1>2 DEF Read
  <2>5. Executed(p) => Executed(serial.pending)'
    BY <1>1, <1>2, <1>3 DEF Executed
  <2>6. Echoed(p) => Echoed(serial.pending)'
    BY <1>2, <1>3 DEF Echoed
  <2>7. UnderWay(serial.pending)'
    BY <1>1, <2>1, <2>2, <2>3, <2>4, <2>5, <2>6 DEF UnderWay
  <2> QED BY <1>1, <1>4, <1>6, <2>7 DEF LockStep
<1> QED BY <1>5, <1>6

LEMMA CloseKeeps ==
  ASSUME IInv, Close
  PROVE  IInv'
<1>1. /\ QueueOf(serial) /\ Types /\ stage = "flashing" /\ stage' = "closed"
      /\ UNCHANGED <<elf, serial, target, flash, answers, noise>>
  BY DEF IInv, Queue, Close
<1>2. Queue'
  BY <1>1, QueueInNextState
<1>3. LockStep'
  BY <1>1, SameLockStep
<1> QED BY <1>1, <1>2, <1>3 DEF IInv, Types, Early, Stuck

LEMMA TargetFreeKeeps ==
  ASSUME IInv, Answered \/ StartApplication
  PROVE  IInv'
<1>1. /\ QueueOf(serial) /\ Types /\ UNCHANGED <<elf, stage, serial, flash, answers, noise>>
      /\ target.phase # "busy"
  BY DEF IInv, Queue, Answered, StartApplication
<1>2. /\ target'.phase \in {"idle", "busy", "answering"} /\ target'.phase # "busy"
      /\ target.phase = "idle" => target'.phase = "idle"
      /\ target' \in [application : BOOLEAN, phase : {"idle", "busy", "answering"},
                       command : {target'.command}]
  BY <1>1 DEF Types, Answered, StartApplication
<1>3. Queue'
  BY <1>1, QueueInNextState
<1>4. Types'
  BY <1>1, <1>2 DEF Types
<1>5. Early'
  BY <1>1, <1>2 DEF IInv, Early
<1>6. Stuck'
  BY <1>1 DEF IInv, Stuck, Failed
<1>7. CASE stage \in {"flashing", "closed"}
  BY <1>1, <1>2, <1>3, <1>4, <1>5, <1>6, <1>7, SameLockStep DEF IInv
<1>8. CASE stage \notin {"flashing", "closed"}
  BY <1>1, <1>3, <1>4, <1>5, <1>6, <1>8 DEF IInv, LockStep
<1> QED BY <1>7, <1>8

\* A page that has failed stays failed.
LEMMA FinalizeFails ==
  ASSUME IInv, stage = "flashing", serial.pending \in Pages, NEW v \in {"ok", "error"},
         elf' = elf, stage' = stage, serial' = Finalize(v),
         Failed \/ (v = "error" /\ serial.outcome[serial.pending] = "open")
  PROVE  Queue' /\ Stuck' /\ LockStep'
<1> DEFINE p == serial.pending
<1>1. /\ QueueOf(serial') /\ Advanced(serial', serial)
      /\ serial'.outcome = Settled(serial.outcome, {p}, v)
  BY FinalizeFacts DEF IInv, Queue
<1>2. Queue'
  BY <1>1, QueueInNextState
<1>3. serial.outcome \in [Pages -> Outcomes]
  BY DEF IInv, Queue, QueueOf, SerialType
<1>4. \E a \in Pages : serial'.outcome[a] = "error"
  <2>1. CASE Failed
    BY <1>1, <1>3, <2>1, SettledFacts DEF Failed
  <2>2. CASE v = "error" /\ serial.outcome[p] = "open"
    BY <1>1, <1>3, <2>2, SettledFacts
  <2> QED BY <2>1, <2>2
<1>5. Stuck'
  BY <1>1, PagesAreNumbers DEF Stuck, Advanced
<1>6. LockStep'
  BY <1>4 DEF LockStep, Failed
<1> QED BY <1>2, <1>5, <1>6

LEMMA ReceiveIdKeeps ==
  ASSUME IInv, ReceiveId
  PROVE  IInv'
<1>1. /\ QueueOf(serial) /\ Types /\ UNCHANGED <<elf, target, flash, noise>>
      /\ stage \in {"awaitId", "flashing"} /\ Head(answers).kind = "id" /\ answers' = Tail(answers)
      /\ answers # <<>>
  BY DEF IInv, Queue, ReceiveId, Listening, Complete
<1>2. CASE stage = "awaitId"
  <2>1. stage' = "flashing" /\ serial' = QueuePages
    BY <1>2 DEF ReceiveId
  <2>2. answers' = <<>>
    BY <1>1, <1>2 DEF IInv, Early
  <2>3. Queue' /\ Stuck' /\ LockStep'
    BY <1>1, <1>2, <2>1, <2>2, QueuedHolds
  <2> QED BY <1>1, <2>1, <2>3 DEF IInv, Types, Early
<1>3. CASE stage = "flashing"
  <2>1. stage' = stage /\ serial' = serial
    BY <1>3 DEF ReceiveId
  <2>2. Queue'
    BY <1>1, <2>1, QueueInNextState
  <2>3. Failed
    <3> SUFFICES ASSUME ~Failed PROVE FALSE
      OBVIOUS
    <3>1. IF serial.pending = None THEN Quiet ELSE UnderWay(serial.pending)
      BY <1>3 DEF IInv, LockStep
    <3>2. answers = <<>> \/ answers[1].kind \in {"echo", "response"}
      BY <3>1, <1>1 DEF Quiet, UnderWay, InLine, Vanished, Read, Executed, Echoed
    <3> QED BY <1>1, <3>2
  <2>4. Failed'
    BY <2>1, <2>3 DEF Failed
  <2>5. Types' /\ Early'
    BY <1>1, <1>3, <2>1 DEF Types, Early
  <2>6. Stuck' /\ LockStep'
    BY <1>1, <1>3, <2>1, <2>3, <2>4 DEF IInv, Stuck, LockStep
  <2> QED BY <2>2, <2>5, <2>6 DEF IInv
<1> QED BY <1>1, <1>2, <1>3

LEMMA ReceiveEchoKeeps ==
  ASSUME RegularElfs, IInv, ReceiveEcho
  PROVE  IInv'
<1> DEFINE p == serial.pending
           c == Head(answers).command
<1>1. /\ QueueOf(serial) /\ Types /\ UNCHANGED <<elf, stage, target, flash>>
      /\ Len(answers) > 1 /\ Head(answers).kind = "echo"
  BY DEF IInv, Queue, ReceiveEcho
<1>2. noise' \in Nat /\ noise' <= MaxNoise
  BY <1>1, NoiseAssumption DEF ReceiveEcho, Fault, Types
<1>3. stage = "flashing"
  BY <1>1 DEF ReceiveEcho, Listening, IInv, Early
<1>4. SUFFICES Queue' /\ Stuck' /\ LockStep'
  BY <1>1, <1>2, <1>3 DEF IInv, Types, Early
<1>5. serial \in SerialType(serial.line) /\ None \notin Pages /\ Requests \subseteq Pages
  BY <1>1, PagesAreNumbers DEF QueueOf
<1>6. CASE Failed
  <2>1. CASE serial' = serial
    <3>1. Queue'
      BY <1>1, <2>1, QueueInNextState
    <3> QED BY <1>1, <1>3, <1>6, <2>1, <3>1 DEF IInv, Stuck, LockStep, Failed
  <2>2. CASE serial' # serial
    <3>1. PICK d : serial' = ReceivedCmd(d)
      BY <2>2 DEF ReceiveEcho
    <3>2. p \in Pages => serial.state[p] = "waitingForBytesWritten"
      BY <1>3, <1>6 DEF IInv, Stuck
    <3>3. p \in Pages /\ serial' = Finalize("error")
      BY <2>2, <3>1, <3>2, CmdCases
    <3> QED BY <1>1, <1>3, <1>6, <3>3, FinalizeFails
  <2> QED BY <2>1, <2>2
<1>7. CASE ~Failed
  <2>1. p # None /\ UnderWay(p)
    <3>1. IF p = None THEN Quiet ELSE UnderWay(p)
      BY <1>3, <1>7 DEF IInv, LockStep
    <3> QED BY <3>1, <1>1 DEF Quiet
  <2>2. Executed(p)
    BY <1>1, <2>1 DEF UnderWay, InLine, Vanished, Quiet, Read, Executed, Echoed
  <2>3. /\ p \in Pages /\ serial.outcome[p] = "open" /\ c = answers[1].command
        /\ answers = <<answers[1], answers[2]>> /\ p \in Requests
    BY <1>5, <2>1, <2>2 DEF UnderWay, Executed
  <2>4. CASE serial' = Finalize("error")
    BY <1>1, <1>3, <2>3, <2>4, FinalizeFails
  <2>5. Command(p) # Garbage
    BY <2>3, <1>1, CommandFacts DEF Types
  <2>6. CASE answers' = Tail(answers) /\ serial' = serial
    <3>1. Queue'
      BY <1>1, <2>6, QueueInNextState
    <3>2. Len(answers') = 1 /\ answers'[1] = answers[2] /\ answers' = <<answers'[1]>>
      <4> DEFINE x == answers[1]
                 y == answers[2]
      <4>1. answers = <<x, y>>
        BY <2>3
      <4>2. y = answers[2]
        OBVIOUS
      <4> HIDE DEF x, y
      <4>3. answers' = <<y>>
        BY <2>6, <4>1
      <4> QED BY <4>2, <4>3
    <3>3. Echoed(p)'
      BY <1>1, <2>2, <2>6, <3>2 DEF Executed, Echoed
    <3>4. UnderWay(p)'
      BY <1>1, <2>1, <2>6, <3>3, SameElf DEF UnderWay
    <3>5. \A a \in Requests : serial.outcome[a] = "ok" \/ a \in serial.waiting \/ a = p
      BY <1>3, <1>7 DEF IInv, LockStep
    <3>6. LockStep'
      BY <1>1, <2>1, <2>6, <3>4, <3>5, SameElf DEF LockStep
    <3> QED BY <1>1, <1>3, <1>7, <2>6, <3>1, <3>6 DEF Stuck, Failed
  <2>7. CASE /\ serial' = [serial EXCEPT !.state[p] = "waitingForResponse"]
             /\ c = Command(p) /\ answers' = Tail(answers)
    <3>1. /\ QueueOf(serial') /\ serial'.pending = p /\ serial'.waiting = serial.waiting
          /\ serial'.line = serial.line /\ serial'.outcome = serial.outcome
      BY <1>1, <2>3, <2>7, AwaitsResponse
    <3>4. Queue'
      BY <1>1, <3>1, QueueInNextState
    <3>5. Len(answers') = 1 /\ answers'[1] = answers[2] /\ answers' = <<answers'[1]>>
      <4> DEFINE x == answers[1]
                 y == answers[2]
      <4>1. answers = <<x, y>>
        BY <2>3
      <4>2. y = answers[2]
        OBVIOUS
      <4> HIDE DEF x, y
      <4>3. answers' = <<y>>
        BY <2>7, <4>1
      <4> QED BY <4>2, <4>3
    <3>6. Right /\ (answers[2].status = 0 => Holds(p))
      BY <2>2, <2>3, <2>7 DEF Executed
    <3>7. Right' /\ (answers[2].status = 0 => Holds(serial.pending)')
      BY <1>1, <3>1, <3>6, SameElf DEF Right, Holds
    <3>8. Echoed(serial.pending)'
      BY <1>1, <2>2, <3>1, <3>5, <3>7 DEF Executed, Echoed
    <3>9. UnderWay(serial.pending)'
      BY <1>1, <2>1, <3>1, <3>8, SameElf DEF UnderWay
    <3>10. \A a \in Requests : serial.outcome[a] = "ok" \/ a \in serial.waiting \/ a = p
      BY <1>3, <1>7 DEF IInv, LockStep
    <3>11. LockStep'
      BY <1>1, <2>1, <3>1, <3>9, <3>10, SameElf DEF LockStep
    <3> QED BY <1>1, <1>3, <1>7, <3>1, <3>4, <3>11 DEF Stuck, Failed
  <2>8. \A d : ReceivedCmd(d) = Finalize("error")
               \/ (d = Command(p) /\ ReceivedCmd(d) = [serial EXCEPT !.state[p] = "waitingForResponse"])
    BY <2>3, CmdCases
  <2>9. ReceivedCmd(Garbage) = Finalize("error")
    BY <2>5, <2>8
  <2> QED BY <2>4, <2>6, <2>7, <2>8, <2>9 DEF ReceiveEcho
<1> QED BY <1>6, <1>7

\* A page is reported as written: only when it holds its bytes.
LEMMA OkHolds ==
  ASSUME IInv, stage = "flashing", ~Failed, serial.pending \in Pages,
         answers # <<>>, Head(answers).kind = "response", Complete,
         serial.state[serial.pending] = "waitingForResponse"
  PROVE  /\ UnderWay(serial.pending) /\ Len(answers) = 1 /\ answers = <<answers[1]>>
         /\ Right /\ serial.line = <<>> /\ target.phase # "busy"
         /\ answers[1].status = 0 => Holds(serial.pending)
<1>1. serial.pending # None
  BY PagesAreNumbers
<1>2. UnderWay(serial.pending)
  BY <1>1 DEF IInv, LockStep
<1>3. Echoed(serial.pending)
  BY <1>2 DEF UnderWay, InLine, Vanished, Quiet, Read, Executed
<1> QED BY <1>2, <1>3 DEF Echoed

LEMMA ReceiveResponseKeeps ==
  ASSUME MisreadAnswers \cap {0, None} = {}, IInv, ReceiveResponse
  PROVE  IInv'
<1> DEFINE p == serial.pending
<1>1. /\ QueueOf(serial) /\ Types /\ UNCHANGED <<elf, stage, target, flash>>
      /\ Head(answers).kind = "response" /\ answers # <<>> /\ Complete
      /\ answers' = Tail(answers) /\ stage \in {"awaitId", "flashing"}
  BY DEF IInv, Queue, ReceiveResponse, Listening, Complete
<1>2. noise' \in Nat /\ noise' <= MaxNoise
  BY <1>1, NoiseAssumption DEF ReceiveResponse, Fault, Types
<1>3. stage = "flashing"
  BY <1>1 DEF IInv, Early
<1>4. SUFFICES Queue' /\ Stuck' /\ LockStep'
  BY <1>1, <1>2, <1>3 DEF IInv, Types, Early
<1>5. serial \in SerialType(serial.line) /\ None \notin Pages /\ Requests \subseteq Pages
  BY <1>1, PagesAreNumbers DEF QueueOf
<1>6. PICK s : /\ serial' = ReceivedResponse(s)
               /\ s = Head(answers).status \/ s \in MisreadAnswers
  BY DEF ReceiveResponse
<1>7. CASE Failed
  <2>1. p \in Pages => serial.state[p] = "waitingForBytesWritten"
    BY <1>3, <1>7 DEF IInv, Stuck
  <2>2. CASE p \notin Pages
    <3>1. serial' = serial
      BY <1>6, <2>2, ResponseCases
    <3>2. Queue'
      BY <1>1, <3>1, QueueInNextState
    <3> QED BY <1>1, <1>3, <1>7, <3>1, <3>2 DEF IInv, Stuck, LockStep, Failed
  <2>3. CASE p \in Pages
    <3>1. serial' = Finalize("error")
      BY <1>6, <2>1, <2>3, ResponseCases
    <3> QED BY <1>1, <1>3, <1>7, <2>3, <3>1, FinalizeFails
  <2> QED BY <2>2, <2>3
<1>8. CASE ~Failed
  <2>1. p # None /\ UnderWay(p)
    <3>1. IF p = None THEN Quiet ELSE UnderWay(p)
      BY <1>3, <1>8 DEF IInv, LockStep
    <3> QED BY <3>1, <1>1 DEF Quiet
  <2>2. p \in Pages /\ serial.outcome[p] = "open" /\ p \in Requests
    BY <1>5, <2>1 DEF UnderWay
  <2>3. CASE serial' = Finalize("error")
    BY <1>1, <1>3, <2>2, <2>3, FinalizeFails
  <2>4. CASE /\ s \in {0, None} /\ serial.state[p] = "waitingForResponse"
             /\ serial' = Finalize("ok")
    <3>1. /\ Len(answers) = 1 /\ answers = <<answers[1]>> /\ Right /\ serial.line = <<>>
          /\ target.phase # "busy"
          /\ answers[1].status = 0 => Holds(p)
      BY <1>1, <1>3, <1>8, <2>2, <2>4, OkHolds
    <3>2. answers[1].status \in Int
      BY <2>1, <2>4 DEF UnderWay, InLine, Vanished, Read, Executed, Echoed
    <3>3. Holds(p)
      <4>1. s = answers[1].status
        BY <1>6, <2>4, <3>1
      <4>2. s = 0
        BY <2>4, <3>2, <4>1, AddressAssumption
      <4> QED BY <3>1, <4>1, <4>2
    <3>4. answers' = <<>>
      <4> DEFINE x == answers[1]
      <4>1. answers = <<x>>
        BY <3>1
      <4> HIDE DEF x
      <4> QED BY <1>1, <4>1
    <3>5. /\ QueueOf(serial') /\ Advanced(serial', serial)
          /\ serial'.outcome = Settled(serial.outcome, {p}, "ok")
      BY <1>1, <1>3, <2>2, <2>4, FinalizeFacts
    <3>6. /\ serial'.outcome[p] = "ok"
          /\ \A a \in Pages : a # p => serial'.outcome[a] = serial.outcome[a]
      BY <1>5, <2>2, <3>5, SettledFacts DEF SerialType
    <3>7. Queue'
      BY <1>1, <3>5, QueueInNextState
    <3>8. Right'
      BY <1>1, <3>1, <3>3, <3>6, SameElf DEF Right, Holds
    <3>9. Stuck'
      BY <3>5, PagesAreNumbers DEF Stuck, Advanced
    <3>10. \A a \in Requests : serial.outcome[a] = "ok" \/ a \in serial.waiting \/ a = p
      BY <1>3, <1>8 DEF IInv, LockStep
    <3>11. CASE serial'.pending = None
      <4>1. serial.waiting = {} /\ serial'.waiting = {} /\ serial'.line = <<>>
        BY <3>1, <3>5, <3>11 DEF Advanced
      <4>2. Quiet'
        BY <1>1, <3>1, <3>4, <4>1 DEF Quiet
      <4>3. \A a \in Requests : serial'.outcome[a] = "ok"
        BY <1>5, <3>6, <3>10, <4>1
      <4>4. LockStep'
        BY <1>1, <3>8, <3>11, <4>1, <4>2, <4>3, SameElf DEF LockStep
      <4> QED BY <3>7, <3>9, <4>4
    <3>12. CASE serial'.pending # None
      <4> DEFINE q == serial'.pending
                 x == [command |-> Command(q), overrun |-> target.phase = "answering"]
      <4>1. /\ q \in serial.waiting /\ serial'.waiting = serial.waiting \ {q}
            /\ serial'.state[q] = "waitingForBytesWritten" /\ serial'.line = Append(<<>>, x)
        BY <3>1, <3>5, <3>12 DEF Advanced
      <4>2. q \in Requests /\ serial.outcome[q] = "open" /\ q # p
        BY <1>1, <1>5, <2>2, <4>1 DEF SerialType, QueueOf
      <4>3. serial'.outcome[q] = "open"
        BY <1>5, <3>6, <4>2
      <4>4. serial'.line = <<x>> /\ x.command = Command(q) /\ Command(q) = Command(serial.pending)'
        BY <1>1, <4>1, SameElf
      <4> HIDE DEF x
      <4>5. /\ Len(serial'.line) = 1 /\ serial'.line = <<serial'.line[1]>>
            /\ serial'.line[1].command = Command(q)
        BY <4>4
      <4>6. InLine(serial.pending)'
        BY <1>1, <3>1, <3>4, <3>8, <4>1, <4>4, <4>5 DEF InLine
      <4>7. UnderWay(serial.pending)'
        BY <1>1, <4>2, <4>3, <4>6, SameElf DEF UnderWay
      <4>8. \A a \in Requests : \/ serial'.outcome[a] = "ok" \/ a \in serial'.waiting
                                \/ a = serial'.pending
        BY <1>5, <3>6, <3>10, <4>1
      <4>9. LockStep'
        BY <1>1, <3>12, <4>7, <4>8, SameElf DEF LockStep
      <4> QED BY <3>7, <3>9, <4>9
    <3> QED BY <3>11, <3>12
  <2> QED BY <1>6, <2>2, <2>3, <2>4, ResponseCases
<1> QED BY <1>7, <1>8

LEMMA WriteDoneKeeps ==
  ASSUME IInv, NEW a \in Pages, WriteDone(a)
  PROVE  IInv'
<1>1. /\ QueueOf(serial) /\ Types /\ UNCHANGED <<elf, stage, target, flash, answers, noise>>
      /\ a \in serial.writing /\ (stage = "closed" \/ ~Returned)
      /\ serial' = Written(a)
  BY DEF IInv, Queue, WriteDone, Callback, Written
<1>2. serial \in SerialType(serial.line) /\ None \notin Pages /\ Requests \subseteq Pages
  BY <1>1, PagesAreNumbers DEF QueueOf
<1>3. /\ QueueOf(serial') /\ serial'.pending = serial.pending /\ serial'.waiting = serial.waiting
      /\ serial'.line = serial.line /\ serial'.outcome = serial.outcome
      /\ serial'.state[a] = "waitingForCommand"
      /\ \A b \in Pages : b # a => serial'.state[b] = serial.state[b]
  BY <1>1, PageWritten
<1>6. Queue'
  BY <1>1, <1>3, QueueInNextState
<1>7. Types' /\ Early'
  BY <1>1 DEF IInv, Types, Early
<1>8. Stuck'
  <2>1. stage = "flashing" => ~Failed
    BY <1>1 DEF Returned, Failed, QueueOf
  <2> QED BY <1>1, <1>3, <2>1 DEF Stuck, Failed
<1>9. CASE stage \in {"flashing", "closed"} /\ ~Failed
  <2> DEFINE p == serial.pending
  <2>1. /\ Requests' = Requests /\ \A b : Command(b)' = Command(b)
        /\ \A b : Holds(b)' = Holds(b)
    BY <1>1, SameElf DEF Holds
  <2>2. Right' <=> Right
    BY <1>3, <2>1 DEF Right
  <2>3. \A b \in Requests : serial.outcome[b] = "ok" \/ b \in serial.waiting \/ b = p
    BY <1>9 DEF IInv, LockStep
  <2>4. CASE p = None
    <3>1. serial.waiting = {} /\ Quiet /\ Right
      BY <1>9, <2>4 DEF IInv, LockStep
    <3> QED BY <1>1, <1>3, <1>6, <1>7, <1>8, <2>1, <2>2, <2>3, <2>4, <3>1 DEF IInv, LockStep, Quiet
  <2>5. CASE p # None
    <3>1. UnderWay(p)
      BY <1>9, <2>5 DEF IInv, LockStep
    <3>2. p \in Pages /\ (serial'.state[p] = "waitingForResponse" => serial.state[p] = "waitingForResponse")
      BY <1>2, <1>3, <3>1 DEF UnderWay
    <3>3. InLine(p) => InLine(serial.pending)'
      BY <1>1, <1>3, <2>1, <2>2, <3>2 DEF InLine
    <3>4. Vanished(p) => Vanished(serial.pending)'
      BY <1>1, <1>3, <3>2 DEF Vanished, Quiet
    <3>5. Read(p) => Read(serial.pending)'
      BY <1>1, <1>3, <2>1, <2>2, <3>2 DEF Read
    <3>6. Executed(p) => Executed(serial.pending)'
      BY <1>1, <1>3, <2>1, <2>2, <3>2 DEF Executed
    <3>7. Echoed(p) => Echoed(serial.pending)'
      BY <1>1, <1>3, <2>1, <2>2, <3>2 DEF Echoed
    <3>8. UnderWay(serial.pending)'
      BY <1>3, <2>1, <3>1, <3>3, <3>4, <3>5, <3>6, <3>7 DEF UnderWay
    <3>9. LockStep'
      BY <1>3, <2>1, <2>3, <2>5, <3>8 DEF LockStep
    <3> QED BY <1>6, <1>7, <1>8, <3>9 DEF IInv
  <2> QED BY <2>4, <2>5
<1>10. CASE ~(stage \in {"flashing", "closed"} /\ ~Failed)
  <2>1. LockStep'
    BY <1>1, <1>3, <1>10 DEF LockStep, Failed
  <2> QED BY <1>6, <1>7, <1>8, <2>1 DEF IInv
<1> QED BY <1>9, <1>10

LEMMA WriteFailsKeeps ==
  ASSUME RegularElfs, IInv, NEW a \in Pages, WriteFails(a)
  PROVE  IInv'
<1>1. /\ QueueOf(serial) /\ Types /\ UNCHANGED <<elf, stage, target, flash, answers>>
      /\ a \in serial.writing /\ (stage = "closed" \/ ~Returned)
      /\ \E i \in DOMAIN serial.line : serial.line[i].command.address = a
  BY DEF IInv, Queue, WriteFails, Callback
<1>2. noise' \in Nat /\ noise' <= MaxNoise
  BY <1>1, NoiseAssumption DEF WriteFails, Types
<1>3. None \notin Pages /\ Requests \subseteq Pages
  BY PagesAreNumbers
<1>4. /\ QueueOf(serial')
      /\ \A b \in Pages : serial.outcome[b] = "error" => serial'.outcome[b] = "error"
      /\ serial.outcome[a] = "open" => serial'.outcome[a] = "error"
      /\ stage # "closed" /\ serial.pending = a /\ serial'.pending \in Pages =>
           serial'.state[serial'.pending] = "waitingForBytesWritten"
  BY <1>1, WriteFailsFacts
<1>5. Queue'
  BY <1>1, <1>4, QueueInNextState
<1>6. stage \notin {"start", "reset", "awaitId"}
  BY <1>1 DEF IInv, Early
<1>7. Types' /\ Early'
  BY <1>1, <1>2, <1>6 DEF Types, Early
<1>8. CASE stage = "failed"
  BY <1>1, <1>5, <1>7, <1>8 DEF IInv, Stuck, LockStep
<1>9. CASE stage \in {"flashing", "closed"} /\ Failed
  <2>1. PICK b \in Pages : serial.outcome[b] = "error"
    BY <1>9 DEF Failed
  <2>2. serial'.outcome[b] = "error"
    BY <1>4, <2>1
  <2>3. stage = "closed"
    BY <1>1, <1>9, <2>1 DEF Returned, QueueOf
  <2> QED BY <1>1, <1>5, <1>7, <2>2, <2>3 DEF IInv, Stuck, LockStep, Failed
<1>10. CASE stage \in {"flashing", "closed"} /\ ~Failed
  <2> DEFINE p == serial.pending
  <2>1. p # None /\ InLine(p) /\ UnderWay(p)
    <3>1. IF p = None THEN Quiet ELSE UnderWay(p)
      BY <1>10 DEF IInv, LockStep
    <3>2. serial.line # <<>>
      BY <1>1
    <3> QED BY <3>1, <3>2 DEF Quiet, UnderWay, Vanished, Read, Executed, Echoed
  <2>2. p \in Pages /\ serial.outcome[p] = "open"
    BY <1>3, <2>1 DEF UnderWay
  <2>3. p = a
    <3>1. Command(p).address = p
      BY <1>1, <2>2, CommandFacts DEF Types
    <3>2. serial.line[1].command = Command(p) /\ DOMAIN serial.line = {1}
      <4> DEFINE x == serial.line[1]
      <4>1. serial.line = <<x>> /\ x.command = Command(p)
        BY <2>1 DEF InLine
      <4> HIDE DEF x
      <4>2. DOMAIN <<x>> = {1}
        OBVIOUS
      <4> QED BY <4>1, <4>2 DEF x
    <3> QED BY <1>1, <3>1, <3>2
  <2>4. serial'.outcome[p] = "error"
    BY <1>4, <2>2, <2>3
  <2>5. Failed'
    BY <2>2, <2>4 DEF Failed
  <2>6. Stuck'
    BY <1>1, <1>4, <2>3 DEF Stuck
  <2> QED BY <1>5, <1>7, <2>5, <2>6 DEF IInv, LockStep
<1> QED BY <1>1, <1>6, <1>8, <1>9, <1>10 DEF Types

\* The target takes a command from the line: it is the one of the request under way.
LEMMA TakenCommand ==
  ASSUME IInv, TakeCommand
  PROVE  /\ stage \notin {"start", "reset", "awaitId"}
         /\ stage \in {"flashing", "closed"} /\ ~Failed =>
              /\ serial.pending # None /\ UnderWay(serial.pending) /\ InLine(serial.pending)
              /\ Tail(serial.line) = <<>>
<1>1. serial.line # <<>>
  BY DEF TakeCommand
<1>2. stage \notin {"start", "reset", "awaitId"}
  BY <1>1 DEF IInv, Early
<1>3. ASSUME stage \in {"flashing", "closed"}, ~Failed
      PROVE  /\ serial.pending # None /\ UnderWay(serial.pending) /\ InLine(serial.pending)
             /\ Tail(serial.line) = <<>>
  <2>1. IF serial.pending = None THEN Quiet ELSE UnderWay(serial.pending)
    BY <1>3 DEF IInv, LockStep
  <2>2. serial.pending # None /\ UnderWay(serial.pending) /\ InLine(serial.pending)
    BY <1>1, <2>1 DEF Quiet, UnderWay, Vanished, Read, Executed, Echoed
  <2>3. Tail(serial.line) = <<>>
    <3> DEFINE x == serial.line[1]
    <3>1. serial.line = <<x>>
      BY <2>2 DEF InLine
    <3> HIDE DEF x
    <3> QED BY <3>1
  <2> QED BY <2>2, <2>3
<1> QED BY <1>2, <1>3

LEMMA ReadCommandKeeps ==
  ASSUME IInv, ReadCommand
  PROVE  IInv'
<1>1. /\ QueueOf(serial) /\ Types /\ UNCHANGED <<elf, stage, flash>> /\ TakeCommand
      /\ target.phase = "idle" /\ serial' = [serial EXCEPT !.line = Tail(serial.line)]
  BY DEF IInv, Queue, ReadCommand, TakeCommand
<1>2. PICK c : /\ c = Sent.command \/ Sent.overrun \/ noise < MaxNoise
               /\ noise' = IF c = Sent.command \/ Sent.overrun THEN noise ELSE noise + 1
               /\ target' = [target EXCEPT !.phase = "busy", !.command = c]
               /\ answers' = Append(answers, [kind |-> "echo", command |-> c])
  BY DEF ReadCommand
<1>3. noise' \in Nat /\ noise' <= MaxNoise
  BY <1>1, <1>2, NoiseAssumption DEF Types
<1>4. /\ target'.phase = "busy" /\ target'.command = c
      /\ target' \in [application : BOOLEAN, phase : {"idle", "busy", "answering"},
                      command : {target'.command}]
  BY <1>1, <1>2 DEF Types
<1>5. /\ QueueOf(serial') /\ serial'.line = Tail(serial.line) /\ serial'.outcome = serial.outcome
      /\ serial'.pending = serial.pending /\ serial'.waiting = serial.waiting
      /\ serial'.state = serial.state
  BY <1>1, LineOnly
<1>6. Queue'
  BY <1>1, <1>5, QueueInNextState
<1>7. /\ stage \notin {"start", "reset", "awaitId"}
      /\ stage \in {"flashing", "closed"} /\ ~Failed =>
           /\ serial.pending # None /\ UnderWay(serial.pending) /\ InLine(serial.pending)
           /\ Tail(serial.line) = <<>>
  BY <1>1, TakenCommand
<1>8. Types' /\ Early' /\ Stuck'
  BY <1>1, <1>3, <1>4, <1>5, <1>7 DEF IInv, Types, Early, Stuck, Failed
<1>9. LockStep'
  <2> SUFFICES ASSUME stage \in {"flashing", "closed"}, ~Failed PROVE LockStep'
    BY <1>1, <1>5 DEF LockStep, Failed
  <2>1. /\ serial.pending # None /\ UnderWay(serial.pending) /\ InLine(serial.pending)
        /\ Tail(serial.line) = <<>>
    BY <1>7
  <2>2. Right'
    BY <1>1, <1>5, <2>1, SameElf DEF InLine, Right, Holds
  <2>3. answers' = <<[kind |-> "echo", command |-> c]>>
    BY <1>2, <2>1 DEF InLine
  <2>4. Read(serial.pending)'
    BY <1>4, <1>5, <2>1, <2>2, <2>3 DEF InLine, Read
  <2>5. UnderWay(serial.pending)'
    BY <1>1, <1>5, <2>1, <2>4, SameElf DEF UnderWay
  <2>6. \A a \in Requests : \/ serial.outcome[a] = "ok" \/ a \in serial.waiting
                            \/ a = serial.pending
    BY DEF IInv, LockStep
  <2> QED BY <1>1, <1>5, <2>1, <2>5, <2>6, SameElf DEF LockStep
<1> QED BY <1>6, <1>8, <1>9 DEF IInv

LEMMA CommandLostKeeps ==
  ASSUME IInv, CommandLost
  PROVE  IInv'
<1>1. /\ QueueOf(serial) /\ Types /\ UNCHANGED <<elf, stage, target, flash, answers>> /\ TakeCommand
      /\ target.phase = "idle" /\ serial' = [serial EXCEPT !.line = Tail(serial.line)]
  BY DEF IInv, Queue, CommandLost, TakeCommand
<1>2. noise' \in Nat /\ noise' <= MaxNoise
  <2>1. /\ target.application \/ Sent.overrun \/ noise < MaxNoise
        /\ noise' = IF target.application \/ Sent.overrun THEN noise ELSE noise + 1
    BY DEF CommandLost
  <2>2. noise \in Nat /\ noise <= MaxNoise /\ (noise' = noise \/ (noise < MaxNoise /\ noise' = noise + 1))
    BY <1>1, <2>1 DEF Types
  <2> QED BY <2>2, NoiseAssumption
<1>3. /\ QueueOf(serial') /\ serial'.line = Tail(serial.line) /\ serial'.outcome = serial.outcome
      /\ serial'.pending = serial.pending /\ serial'.waiting = serial.waiting
      /\ serial'.state = serial.state
  BY <1>1, LineOnly
<1>4. Queue'
  BY <1>1, <1>3, QueueInNextState
<1>5. /\ stage \notin {"start", "reset", "awaitId"}
      /\ stage \in {"flashing", "closed"} /\ ~Failed =>
           /\ serial.pending # None /\ UnderWay(serial.pending) /\ InLine(serial.pending)
           /\ Tail(serial.line) = <<>>
  BY <1>1, TakenCommand
<1>6. Types' /\ Early' /\ Stuck'
  BY <1>1, <1>2, <1>3, <1>5 DEF IInv, Types, Early, Stuck, Failed
<1>7. LockStep'
  <2> SUFFICES ASSUME stage \in {"flashing", "closed"}, ~Failed PROVE LockStep'
    BY <1>1, <1>3 DEF LockStep, Failed
  <2>1. /\ serial.pending # None /\ UnderWay(serial.pending) /\ InLine(serial.pending)
        /\ Tail(serial.line) = <<>>
    BY <1>5
  <2>2. Vanished(serial.pending)'
    BY <1>1, <1>3, <2>1 DEF InLine, Vanished, Quiet
  <2>3. UnderWay(serial.pending)'
    BY <1>1, <1>3, <2>1, <2>2, SameElf DEF UnderWay
  <2>4. \A a \in Requests : \/ serial.outcome[a] = "ok" \/ a \in serial.waiting
                            \/ a = serial.pending
    BY DEF IInv, LockStep
  <2> QED BY <1>1, <1>3, <2>1, <2>3, <2>4, SameElf DEF LockStep
<1> QED BY <1>4, <1>6, <1>7 DEF IInv

LEMMA AppendedPair ==
  ASSUME NEW x, NEW y
  PROVE  Append(<<x>>, y) = <<x, y>>
<1> DEFINE S == {x, y}
           p == <<x, y>>
           q == Append(<<x>>, y)
<1>1. <<x>> \in Seq(S) /\ p \in Seq(S) /\ Len(p) = 2 /\ p[1] = x /\ p[2] = y
  OBVIOUS
<1>2. q \in Seq(S) /\ Len(q) = 2 /\ q[1] = x /\ q[2] = y
  BY <1>1, AppendProperties
<1> HIDE DEF S, p, q
<1>3. \A i \in 1..Len(p) : p[i] = q[i]
  <2>1. \A i \in 1..2 : i = 1 \/ i = 2
    OBVIOUS
  <2> QED BY <1>1, <1>2, <2>1
<1>4. p = q
  BY <1>1, <1>2, <1>3, SeqEqual
<1> QED BY <1>4 DEF p, q

LEMMA ExecuteKeeps ==
  ASSUME RegularElfs, IInv, Execute
  PROVE  IInv'
<1> DEFINE p == serial.pending
           c == target.command
<1>1. /\ QueueOf(serial) /\ Types /\ UNCHANGED <<elf, stage, serial>> /\ target.phase = "busy"
  BY DEF IInv, Queue, Execute
<1>2. PICK s \in Nat :
        /\ Respond(s)
        /\ \/ s # 0 /\ flash' = flash
           \/ s = 0 /\ c # Garbage /\ flash' = [flash EXCEPT ![c.address] = Filled(c.bytes)]
           \/ /\ s # 0 /\ c # Garbage
              /\ flash' = [flash EXCEPT ![c.address] = [Filled(c.bytes) EXCEPT ![1] = 255 - @]]
        /\ noise' = noise \/ (noise < MaxNoise /\ noise' = noise + 1)
  <2>1. CASE Respond(1) /\ UNCHANGED <<flash, noise>>
    BY <2>1
  <2>2. CASE Respond(5) /\ UNCHANGED <<flash, noise>>
    BY <2>2
  <2>3. CASE /\ c # Garbage /\ flash' = [flash EXCEPT ![c.address] = Filled(c.bytes)]
             /\ Respond(0) /\ noise' = noise
    BY <2>3
  <2>4. CASE /\ c # Garbage /\ Fault
             /\ flash' = [flash EXCEPT ![c.address] = [Filled(c.bytes) EXCEPT ![1] = 255 - @]]
             /\ Respond(3)
    BY <2>4 DEF Fault
  <2> QED BY <2>1, <2>2, <2>3, <2>4 DEF Execute
<1>3. noise' \in Nat /\ noise' <= MaxNoise
  BY <1>1, <1>2, NoiseAssumption DEF Types
<1>4. /\ target'.phase = "answering"
      /\ target' \in [application : BOOLEAN, phase : {"idle", "busy", "answering"},
                      command : {target'.command}]
      /\ answers' = Append(answers, [kind |-> "response", status |-> s])
  BY <1>1, <1>2 DEF Types, Respond
<1>5. DOMAIN flash' = Pages /\ DOMAIN flash = Pages
  BY <1>1, <1>2 DEF Types
<1>6. Queue'
  BY <1>1, QueueInNextState
<1>7. Types' /\ Early' /\ Stuck'
  BY <1>1, <1>3, <1>4, <1>5 DEF IInv, Types, Early, Stuck, Failed
<1>8. LockStep'
  <2> SUFFICES ASSUME stage \in {"flashing", "closed"}, ~Failed PROVE LockStep'
    BY <1>1 DEF LockStep, Failed
  <2>1. p # None /\ UnderWay(p)
    <3>1. IF p = None THEN Quiet ELSE UnderWay(p)
      BY DEF IInv, LockStep
    <3> QED BY <1>1, <3>1 DEF Quiet
  <2>2. Read(p)
    BY <1>1, <2>1 DEF UnderWay, InLine, Vanished, Quiet, Executed, Echoed
  <2>3. p \in Pages /\ serial.outcome[p] = "open"
    BY <2>1, PagesAreNumbers DEF UnderWay
  <2>4. /\ Command(p).address = p /\ Filled(Command(p).bytes) = Filled(FlashMemory(p))
    BY <1>1, <2>3, CommandFacts DEF Types
  <2>5. c = Command(p) => Right' /\ (s = 0 => Holds(serial.pending)')
    <3> SUFFICES ASSUME c = Command(p) PROVE Right' /\ (s = 0 => Holds(serial.pending)')
      OBVIOUS
    <3>1. Right
      BY <2>2 DEF Read
    <3>2. /\ \A a \in Pages : a # p => flash'[a] = flash[a]
          /\ s = 0 => flash'[p] = Filled(FlashMemory(p))
      BY <1>2, <1>5, <2>3, <2>4
    <3>3. Right'
      <4>1. \A a \in Pages : serial.outcome[a] = "ok" => a # p
        BY <2>3
      <4> QED BY <1>1, <3>1, <3>2, <4>1, SameElf DEF Right, Holds
    <3> QED BY <1>1, <3>2, <3>3, SameElf DEF Holds
  <2> DEFINE x == [kind |-> "echo", command |-> c]
             y == [kind |-> "response", status |-> s]
  <2>6. /\ answers = <<x>> /\ answers' = Append(answers, y)
        /\ x.kind = "echo" /\ x.command = c /\ y.kind = "response" /\ y.status = s
    BY <1>4, <2>2 DEF Read
  <2> HIDE DEF x, y
  <2>7. answers' = <<x, y>>
    BY <2>6, AppendedPair
  <2>8. /\ Len(answers') = 2 /\ answers'[1] = x /\ answers'[2] = y
        /\ answers' = <<answers'[1], answers'[2]>>
    BY <2>7
  <2>9. Command(serial.pending)' = Command(p)
    BY <1>1, SameElf
  <2>10. Executed(serial.pending)'
    BY <1>1, <1>4, <2>2, <2>5, <2>6, <2>8, <2>9 DEF Read, Executed
  <2>11. UnderWay(serial.pending)'
    BY <1>1, <2>1, <2>10, SameElf DEF UnderWay
  <2>12. \A a \in Requests : serial.outcome[a] = "ok" \/ a \in serial.waiting \/ a = p
    BY DEF IInv, LockStep
  <2> QED BY <1>1, <2>1, <2>11, <2>12, SameElf DEF LockStep
<1> QED BY <1>6, <1>7, <1>8 DEF IInv

-----------------------------------------------------------------------------
(***************************************************************************)
(* The theorems.                                                           *)
(***************************************************************************)
\* The queue is in order whatever the line does and whatever the file holds.
QInv == Types /\ Queue /\ Early

LEMMA QueueStep ==
  ASSUME QInv, [Next]_vars
  PROVE  QInv'
<1>1. /\ Types /\ QueueOf(serial) /\ Early /\ serial \in SerialType(serial.line)
      /\ None \notin Pages /\ ResetRequest \notin Pages
  BY PagesAreNumbers DEF QInv, Queue, QueueOf
<1>2. CASE UNCHANGED vars
  BY <1>1, <1>2, QueueInNextState DEF vars, QInv, Types, Early
<1>3. CASE Start
  <2>1. stage = "start" /\ UNCHANGED <<elf, target, flash, answers, noise>> /\ answers = <<>>
    BY <1>1, <1>3 DEF Start, Early
  <2>2. CASE stage' = "failed" /\ UNCHANGED serial
    BY <1>1, <2>1, <2>2, QueueInNextState DEF QInv, Types, Early
  <2>3. CASE stage' = "flashing" /\ serial' = QueuePages
    <3>1. QueueOf(serial')
      BY <1>1, <2>1, <2>3, QueuePagesFacts DEF Early
    <3> QED BY <1>1, <2>1, <2>3, <3>1, QueueInNextState DEF QInv, Types, Early
  <2>4. CASE stage' = "reset" /\ serial' = [serial EXCEPT !.pending = ResetRequest]
    <3>1. /\ QueueOf(serial') /\ serial'.pending = ResetRequest /\ serial'.line = serial.line
          /\ serial'.waiting = serial.waiting /\ serial'.writing = serial.writing
          /\ serial'.state = serial.state /\ serial'.outcome = serial.outcome
      BY <1>1, <2>4 DEF QueueOf, SerialType
    <3>2. Queue' /\ Types'
      BY <1>1, <2>1, <2>4, <3>1, QueueInNextState DEF Types
    <3>3. Early'
      BY <1>1, <2>1, <2>4, <3>1 DEF Early
    <3> QED BY <3>2, <3>3 DEF QInv
  <2> QED BY <1>3, <2>2, <2>3, <2>4 DEF Start
<1>4. CASE ResetTarget
  <2>1. Queue'
    BY <1>1, <1>4, QueueInNextState DEF ResetTarget
  <2>2. Types' /\ Early'
    BY <1>1, <1>4 DEF ResetTarget, Types, Early
  <2> QED BY <2>1, <2>2 DEF QInv
<1>5. CASE ResetFails
  BY <1>1, <1>5, QueueInNextState DEF ResetFails, QInv, Types, Early
<1>6. CASE Close
  BY <1>1, <1>6, QueueInNextState DEF Close, QInv, Types, Early
<1>7. CASE ReceiveId
  <2>1. UNCHANGED <<elf, target, flash, noise>> /\ stage \in {"awaitId", "flashing"}
    BY <1>7 DEF ReceiveId, Listening
  <2>2. CASE stage = "awaitId"
    <3>1. stage' = "flashing" /\ serial' = QueuePages
      BY <1>7, <2>2 DEF ReceiveId
    <3>2. QueueOf(serial')
      BY <1>1, <2>2, <3>1, QueuePagesFacts DEF Early
    <3> QED BY <1>1, <2>1, <3>1, <3>2, QueueInNextState DEF QInv, Types, Early
  <2>3. CASE stage = "flashing"
    BY <1>1, <1>7, <2>1, <2>3, QueueInNextState DEF ReceiveId, QInv, Types, Early
  <2> QED BY <2>1, <2>2, <2>3
<1>8. CASE ReceiveEcho
  <2>1. /\ UNCHANGED <<elf, stage, target, flash>> /\ stage \in {"awaitId", "flashing"}
        /\ Len(answers) > 1 /\ Head(answers).kind = "echo"
    BY <1>8 DEF ReceiveEcho, Listening
  <2>2. stage = "flashing"
    BY <1>1, <2>1 DEF Early
  <2>3. noise' \in Nat /\ noise' <= MaxNoise
    BY <1>1, <1>8, NoiseAssumption DEF ReceiveEcho, Fault, Types
  <2>4. QueueOf(serial')
    <3>1. CASE serial' = serial
      BY <1>1, <3>1
    <3>2. ASSUME NEW c, serial' = ReceivedCmd(c) PROVE QueueOf(serial')
      <4>1. CASE serial.pending \in Pages /\ serial' = Finalize("error")
        BY <1>1, <2>2, <4>1, FinalizeFacts
      <4>2. CASE serial.pending \in Pages
                 /\ serial' = [serial EXCEPT !.state[serial.pending] = "waitingForResponse"]
        BY <1>1, <4>2, AwaitsResponse
      <4> QED BY <3>1, <3>2, <4>1, <4>2, CmdCases
    <3> QED BY <1>8, <3>1, <3>2 DEF ReceiveEcho
  <2> QED BY <1>1, <2>1, <2>2, <2>3, <2>4, QueueInNextState DEF QInv, Types, Early
<1>9. CASE ReceiveResponse
  <2>1. /\ UNCHANGED <<elf, stage, target, flash>> /\ stage \in {"awaitId", "flashing"}
        /\ Head(answers).kind = "response"
    BY <1>9 DEF ReceiveResponse, Listening
  <2>2. stage = "flashing"
    BY <1>1, <2>1 DEF Early
  <2>3. noise' \in Nat /\ noise' <= MaxNoise
    BY <1>1, <1>9, NoiseAssumption DEF ReceiveResponse, Fault, Types
  <2>4. QueueOf(serial')
    <3>1. PICK s : serial' = ReceivedResponse(s)
      BY <1>9 DEF ReceiveResponse
    <3>2. \/ serial' = serial
          \/ serial.pending \in Pages /\ \E v \in {"ok", "error"} : serial' = Finalize(v)
      BY <3>1, ResponseCases
    <3> QED BY <1>1, <2>2, <3>2, FinalizeFacts
  <2> QED BY <1>1, <2>1, <2>2, <2>3, <2>4, QueueInNextState DEF QInv, Types, Early
<1>10. ASSUME NEW a \in Pages, WriteDone(a) PROVE QInv'
  <2>1. /\ UNCHANGED <<elf, stage, target, flash, answers, noise>> /\ a \in serial.writing
        /\ serial' = Written(a)
    BY <1>10 DEF WriteDone, Callback, Written
  <2>2. stage \notin {"start", "reset", "awaitId"}
    BY <1>1, <2>1 DEF Early
  <2>3. QueueOf(serial')
    BY <1>1, <2>1, PageWritten
  <2> QED BY <1>1, <2>1, <2>2, <2>3, QueueInNextState DEF QInv, Types, Early
<1>11. ASSUME NEW a \in Pages, WriteFails(a) PROVE QInv'
  <2>1. /\ UNCHANGED <<elf, stage, target, flash, answers>> /\ a \in serial.writing
    BY <1>11 DEF WriteFails, Callback
  <2>2. noise' \in Nat /\ noise' <= MaxNoise
    BY <1>1, <1>11, NoiseAssumption DEF WriteFails, Types
  <2>3. stage \notin {"start", "reset", "awaitId"}
    BY <1>1, <2>1 DEF Early
  <2>4. QueueOf(serial')
    BY <1>1, <1>11, WriteFailsFacts
  <2> QED BY <1>1, <2>1, <2>2, <2>3, <2>4, QueueInNextState DEF QInv, Types, Early
<1>12. CASE ReadCommand \/ CommandLost
  <2>1. /\ UNCHANGED <<elf, stage, flash>> /\ serial.line # <<>>
        /\ serial' = [serial EXCEPT !.line = Tail(serial.line)]
    BY <1>12 DEF ReadCommand, CommandLost, TakeCommand
  <2>2. stage \notin {"start", "reset", "awaitId"}
    BY <1>1, <2>1 DEF Early
  <2>3. QueueOf(serial')
    BY <1>1, <2>1, LineOnly
  <2>4. noise' \in Nat /\ noise' <= MaxNoise
    <3>1. noise' = noise \/ (noise < MaxNoise /\ noise' = noise + 1)
      BY <1>12 DEF ReadCommand, CommandLost
    <3> QED BY <1>1, <3>1, NoiseAssumption DEF Types
  <2>5. target' \in [application : BOOLEAN, phase : {"idle", "busy", "answering"},
                     command : {target'.command}]
    BY <1>1, <1>12 DEF Types, ReadCommand, CommandLost
  <2> QED BY <1>1, <2>1, <2>2, <2>3, <2>4, <2>5, QueueInNextState DEF QInv, Types, Early
<1>13. CASE Execute
  <2>1. UNCHANGED <<elf, stage, serial>> /\ target.phase = "busy"
    BY <1>13 DEF Execute
  <2>2. stage \notin {"start", "reset", "awaitId"}
    BY <1>1, <2>1 DEF Early
  <2>3. /\ DOMAIN flash' = Pages /\ noise' \in Nat /\ noise' <= MaxNoise
        /\ \E s : Respond(s)
    <3>1. DOMAIN flash' = DOMAIN flash /\ \E s : Respond(s)
      BY <1>13 DEF Execute
    <3>2. noise' = noise \/ (noise < MaxNoise /\ noise' = noise + 1)
      BY <1>13 DEF Execute, Fault
    <3> QED BY <1>1, <3>1, <3>2, NoiseAssumption DEF Types
  <2>4. target' \in [application : BOOLEAN, phase : {"idle", "busy", "answering"},
                     command : {target'.command}]
    BY <1>1, <2>3 DEF Types, Respond
  <2> QED BY <1>1, <2>1, <2>2, <2>3, <2>4, QueueInNextState DEF QInv, Types, Early
<1>14. CASE Answered \/ StartApplication
  <2>1. UNCHANGED <<elf, stage, serial, flash, answers, noise>>
    BY <1>14 DEF Answered, StartApplication
  <2>2. /\ target' \in [application : BOOLEAN, phase : {"idle", "busy", "answering"},
                        command : {target'.command}]
        /\ target.phase = "idle" => target'.phase = "idle"
    BY <1>1, <1>14 DEF Types, Answered, StartApplication
  <2>3. Queue' /\ Types' /\ Early'
    BY <1>1, <2>1, <2>2, QueueInNextState DEF Types, Early
  <2> QED BY <2>3 DEF QInv
<1> QED BY <1>2, <1>3, <1>4, <1>5, <1>6, <1>7, <1>8, <1>9, <1>10, <1>11, <1>12, <1>13, <1>14
        DEF Next, Tool, Bootloader

LEMMA InvariantStep ==
  ASSUME RegularElfs, MisreadAnswers \cap {0, None} = {}, IInv, [Next]_vars
  PROVE  IInv'
<1>1. CASE UNCHANGED vars
  <2>1. Types' /\ Queue' /\ Early'
    BY <1>1, QueueStep DEF IInv, QInv
  <2>2. Stuck'
    BY <1>1 DEF vars, IInv, Stuck, Failed
  <2>3. CASE stage \in {"flashing", "closed"}
    BY <1>1, <2>1, <2>2, <2>3, SameLockStep DEF IInv, vars
  <2>4. CASE stage \notin {"flashing", "closed"}
    BY <1>1, <2>1, <2>2, <2>4 DEF IInv, vars, LockStep
  <2> QED BY <2>3, <2>4
<1>2. CASE Tool
  BY <1>2, StartKeeps, ResetKeeps, CloseKeeps, ReceiveIdKeeps, ReceiveEchoKeeps,
     ReceiveResponseKeeps, WriteDoneKeeps, WriteFailsKeeps DEF Tool
<1>3. CASE Bootloader \/ StartApplication
  BY <1>3, ReadCommandKeeps, CommandLostKeeps, ExecuteKeeps, TargetFreeKeeps DEF Bootloader
<1> QED BY <1>1, <1>2, <1>3 DEF Next

\* The queue holds what was not sent, and the request under way is not done: whatever the line
\* does, and whatever the file holds (serial.ts 246-446).
THEOREM QueueInOrder == Spec => []TypeOK
<1>1. Init => QInv
  BY InitHolds DEF IInv, QInv
<1>2. QInv /\ [Next]_vars => QInv'
  BY QueueStep
<1>3. QInv => TypeOK
  BY PagesAreNumbers DEF QInv, Types, Queue, QueueOf, SerialType, TypeOK
<1> QED BY <1>1, <1>2, <1>3, PTL DEF Spec

\* What the theorems about the bytes need: the program has no gap inside a page, and a fault of
\* the line does not make a failure look like success.
Hypothesis == RegularElfs /\ MisreadAnswers \cap {0, None} = {}

LEMMA Invariant == Hypothesis => (Spec => []IInv)
<1> SUFFICES ASSUME Hypothesis PROVE Spec => []IInv
  OBVIOUS
<1>1. Init => IInv
  BY InitHolds
<1>2. IInv /\ [Next]_vars => IInv'
  BY InvariantStep DEF Hypothesis
<1> QED BY <1>1, <1>2, PTL DEF Spec

\* A step that reports a page as written.
LEMMA OkStep ==
  ASSUME Hypothesis, IInv, [Next]_vars, NEW a \in Pages,
         serial.outcome[a] = "open", serial'.outcome[a] = "ok"
  PROVE  flash[a] = Filled(FlashMemory(a))
<1>1. QueueOf(serial) /\ serial \in SerialType(serial.line) /\ Types /\ Early /\ None \notin Pages
  BY PagesAreNumbers DEF IInv, Queue, QueueOf
<1>2. serial' # serial /\ stage \notin {"start", "reset", "awaitId"}
  BY <1>1 DEF Early
<1>3. ~(\E b \in Pages : WriteDone(b) \/ WriteFails(b))
  <2>1. ASSUME NEW b \in Pages, WriteDone(b) PROVE FALSE
    <3>1. b \in serial.writing /\ serial' = Written(b)
      BY <2>1 DEF WriteDone, Callback, Written
    <3>2. serial'.outcome = serial.outcome
      BY <1>1, <3>1, PageWritten
    <3> QED BY <3>2
  <2>2. ASSUME NEW b \in Pages, WriteFails(b) PROVE FALSE
    <3>1. \A c \in Pages : serial'.outcome[c] = "ok" => serial.outcome[c] = "ok"
      BY <1>1, <2>2, WriteFailsFacts
    <3> QED BY <3>1
  <2> QED BY <2>1, <2>2
<1>4. ~(ReadCommand \/ CommandLost)
  <2> SUFFICES ASSUME ReadCommand \/ CommandLost PROVE FALSE
    OBVIOUS
  <2>1. serial' = [serial EXCEPT !.line = Tail(serial.line)]
    BY Zenon DEF ReadCommand, CommandLost, TakeCommand
  <2> QED BY <1>1, <2>1, LineOnly
<1>5. ~ReceiveEcho
  <2> SUFFICES ASSUME ReceiveEcho PROVE FALSE
    OBVIOUS
  <2>1. PICK c : serial' = ReceivedCmd(c)
    BY <1>2 DEF ReceiveEcho
  <2>2. stage = "flashing"
    BY <1>2 DEF ReceiveEcho, Listening
  <2>3. CASE serial' = [serial EXCEPT !.state[serial.pending] = "waitingForResponse"]
    BY <1>1, <2>3 DEF SerialType
  <2>4. CASE serial.pending \in Pages /\ serial' = Finalize("error")
    <3>1. serial'.outcome = Settled(serial.outcome, {serial.pending}, "error")
      BY <1>1, <2>2, <2>4, FinalizeFacts
    <3>2. serial'.outcome[a] \in {"open", "error"}
      BY <1>1, <3>1, SettledFacts DEF SerialType
    <3> QED BY <3>2
  <2> QED BY <1>2, <2>1, <2>3, <2>4, CmdCases
<1>6. ReceiveResponse
  BY <1>2, <1>3, <1>4, <1>5 DEF Next, Tool, Bootloader, Start, ResetTarget, ResetFails, Close,
     ReceiveId, Execute, Answered, StartApplication, vars
<1>7. stage = "flashing" /\ answers # <<>> /\ Head(answers).kind = "response" /\ Complete
  BY <1>2, <1>6 DEF ReceiveResponse, Listening, Complete
<1>8. PICK s : serial' = ReceivedResponse(s) /\ (s = Head(answers).status \/ s \in MisreadAnswers)
  BY <1>6 DEF ReceiveResponse
<1>9. ~(serial.pending \in Pages /\ serial' = Finalize("error"))
  <2> SUFFICES ASSUME serial.pending \in Pages, serial' = Finalize("error") PROVE FALSE
    OBVIOUS
  <2>1. serial'.outcome = Settled(serial.outcome, {serial.pending}, "error")
    BY <1>1, <1>7, FinalizeFacts
  <2>2. serial'.outcome[a] \in {"open", "error"}
    BY <1>1, <2>1, SettledFacts DEF SerialType
  <2> QED BY <2>2
<1>10. /\ serial.pending \in Pages /\ s \in {0, None} /\ serial' = Finalize("ok")
       /\ serial.state[serial.pending] = "waitingForResponse"
  BY <1>2, <1>8, <1>9, ResponseCases
<1>11. a = serial.pending
  <2>1. serial'.outcome = Settled(serial.outcome, {serial.pending}, "ok")
    BY <1>1, <1>7, <1>10, FinalizeFacts
  <2> QED BY <1>1, <2>1, SettledFacts DEF SerialType
<1>12. ~Failed
  BY <1>7, <1>10 DEF IInv, Stuck
<1>13. /\ UnderWay(serial.pending) /\ Len(answers) = 1 /\ answers = <<answers[1]>>
       /\ answers[1].status = 0 => Holds(serial.pending)
  BY <1>7, <1>10, <1>12, OkHolds
<1>14. answers[1].status \in Int
  BY <1>10, <1>13 DEF UnderWay, InLine, Vanished, Read, Executed, Echoed
<1>15. s = answers[1].status
  BY <1>8, <1>10, <1>13 DEF Hypothesis
<1>16. s = 0
  BY <1>10, <1>14, <1>15, AddressAssumption
<1> QED BY <1>11, <1>13, <1>15, <1>16 DEF Holds

\* A page is reported as written only when the flash holds its bytes, also when echoes and
\* answers of an earlier page come late (serial.ts 311-402).
THEOREM ReportedPagesHold == Hypothesis => (Spec => OkMeansProgrammed)
<1> SUFFICES ASSUME Hypothesis PROVE Spec => OkMeansProgrammed
  OBVIOUS
<1>1. Spec => []IInv
  BY Invariant
<1>2. IInv /\ [Next]_vars =>
        [\A a \in Pages : serial.outcome[a] = "open" /\ serial'.outcome[a] = "ok"
           => flash[a] = Filled(FlashMemory(a))]_vars
  BY OkStep
<1> QED BY <1>1, <1>2, PTL DEF Spec, OkMeansProgrammed

\* When the tool reports success, every byte of the program is in the flash, in the page of its
\* address and at its place there (device.ts 51-95, 144-174).
THEOREM SuccessIsReal == Hypothesis => (Spec => []SuccessMeansFlashed)
<1> SUFFICES ASSUME Hypothesis PROVE Spec => []SuccessMeansFlashed
  OBVIOUS
<1>1. Spec => []IInv
  BY Invariant
<1>2. IInv => SuccessMeansFlashed
  <2> SUFFICES ASSUME IInv, stage = "closed", \A a \in Requests : serial.outcome[a] = "ok",
                      NEW i \in DOMAIN Program, NEW k \in 1..Program[i].memsz
               PROVE  LET addr   == Program[i].paddr + k - 1
                          offset == (addr - FlashStart) % PageSize
                      IN  flash[addr - offset][offset + 1] = Program[i].data[k]
    BY DEF SuccessMeansFlashed
  <2> DEFINE addr   == Program[i].paddr + k - 1
             offset == (addr - FlashStart) % PageSize
             page   == addr - offset
  <2>1. SideBySide(Program)
    BY DEF Hypothesis, RegularElfs, IInv, Types, Program
  <2>2. i \in 1..Len(Program)
    BY <2>1 DEF SideBySide
  <2>3. /\ page \in Pages /\ FlashMemory(page) # <<>>
        /\ Filled(FlashMemory(page))[offset + 1] = Program[i].data[k]
    BY <2>1, <2>2, ByteFound DEF FlashMemory
  <2> HIDE DEF page
  <2>4. page \in Requests /\ serial.outcome[page] = "ok"
    BY <2>3 DEF Requests
  <2>5. Right
    <3>1. ~Failed
      BY DEF IInv, Queue, QueueOf, Failed
    <3>2. IF serial.pending = None THEN Right ELSE UnderWay(serial.pending)
      BY <3>1 DEF IInv, LockStep
    <3> QED BY <3>2 DEF UnderWay
  <2>6. flash[page] = Filled(FlashMemory(page))
    BY <2>3, <2>4, <2>5 DEF Right, Holds
  <2> QED BY <2>3, <2>6 DEF page
<1> QED BY <1>1, <1>2, PTL
=============================================================================

---------------------------- MODULE HexFile_proofs ----------------------------
(***************************************************************************)
(* Proofs about HexFile, for any image, any size of the buffer, and        *)
(* anything that may happen to a file.                                     *)
(***************************************************************************)
EXTENDS HexFile, WellFoundedInduction, SequenceTheorems, TLAPS

-----------------------------------------------------------------------------
(***************************************************************************)
(* Loops. HexFile writes a loop of the code as a function of the number of *)
(* its rounds, which refers to itself; that there is such a function, and  *)
(* that what each round preserves holds in the end, follows from the fact  *)
(* that a set of numbers has a least element.                              *)
(***************************************************************************)

\* A set of numbers has a least element.
LEMMA LeastNumber ==
  ASSUME NEW S, S \subseteq Nat, S # {}
  PROVE  \E n \in S : \A m \in S : n <= m
<1>1. IsWellFoundedOn(OpToRel(<, Nat), Nat)
  BY NatLessThanWellFounded
<1>2. PICK n \in S : \A m \in S : ~(<<m, n>> \in OpToRel(<, Nat))
  BY <1>1, WFMin
<1>3. \A m \in S : ~(m < n)
  BY <1>2 DEF OpToRel
<1> QED  BY <1>3

\* What holds at first and is kept by each round of a loop holds in every round.
\* (The set S stands for a property.)
LEMMA EveryRoundTo ==
  ASSUME NEW N \in Nat, NEW S, 0 \in S, \A n \in 0 .. N - 1 : n \in S => n + 1 \in S
  PROVE  \A n \in 0 .. N : n \in S
<1> SUFFICES ASSUME NEW k \in 0 .. N, k \notin S PROVE FALSE
  OBVIOUS
<1> DEFINE T == (0 .. N) \ S
<1>1. T \subseteq Nat /\ T # {}
  OBVIOUS
<1>2. PICK n \in T : \A m \in T : n <= m
  <2> HIDE DEF T
  <2> QED  BY <1>1, LeastNumber
<1>3. n # 0 /\ n - 1 \in 0 .. N - 1 /\ n - 1 \notin T
  BY <1>2
<1>4. (n - 1) + 1 \in S
  BY <1>3
<1> QED  BY <1>2, <1>4

\* g is a loop of N rounds from x on that has a step of its own in each.
IsRun(g, x, step, N) == g[0] = x /\ \A n \in 1 .. N : g[n] = step[n][g[n - 1]]

\* There is one for any steps.
LEMMA NumberedRounds ==
  ASSUME NEW S, NEW x \in S, NEW N \in Nat, NEW step \in [1 .. N -> [S -> S]]
  PROVE  \E g \in [0 .. N -> S] : IsRun(g, x, step, N)
<1> DEFINE Possible == {k \in 0 .. N : \E g \in [0 .. N -> S] : IsRun(g, x, step, k)}
<1>1. 0 \in Possible
  <2> DEFINE g == [n \in 0 .. N |-> x]
  <2>1. g \in [0 .. N -> S] /\ IsRun(g, x, step, 0)
    BY DEF IsRun
  <2> HIDE DEF g
  <2> QED  BY <2>1
<1>2. ASSUME NEW k \in 0 .. N - 1, k \in Possible PROVE k + 1 \in Possible
  <2>1. PICK g \in [0 .. N -> S] : IsRun(g, x, step, k)
    BY <1>2
  <2> DEFINE h == [g EXCEPT ![k + 1] = step[k + 1][g[k]]]
  <2>2. step[k + 1][g[k]] \in S
    <3>1. g[k] \in S /\ step[k + 1] \in [S -> S]
      OBVIOUS
    <3> QED  BY <3>1
  <2>3. h \in [0 .. N -> S] /\ h[0] = x
    BY <2>1, <2>2 DEF IsRun
  <2>4. ASSUME NEW n \in 1 .. k + 1 PROVE h[n] = step[n][h[n - 1]]
    <3>1. h[n - 1] = g[n - 1]
      OBVIOUS
    <3>2. CASE n = k + 1
      BY <3>1, <3>2
    <3>3. CASE n # k + 1
      BY <2>1, <3>1, <3>3 DEF IsRun
    <3> QED  BY <3>2, <3>3
  <2>5. IsRun(h, x, step, k + 1)
    BY <2>3, <2>4 DEF IsRun
  <2> HIDE DEF h
  <2> QED  BY <2>3, <2>5
<1>3. \A k \in 0 .. N : k \in Possible
  <2> HIDE DEF Possible
  <2> QED  BY <1>1, <1>2, EveryRoundTo
<1>4. N \in Possible
  <2> HIDE DEF Possible
  <2> QED  BY <1>3
<1> QED  BY <1>4

-----------------------------------------------------------------------------
(* Bytes and addresses.  The provers do better with the name of a limit *)
(* than with the number.                                                *)

LastByte == 255
Last == 65535

\* The bytes up to the last one.
LEMMA BytesAre == LastByte \in Nat /\ Bytes = 0 .. LastByte /\ LastByte + 1 = 256
BY DEF Bytes, LastByte

\* The addresses up to the last one.
LEMMA AddressIs == Last \in Nat /\ Address = 0 .. Last
BY DEF Address, Last

\* An address has room in sixteen bits.
LEMMA NoWrap == ASSUME NEW a \in Address PROVE uint16(a) = a
<1>1. uint16(a) = a % (Last + 1)
  BY DEF uint16, Last
<1> QED  BY <1>1, AddressIs

\* Bytes are numbers.
LEMMA ByteIs ==
  /\ 0 \in Bytes /\ 1 \in Bytes
  /\ \A n \in Bytes : n \in Nat /\ n < 256
  /\ \A n \in Nat : n < 256 => n \in Bytes
BY BytesAre

-----------------------------------------------------------------------------
(* The sum of the bytes of a line. *)

\* The sum is the last one of a series.
IsSeries(g, s) == g[0] = 0 /\ \A n \in 1 .. Len(s) : g[n] = g[n - 1] + s[n]

\* There is one, and the sum is its last number.
LEMMA TotalIs ==
  ASSUME NEW s \in Seq(Nat)
  PROVE  \E g \in [0 .. Len(s) -> Nat] : IsSeries(g, s) /\ Total(s) = g[Len(s)]
<1> DEFINE N == Len(s)
           Loop(g) == [i \in 0 .. N |-> IF i = 0 THEN 0 ELSE g[i - 1] + s[i]]
           step == [n \in 1 .. N |-> [x \in Nat |-> x + s[n]]]
<1>0. N \in Nat /\ \A n \in 1 .. N : s[n] \in Nat
  OBVIOUS
<1>1. step \in [1 .. N -> [Nat -> Nat]]
  BY <1>0
<1>2. PICK g \in [0 .. N -> Nat] : IsRun(g, 0, step, N)
  <2> HIDE DEF step, N
  <2> QED  BY <1>0, <1>1, NumberedRounds
<1>3. g[0] = 0 /\ \A n \in 1 .. N : g[n] = g[n - 1] + s[n]
  <2>1. ASSUME NEW n \in 1 .. N PROVE g[n] = g[n - 1] + s[n]
    <3>1. g[n - 1] \in Nat
      BY <1>0, SMTT(30)
    <3> QED  BY <1>2, <3>1 DEF IsRun
  <2> QED  BY <1>2, <2>1 DEF IsRun
<1>4. g = Loop(g)
  BY <1>0, <1>3
<1>5. ASSUME NEW h, h = Loop(h)
      PROVE  /\ h \in [0 .. N -> Nat]
             /\ h[0] = 0 /\ \A n \in 1 .. N : h[n] = h[n - 1] + s[n]
  <2>1. h[0] = 0 /\ \A n \in 1 .. N : h[n] = h[n - 1] + s[n]
    <3>1. \A n \in 0 .. N : Loop(h)[n] = IF n = 0 THEN 0 ELSE h[n - 1] + s[n]
      OBVIOUS
    <3> HIDE DEF Loop, N
    <3> QED  BY <1>0, <1>5, <3>1
  <2> DEFINE T == {n \in 0 .. N : h[n] \in Nat}
  <2>2. 0 \in T /\ \A n \in 0 .. N - 1 : n \in T => n + 1 \in T
    <3>1. 0 \in T
      BY <1>0, <2>1
    <3>2. ASSUME NEW n \in 0 .. N - 1, n \in T PROVE n + 1 \in T
      <4>1. n + 1 \in 1 .. N /\ (n + 1) - 1 = n
        BY <1>0
      <4>2. h[n + 1] = h[n] + s[n + 1]
        BY <2>1, <4>1
      <4> QED  BY <1>0, <3>2, <4>1, <4>2
    <3> QED  BY <3>1, <3>2
  <2>3. \A n \in 0 .. N : n \in T
    <3> HIDE DEF T, N
    <3> QED  BY <1>0, <2>2, EveryRoundTo
  <2>4. DOMAIN h = 0 .. N /\ h = [n \in 0 .. N |-> h[n]]
    BY <1>5
  <2> QED  BY <2>1, <2>3, <2>4
<1> DEFINE f == CHOOSE h : h = Loop(h)
<1>6. f = Loop(f)
  BY <1>4
<1>7. Total(s) = f[N]
  BY DEF Total
<1> HIDE DEF f, Loop
<1> QED  BY <1>5, <1>6, <1>7 DEF IsSeries

\* One more number.
LEMMA TotalAppend ==
  ASSUME NEW s \in Seq(Nat), NEW c \in Nat
  PROVE  Total(Append(s, c)) = Total(s) + c
<1> DEFINE t == Append(s, c)
           N == Len(s)
<1>0. N \in Nat /\ t \in Seq(Nat) /\ Len(t) = N + 1 /\ t[N + 1] = c /\ \A n \in 1 .. N : t[n] = s[n]
  OBVIOUS
<1>1. PICK g \in [0 .. N -> Nat] : IsSeries(g, s) /\ Total(s) = g[N]
  BY TotalIs
<1>2. PICK h \in [0 .. N + 1 -> Nat] : IsSeries(h, t) /\ Total(t) = h[N + 1]
  <2> HIDE DEF t, N
  <2> QED  BY <1>0, TotalIs
<1> HIDE DEF t, N
<1> DEFINE T == {n \in 0 .. N : h[n] = g[n]}
<1>3. 0 \in T /\ \A n \in 0 .. N - 1 : n \in T => n + 1 \in T
  <2>1. 0 \in T
    BY <1>0, <1>1, <1>2 DEF IsSeries
  <2>2. ASSUME NEW n \in 0 .. N - 1, n \in T PROVE n + 1 \in T
    <3>1. n + 1 \in 1 .. N /\ n + 1 \in 1 .. N + 1 /\ (n + 1) - 1 = n
      BY <1>0
    <3>2. g[n + 1] = g[n] + s[n + 1]
      BY <1>1, <3>1 DEF IsSeries, N
    <3>3. h[n + 1] = h[n] + t[n + 1]
      BY <1>0, <1>2, <3>1 DEF IsSeries
    <3>4. t[n + 1] = s[n + 1] /\ h[n] = g[n]
      BY <1>0, <2>2, <3>1
    <3>5. h[n + 1] = g[n + 1] /\ n + 1 \in 0 .. N
      BY <1>0, <3>1, <3>2, <3>3, <3>4
    <3> QED  BY <3>5
  <2> QED  BY <2>1, <2>2
<1>4. h[N] = g[N]
  <2>1. \A n \in 0 .. N : n \in T
    <3> HIDE DEF T
    <3> QED  BY <1>0, <1>3, EveryRoundTo
  <2> QED  BY <1>0, <2>1
<1>5. h[N + 1] = h[N] + t[N + 1]
  <2>1. N + 1 \in 1 .. N + 1 /\ (N + 1) - 1 = N
    BY <1>0
  <2> QED  BY <1>0, <1>2, <2>1 DEF IsSeries
<1> QED  BY <1>0, <1>1, <1>2, <1>4, <1>5 DEF t

\* One number changed.
LEMMA TotalChanged ==
  ASSUME NEW s \in Seq(Nat), NEW t \in Seq(Nat), Len(t) = Len(s), NEW k \in 1 .. Len(s),
         \A n \in 1 .. Len(s) : n # k => t[n] = s[n]
  PROVE  Total(t) - t[k] = Total(s) - s[k]
<1> DEFINE N == Len(s)
<1>0. N \in Nat /\ k \in 1 .. N /\ Len(t) = N /\ \A n \in 1 .. N : s[n] \in Nat /\ t[n] \in Nat
  OBVIOUS
<1>1. PICK g \in [0 .. N -> Nat] : IsSeries(g, s) /\ Total(s) = g[N]
  BY TotalIs
<1>2. PICK h \in [0 .. N -> Nat] : IsSeries(h, t) /\ Total(t) = h[N]
  BY <1>0, TotalIs
<1> DEFINE T == {n \in 0 .. N : IF n < k THEN h[n] = g[n] ELSE h[n] - t[k] = g[n] - s[k]}
<1>3. 0 \in T /\ \A n \in 0 .. N - 1 : n \in T => n + 1 \in T
  <2>1. 0 \in T
    BY <1>0, <1>1, <1>2 DEF IsSeries
  <2>2. ASSUME NEW n \in 0 .. N - 1, n \in T PROVE n + 1 \in T
    <3>1. n + 1 \in 1 .. N /\ (n + 1) - 1 = n /\ n \in 0 .. N /\ n + 1 \in 0 .. N
      BY <1>0
    <3>2. g[n + 1] = g[n] + s[n + 1]
      BY <1>1, <3>1 DEF IsSeries
    <3>3. h[n + 1] = h[n] + t[n + 1]
      BY <1>0, <1>2, <3>1 DEF IsSeries
    <3>4. g[n] \in Nat /\ h[n] \in Nat /\ s[n + 1] \in Nat /\ t[n + 1] \in Nat /\ s[k] \in Nat /\ t[k] \in Nat
      BY <1>0, <3>1
    <3>5. n + 1 # k => t[n + 1] = s[n + 1]
      BY <3>1
    <3>6. IF n < k THEN h[n] = g[n] ELSE h[n] - t[k] = g[n] - s[k]
      BY <2>2
    <3>7. IF n + 1 < k THEN h[n + 1] = g[n + 1] ELSE h[n + 1] - t[k] = g[n + 1] - s[k]
      <4> HIDE DEF N
      <4> DEFINE gn == g[n]
                 hn == h[n]
                 sk == s[k]
                 tk == t[k]
                 x == s[n + 1]
                 y == t[n + 1]
                 gm == g[n + 1]
                 hm == h[n + 1]
      <4>1. n + 1 = k => x = sk /\ y = tk
        OBVIOUS
      <4>2. gm = gn + x /\ hm = hn + y /\ (n + 1 # k => y = x)
        BY <3>2, <3>3, <3>5
      <4>3. gn \in Nat /\ hn \in Nat /\ x \in Nat /\ y \in Nat /\ sk \in Nat /\ tk \in Nat /\ n \in Nat /\ k \in Nat
        BY <1>0, <3>4
      <4>4. IF n < k THEN hn = gn ELSE hn - tk = gn - sk
        BY <3>6
      <4> HIDE DEF gn, hn, sk, tk, x, y, gm, hm
      <4>5. IF n + 1 < k THEN hm = gm ELSE hm - tk = gm - sk
        BY <4>1, <4>2, <4>3, <4>4
      <4> QED  BY <4>5 DEF gm, hm, tk, sk
    <3> QED  BY <3>1, <3>7
  <2> QED  BY <2>1, <2>2
<1>4. \A n \in 0 .. N : n \in T
  <2> HIDE DEF T, N
  <2> QED  BY <1>0, <1>3, EveryRoundTo
<1> QED  BY <1>0, <1>1, <1>2, <1>4, SMTT(30)

-----------------------------------------------------------------------------
(* The lines that asm-write-hex writes. *)

\* The sum of numbers is a number.
LEMMA TotalIsNat ==
  ASSUME NEW s \in Seq(Nat)
  PROVE  Total(s) \in Nat
<1>1. PICK g \in [0 .. Len(s) -> Nat] : Total(s) = g[Len(s)]
  BY TotalIs
<1> QED  BY <1>1

\* A sequence of bytes is one of numbers.
LEMMA BytesAreNumbers ==
  ASSUME NEW s \in Seq(Bytes)
  PROVE  s \in Seq(Nat)
<1>1. Len(s) \in Nat /\ s = [i \in 1 .. Len(s) |-> s[i]] /\ \A i \in 1 .. Len(s) : s[i] \in Nat
  BY ByteIs
<1> QED  BY <1>1

\* The buffer has a size.
LEMMA BufferSizeIs == BufferSize \in Nat
BY HexFileAssumption

\* The two bytes of an address.
LEMMA Halves ==
  ASSUME NEW a \in Address
  PROVE  /\ a \in Nat /\ a \div 256 \in Bytes /\ a % 256 \in Bytes
         /\ 256 * (a \div 256) + (a % 256) = a
<1>1. a \in Nat /\ a <= 65535
  <2>1. Last = 65535
    BY DEF Last
  <2>2. a \in Nat /\ a <= Last
    BY AddressIs
  <2> QED  BY <2>1, <2>2
<1>2. a \div 256 \in Nat /\ a \div 256 < 256 /\ a % 256 \in Nat /\ a % 256 < 256 /\ 256 * (a \div 256) + (a % 256) = a
  BY <1>1
<1> QED  BY <1>1, <1>2, ByteIs

\* The last byte makes the sum a multiple of 256.
LEMMA Complement ==
  ASSUME NEW n \in Nat
  PROVE  (-n) % 256 \in Bytes /\ (n + ((-n) % 256)) % 256 = 0
<1>1. (-n) % 256 \in Nat /\ (-n) % 256 < 256 /\ (n + ((-n) % 256)) % 256 = 0
  OBVIOUS
<1> QED  BY <1>1, ByteIs

\* Two bytes that are different modulo 256 are different.
LEMMA ByteModulo ==
  ASSUME NEW m \in Nat, NEW n \in Nat, NEW a \in Bytes, NEW b \in Bytes,
         m % 256 = 0, n % 256 = 0, m - a = n - b
  PROVE  a = b
<1>1. a \in Nat /\ a < 256 /\ b \in Nat /\ b < 256
  BY ByteIs
<1>2. m = 256 * (m \div 256) /\ m \div 256 \in Nat /\ n = 256 * (n \div 256) /\ n \div 256 \in Nat
  OBVIOUS
<1> DEFINE p == m \div 256
           q == n \div 256
<1>3. p \in Nat /\ q \in Nat /\ 256 * p - a = 256 * q - b
  BY <1>2
<1> HIDE DEF p, q
<1> QED  BY <1>1, <1>3

IsRecord(l, type, addr, b) ==
  /\ l \in Line /\ l.colon /\ l.newline
  /\ l.bytes \in Seq(Bytes) /\ Len(l.bytes) = 5 + Len(b)
  /\ l.bytes[1] = Len(b)
  /\ l.bytes[2] = addr \div 256 /\ l.bytes[3] = addr % 256
  /\ l.bytes[4] = type
  /\ \A j \in 1 .. Len(b) : l.bytes[4 + j] = b[j]
  /\ Total(l.bytes) % 256 = 0

\* What print-line writes.
LEMMA LineIs ==
  ASSUME NEW b \in Seq(Bytes), Len(b) <= 16, NEW addr \in Address, NEW type \in {0, 1}
  PROVE  IsRecord(print_line(type, addr, b), type, addr, b)
<1> DEFINE head == <<Len(b), addr \div 256, addr % 256, type>>
           fields == head \o b
           sum == (-Total(fields)) % 256
           l == print_line(type, addr, b)
<1>0. Len(b) \in Nat /\ Len(b) \in Bytes /\ type \in Bytes /\ addr \div 256 \in Bytes /\ addr % 256 \in Bytes
  <2>1. Len(b) \in Nat /\ 0 \in Bytes /\ 1 \in Bytes /\ \A n \in Nat : n <= 16 => n \in Bytes
    BY ByteIs
  <2> QED  BY <2>1, Halves
<1>1. head \in Seq(Bytes) /\ Len(head) = 4
  BY <1>0
<1>2. /\ fields \in Seq(Bytes) /\ Len(fields) = 4 + Len(b)
      /\ fields[1] = Len(b) /\ fields[2] = addr \div 256 /\ fields[3] = addr % 256 /\ fields[4] = type
      /\ \A j \in 1 .. Len(b) : fields[4 + j] = b[j]
  <2>1. head[1] = Len(b) /\ head[2] = addr \div 256 /\ head[3] = addr % 256 /\ head[4] = type
    OBVIOUS
  <2> HIDE DEF head
  <2>2. /\ fields \in Seq(Bytes) /\ Len(fields) = 4 + Len(b)
        /\ \A i \in 1 .. 4 + Len(b) : fields[i] = IF i <= 4 THEN head[i] ELSE b[i - 4]
    <3>1. /\ fields \in Seq(Bytes) /\ Len(fields) = Len(head) + Len(b)
          /\ \A i \in 1 .. Len(head) + Len(b) : fields[i] = IF i <= Len(head) THEN head[i] ELSE b[i - Len(head)]
      BY <1>1, ConcatProperties
    <3> HIDE DEF fields
    <3> QED  BY <1>1, <3>1
  <2> HIDE DEF fields
  <2>3. \A i \in 1 .. 4 : fields[i] = head[i]
    BY <1>0, <2>2
  <2>4. \A j \in 1 .. Len(b) : fields[4 + j] = b[j]
    BY <1>0, <2>2
  <2> QED  BY <2>1, <2>2, <2>3, <2>4
<1>3. l = [colon |-> TRUE, bytes |-> Append(fields, sum), newline |-> TRUE]
  BY DEF print_line
<1> HIDE DEF fields, head, l
<1>4. fields \in Seq(Nat) /\ Total(fields) \in Nat
  <2>1. fields \in Seq(Nat)
    BY <1>2, BytesAreNumbers
  <2> QED  BY <2>1, TotalIsNat, Zenon
<1>5. sum \in Bytes /\ sum \in Nat /\ (Total(fields) + sum) % 256 = 0
  <2>1. sum \in Bytes /\ (Total(fields) + sum) % 256 = 0
    BY <1>4, Complement
  <2>2. Bytes \subseteq Nat
    BY ByteIs
  <2> HIDE DEF sum
  <2> QED  BY <2>1, <2>2
<1> HIDE DEF sum
<1>6. Total(Append(fields, sum)) % 256 = 0
  BY <1>4, <1>5, TotalAppend
<1>7. /\ Append(fields, sum) \in Seq(Bytes) /\ Len(Append(fields, sum)) = 5 + Len(b)
      /\ \A i \in 1 .. 4 + Len(b) : Append(fields, sum)[i] = fields[i]
  BY <1>0, <1>2, <1>5
<1>8. l \in Line
  BY <1>0, <1>3, <1>7 DEF Line
<1>9. /\ l.bytes[1] = Len(b) /\ l.bytes[2] = addr \div 256 /\ l.bytes[3] = addr % 256 /\ l.bytes[4] = type
      /\ \A j \in 1 .. Len(b) : l.bytes[4 + j] = b[j]
  BY <1>0, <1>2, <1>3, <1>7
<1>10. l.bytes = Append(fields, sum) /\ l.colon /\ l.newline
  BY <1>3
<1>11. IsRecord(l, type, addr, b)
  BY <1>6, <1>7, <1>8, <1>9, <1>10 DEF IsRecord
<1> QED  BY <1>11 DEF l

\* A line with the bytes of w behind addr.
DataLine(l, w, addr, len) ==
  /\ l \in Line /\ l.colon /\ l.newline
  /\ l.bytes \in Seq(Bytes) /\ Len(l.bytes) = 5 + len /\ Total(l.bytes) % 256 = 0
  /\ l.bytes[1] = len /\ 256 * l.bytes[2] + l.bytes[3] = addr /\ l.bytes[4] = 0
  /\ addr + len <= Len(w)
  /\ \A j \in 1 .. len : l.bytes[4 + j] = w[addr + j]

\* The last line.
EndLine(l) ==
  /\ l \in Line /\ l.colon /\ l.newline
  /\ l.bytes \in Seq(Bytes) /\ Len(l.bytes) = 5 /\ Total(l.bytes) % 256 = 0
  /\ l.bytes[1] = 0 /\ 256 * l.bytes[2] + l.bytes[3] = 0 /\ l.bytes[4] = 1

\* What the lines of s promise: each carries some bytes of w, and each byte is carried by one.
Carries(s, w) ==
  /\ s \in Seq(Line) /\ Len(s) \in Nat \ {0}
  /\ EndLine(s[Len(s)])
  /\ \A i \in 1 .. Len(s) - 1 : \E addr, len \in Nat : DataLine(s[i], w, addr, len)
  /\ \A k \in 1 .. Len(w) : \E i \in 1 .. Len(s) - 1 : \E addr, len \in Nat :
       DataLine(s[i], w, addr, len) /\ addr < k /\ k <= addr + len

\* What is below an address is one.
LEMMA Below ==
  ASSUME NEW n \in Address
  PROVE  n \in Nat /\ \A i \in 0 .. n : i \in Address
BY AddressIs

\* An image as the proofs use it.
LEMMA ImageIs ==
  ASSUME NEW w, IsImage(w)
  PROVE  /\ w \in Seq(Bytes) /\ Len(w) \in Nat /\ Len(w) \in Address /\ Len(w) >= 4
         /\ \A i \in 0 .. Len(w) : i \in Address
         /\ w[1] = 215 /\ w[2] = 251
<1>1. w \in Seq(Bytes) /\ Len(w) \in Address /\ Len(w) >= 4 /\ w[1] = 215 /\ w[2] = 251
  BY DEF IsImage
<1> QED  BY <1>1, Below

\* A data record.
LEMMA DataLineIs ==
  ASSUME NEW w, IsImage(w), NEW addr \in Nat, NEW len \in 0 .. 16, addr + len <= Len(w)
  PROVE  DataLine(print_line(0, addr, SubSeq(w, addr + 1, addr + len)), w, addr, len)
<1> DEFINE b == SubSeq(w, addr + 1, addr + len)
           l == print_line(0, addr, b)
<1>0. w \in Seq(Bytes) /\ Len(w) \in Nat /\ addr \in Address /\ len \in Nat /\ addr \in 0 .. Len(w)
  BY ImageIs
<1>1. b \in Seq(Bytes) /\ Len(b) = len /\ \A j \in 1 .. len : b[j] = w[addr + j]
  <2> DEFINE m == addr + 1
             n == addr + len
  <2>1. m \in Int /\ n \in Int /\ \A i \in m .. n : w[i] \in Bytes
    BY <1>0
  <2>2. /\ SubSeq(w, m, n) \in Seq(Bytes)
        /\ Len(SubSeq(w, m, n)) = IF m <= n THEN n - m + 1 ELSE 0
        /\ \A i \in 1 .. n - m + 1 : SubSeq(w, m, n)[i] = w[m + i - 1]
    <3> HIDE DEF m, n
    <3> QED  BY <2>1, SubSeqProperties
  <2>3. (IF m <= n THEN n - m + 1 ELSE 0) = len /\ n - m + 1 = len /\ \A i \in 1 .. len : m + i - 1 = addr + i
    BY <1>0
  <2> HIDE DEF m, n
  <2>4. b = SubSeq(w, m, n)
    BY DEF m, n
  <2> HIDE DEF b
  <2> QED  BY <2>2, <2>3, <2>4
<1> HIDE DEF b
<1>2. IsRecord(l, 0, addr, b)
  BY <1>0, <1>1, LineIs
<1> HIDE DEF l
<1>3. 256 * l.bytes[2] + l.bytes[3] = addr
  BY <1>0, <1>2, Halves DEF IsRecord
<1>4. DataLine(l, w, addr, len)
  <2>1. /\ l \in Line /\ l.colon /\ l.newline
        /\ l.bytes \in Seq(Bytes) /\ Len(l.bytes) = 5 + len /\ Total(l.bytes) % 256 = 0
        /\ l.bytes[1] = len /\ l.bytes[4] = 0
    BY <1>1, <1>2 DEF IsRecord
  <2>2. ASSUME NEW j \in 1 .. len PROVE l.bytes[4 + j] = w[addr + j]
    BY <1>1, <1>2 DEF IsRecord
  <2> QED  BY <1>3, <2>1, <2>2 DEF DataLine
<1> QED  BY <1>4 DEF l, b

\* The empty record.
LEMMA NoBytes ==
  ASSUME NEW w, IsImage(w)
  PROVE  DataLine(print_line(0, 0, <<>>), w, 0, 0)
<1>1. DataLine(print_line(0, 0, SubSeq(w, 0 + 1, 0 + 0)), w, 0, 0)
  BY ImageIs, DataLineIs
<1>2. SubSeq(w, 0 + 1, 0 + 0) = <<>>
  BY SubSeqEmpty
<1> QED  BY <1>1, <1>2

\* The EOF record.
LEMMA EndLineIs == EndLine(print_line(1, 0, <<>>))
<1> DEFINE l == print_line(1, 0, <<>>)
<1>1. IsRecord(l, 1, 0, <<>>)
  <2> DEFINE b == <<>>
  <2>1. b \in Seq(Bytes) /\ Len(b) <= 16 /\ 0 \in Address /\ 1 \in {0, 1}
    BY DEF Address
  <2> HIDE DEF b
  <2>2. IsRecord(print_line(1, 0, b), 1, 0, b)
    BY <2>1, LineIs
  <2> QED  BY <2>2 DEF b
<1>2. 0 \div 256 = 0 /\ 0 % 256 = 0 /\ Len(<<>>) = 0
  OBVIOUS
<1> HIDE DEF l
<1>3. EndLine(l)
  BY <1>1, <1>2 DEF IsRecord, EndLine
<1> QED  BY <1>3 DEF l

\* The lines in a row.
LEMMA InARow ==
  ASSUME NEW S, NEW a \in S, NEW f \in Seq(S), NEW r \in S, NEW e \in S,
         NEW t, t = <<a>> \o f \o <<r, e>>
  PROVE  /\ t \in Seq(S) /\ Len(t) = Len(f) + 3
         /\ t[1] = a /\ t[Len(f) + 2] = r /\ t[Len(f) + 3] = e
         /\ \A k \in 1 .. Len(f) : t[k + 1] = f[k]
<1> DEFINE x == <<a>>
           y == <<r, e>>
           u == x \o f
           n == Len(f)
<1>1. x \in Seq(S) /\ Len(x) = 1 /\ x[1] = a /\ y \in Seq(S) /\ Len(y) = 2 /\ y[1] = r /\ y[2] = e /\ n \in Nat
  OBVIOUS
<1> HIDE DEF x, y
<1>2. /\ u \in Seq(S) /\ Len(u) = Len(x) + Len(f)
      /\ \A i \in 1 .. Len(x) + Len(f) : u[i] = IF i <= Len(x) THEN x[i] ELSE f[i - Len(x)]
  BY <1>1, ConcatProperties
<1>3. t = u \o y
  BY DEF x, y
<1> HIDE DEF u
<1>4. /\ t \in Seq(S) /\ Len(t) = Len(u) + Len(y)
      /\ \A i \in 1 .. Len(u) + Len(y) : t[i] = IF i <= Len(u) THEN u[i] ELSE y[i - Len(u)]
  BY <1>1, <1>2, <1>3, ConcatProperties, SMTT(30)
<1> HIDE DEF n
<1>5. /\ Len(u) = n + 1 /\ u[1] = a
      /\ \A k \in 1 .. n : u[k + 1] = f[k]
  BY <1>1, <1>2 DEF n
<1>6. /\ Len(t) = n + 3 /\ t[1] = a /\ t[n + 2] = r /\ t[n + 3] = e
      /\ \A k \in 1 .. n : t[k + 1] = f[k]
  <2>1. Len(t) = n + 3
    BY <1>1, <1>4, <1>5
  <2>2. \A i \in 1 .. n + 1 : t[i] = u[i]
    BY <1>1, <1>4, <1>5
  <2>3. t[n + 2] = r /\ t[n + 3] = e
    <3>1. /\ n + 2 \in 1 .. Len(u) + Len(y) /\ ~(n + 2 <= Len(u)) /\ (n + 2) - Len(u) = 1
          /\ n + 3 \in 1 .. Len(u) + Len(y) /\ ~(n + 3 <= Len(u)) /\ (n + 3) - Len(u) = 2
      BY <1>1, <1>5
    <3>2. t[n + 2] = y[(n + 2) - Len(u)] /\ t[n + 3] = y[(n + 3) - Len(u)]
      BY <1>4, <3>1
    <3>3. t[n + 2] = y[1] /\ t[n + 3] = y[2]
      BY <3>1, <3>2
    <3> QED  BY <1>1, <3>3
  <2>4. t[1] = a
    BY <1>1, <1>5, <2>2
  <2>5. ASSUME NEW k \in 1 .. n PROVE t[k + 1] = f[k]
    <3>1. k + 1 \in 1 .. n + 1
      BY <1>1
    <3>2. t[k + 1] = u[k + 1] /\ u[k + 1] = f[k]
      BY <1>5, <2>2, <3>1
    <3> QED  BY <3>2
  <2> QED  BY <2>1, <2>3, <2>4, <2>5
<1> QED  BY <1>4, <1>6 DEF n

\* What asm-write-hex writes.
LEMMA WrittenCarries ==
  ASSUME NEW w, IsImage(w)
  PROVE  Carries(asm_write_hex(w), w)
<1> DEFINE N == Len(w)
           full == (N - 1) \div 16
           first(k) == 16 * (k - 1)
           data(k) == print_line(0, first(k), SubSeq(w, first(k) + 1, first(k) + 16))
           a == print_line(0, 0, <<>>)
           f == [k \in 1 .. full |-> data(k)]
           r == print_line(0, 16 * full, SubSeq(w, 16 * full + 1, N))
           e == print_line(1, 0, <<>>)
           s == asm_write_hex(w)
<1>1. N \in Nat /\ N >= 4 /\ full \in Nat /\ 16 * full < N /\ N <= 16 * full + 16
  <2>1. N \in Nat /\ N >= 4
    BY ImageIs
  <2> HIDE DEF N
  <2> QED  BY <2>1
<1>2. s = <<a>> \o f \o <<r, e>>
  BY DEF asm_write_hex
<1>3. DataLine(a, w, 0, 0) /\ EndLine(e)
  BY NoBytes, EndLineIs
<1>4. ASSUME NEW k \in 1 .. full PROVE first(k) \in Nat /\ first(k) + 16 <= N /\ DataLine(data(k), w, first(k), 16)
  <2>1. first(k) \in Nat /\ first(k) + 16 <= N /\ 16 \in 0 .. 16
    <3> HIDE DEF full, N
    <3> QED  BY <1>1
  <2> HIDE DEF first
  <2> QED  BY <2>1, DataLineIs
<1> DEFINE from == 16 * full
           len == N - 16 * full
<1>5. from \in Nat /\ len \in 0 .. 16 /\ len \in Nat /\ from + len = N /\ len > 0 /\ DataLine(r, w, from, len)
  <2>1. from \in Nat /\ len \in 0 .. 16 /\ len \in Nat /\ len > 0 /\ from + len = N
    <3> HIDE DEF full, N
    <3> QED  BY <1>1
  <2>2. r = print_line(0, from, SubSeq(w, from + 1, from + len))
    BY <2>1
  <2> HIDE DEF from, len, r, full
  <2>3. from + len <= Len(w)
    BY <1>1, <2>1
  <2>4. DataLine(r, w, from, len)
    BY <2>1, <2>2, <2>3, DataLineIs
  <2> QED  BY <2>1, <2>4
<1> HIDE DEF s, a, r, e, data, first, N, full
<1>6. a \in Line /\ r \in Line /\ e \in Line /\ f \in Seq(Line) /\ Len(f) = full /\ \A k \in 1 .. full : f[k] = data(k)
  <2>1. \A k \in 1 .. full : data(k) \in Line
    BY <1>4 DEF DataLine
  <2>2. a \in Line /\ r \in Line /\ e \in Line
    BY <1>3, <1>5 DEF DataLine, EndLine
  <2> QED  BY <1>1, <2>1, <2>2
<1> HIDE DEF f
<1>7. /\ s \in Seq(Line) /\ Len(s) = full + 3
      /\ s[1] = a /\ s[full + 2] = r /\ s[full + 3] = e
      /\ \A k \in 1 .. full : s[k + 1] = f[k]
  BY <1>2, <1>6, InARow
<1>8. \A k \in 1 .. full : DataLine(s[k + 1], w, first(k), 16) /\ first(k) \in Nat
  BY <1>4, <1>6, <1>7
<1>9. ASSUME NEW i \in 1 .. Len(s) - 1 PROVE \E addr, n \in Nat : DataLine(s[i], w, addr, n)
  <2>1. CASE i = 1
    BY <1>3, <1>7, <2>1
  <2>2. CASE i = full + 2
    BY <1>5, <1>7, <2>2
  <2>3. CASE i # 1 /\ i # full + 2
    <3>1. i - 1 \in 1 .. full /\ (i - 1) + 1 = i
      BY <1>1, <1>7, <2>3
    <3>2. DataLine(s[i], w, first(i - 1), 16) /\ first(i - 1) \in Nat
      BY <1>8, <3>1
    <3> QED  BY <3>2
  <2> QED  BY <2>1, <2>2, <2>3
<1>10. ASSUME NEW k \in 1 .. Len(w)
       PROVE  \E i \in 1 .. Len(s) - 1 : \E addr, n \in Nat : DataLine(s[i], w, addr, n) /\ addr < k /\ k <= addr + n
  <2>0. k \in 1 .. N
    BY DEF N
  <2>1. CASE k > from
    <3>1. full + 2 \in 1 .. Len(s) - 1 /\ DataLine(s[full + 2], w, from, len) /\ k <= from + len
      <4>1. full + 2 \in 1 .. Len(s) - 1
        BY <1>1, <1>7
      <4>2. DataLine(s[full + 2], w, from, len)
        BY <1>5, <1>7
      <4> HIDE DEF from, len
      <4>3. k <= from + len
        BY <1>1, <1>5, <2>0
      <4> QED  BY <4>1, <4>2, <4>3
    <3> HIDE DEF from, len
    <3> QED  BY <1>5, <2>1, <3>1
  <2>2. CASE k <= from
    <3> DEFINE q == (k - 1) \div 16
    <3>1. q + 1 \in 1 .. full /\ 16 * q < k /\ k <= 16 * q + 16
      BY <1>1, <2>0, <2>2
    <3>2. first(q + 1) = 16 * q /\ 16 * q \in Nat
      BY <1>1, <3>1 DEF first
    <3> HIDE DEF q
    <3>3. (q + 1) + 1 \in 1 .. Len(s) - 1
      BY <1>1, <1>7, <3>1
    <3>4. DataLine(s[(q + 1) + 1], w, 16 * q, 16)
      BY <1>8, <3>1, <3>2
    <3> QED  BY <3>1, <3>2, <3>3, <3>4
  <2> QED  BY <1>1, <1>5, <2>0, <2>1, <2>2
<1>11. Carries(s, w)
  BY <1>1, <1>3, <1>7, <1>9, <1>10 DEF Carries
<1> QED  BY <1>11 DEF s

-----------------------------------------------------------------------------
(* What read_hex_file makes of a line. *)

Count(l) == hex2byte(l, 1)
Start(l) == 256 * hex2byte(l, 2) + hex2byte(l, 3)
Type(l) == hex2byte(l, 4)
TooShort(l) == Type(l) = 0 /\ Start(l) + Count(l) > BufferSize
Bad(l) == BadChecksum(l, Count(l), Type(l))
IsEof(l) == l.colon /\ Type(l) = 1
End(l) == IF Type(l) = 0 THEN uint16(Start(l) + Count(l)) ELSE Start(l)

\* The fields of any line are bytes.
LEMMA FieldIs ==
  ASSUME NEW l \in Line, NEW k \in Nat \ {0}
  PROVE  hex2byte(l, k) \in Bytes /\ hex2byte(l, k) \in Nat
<1>1. l.bytes \in Seq(Bytes)
  BY DEF Line
<1>2. hex2byte(l, k) \in Bytes
  BY <1>1, ByteIs DEF hex2byte
<1> QED  BY <1>2, ByteIs

\* The bytes of a line up to one behind the last are those of the line.
LEMMA AllCounted ==
  ASSUME NEW l, l.bytes \in Seq(Bytes), NEW k \in Nat, Len(l.bytes) <= k
  PROVE  Counted(l, k) = l.bytes
<1> DEFINE b == l.bytes
           n == IF k < Len(b) THEN k ELSE Len(b)
           c == SubSeq(b, 1, n)
<1>1. b \in Seq(Bytes) /\ Len(b) \in Nat /\ n = Len(b)
  OBVIOUS
<1>2. /\ SubSeq(b, 1, Len(b)) \in Seq(Bytes)
      /\ Len(SubSeq(b, 1, Len(b))) = IF 1 <= Len(b) THEN Len(b) - 1 + 1 ELSE 0
      /\ \A i \in 1 .. Len(b) - 1 + 1 : SubSeq(b, 1, Len(b))[i] = b[1 + i - 1]
  <2>1. \A i \in 1 .. Len(b) : b[i] \in Bytes
    BY <1>1
  <2> HIDE DEF b
  <2> QED  BY <1>1, <2>1, SubSeqProperties
<1>3. c \in Seq(Bytes) /\ Len(c) = Len(b) /\ \A i \in 1 .. Len(b) : c[i] = b[i]
  <2>1. c = SubSeq(b, 1, Len(b))
    BY <1>1
  <2> HIDE DEF b, c, n
  <2> QED  BY <1>1, <1>2, <2>1
<1>4. c = b
  <2> HIDE DEF b, c, n
  <2> QED  BY <1>1, <1>3
<1> QED  BY <1>4 DEF Counted

\* A record is read as it was written.
LEMMA DataIsRead ==
  ASSUME NEW l, NEW w, NEW addr \in Nat, NEW len \in Nat, DataLine(l, w, addr, len)
  PROVE  /\ l \in Line /\ l.colon /\ l.newline
         /\ Type(l) = 0 /\ Count(l) = len /\ Start(l) = addr /\ ~Bad(l)
         /\ \A j \in 1 .. len : hex2byte(l, 4 + j) = w[addr + j]
<1>1. /\ l \in Line /\ l.colon /\ l.newline /\ l.bytes \in Seq(Bytes)
      /\ Len(l.bytes) = 5 + len /\ Total(l.bytes) % 256 = 0
      /\ l.bytes[1] = len /\ 256 * l.bytes[2] + l.bytes[3] = addr /\ l.bytes[4] = 0
      /\ \A j \in 1 .. len : l.bytes[4 + j] = w[addr + j]
  BY DEF DataLine
<1>2. \A k \in 1 .. 4 + len : hex2byte(l, k) = l.bytes[k]
  BY <1>1 DEF hex2byte
<1>3. 1 \in 1 .. 4 + len /\ 2 \in 1 .. 4 + len /\ 3 \in 1 .. 4 + len /\ 4 \in 1 .. 4 + len
  OBVIOUS
<1>4. Type(l) = 0 /\ Count(l) = len /\ Start(l) = addr
  BY <1>1, <1>2, <1>3 DEF Type, Count, Start
<1>5. ~Bad(l)
  <2>1. Counted(l, 5 + len) = l.bytes
    BY <1>1, AllCounted
  <2> QED  BY <1>1, <1>4, <2>1 DEF Bad, BadChecksum
<1>6. ASSUME NEW j \in 1 .. len PROVE hex2byte(l, 4 + j) = w[addr + j]
  <2>1. 4 + j \in 1 .. 4 + len
    OBVIOUS
  <2> QED  BY <1>1, <1>2, <2>1, SMTT(30)
<1> QED  BY <1>1, <1>4, <1>5, <1>6

\* So is the last one.
LEMMA EndIsRead ==
  ASSUME NEW l, EndLine(l)
  PROVE  /\ l \in Line /\ l.colon /\ l.newline
         /\ Type(l) = 1 /\ Count(l) = 0 /\ Start(l) = 0 /\ ~Bad(l)
<1>1. /\ l \in Line /\ l.colon /\ l.newline /\ l.bytes \in Seq(Bytes)
      /\ Len(l.bytes) = 5 /\ Total(l.bytes) % 256 = 0
      /\ l.bytes[1] = 0 /\ 256 * l.bytes[2] + l.bytes[3] = 0 /\ l.bytes[4] = 1
  BY DEF EndLine
<1>2. Type(l) = 1 /\ Count(l) = 0 /\ Start(l) = 0
  BY <1>1 DEF Type, Count, Start, hex2byte
<1>3. ~Bad(l)
  <2> DEFINE k == 5 + Count(l)
  <2>1. k \in Nat /\ Len(l.bytes) <= k /\ l.bytes \in Seq(Bytes)
    BY <1>1, <1>2
  <2> HIDE DEF k
  <2>2. Counted(l, k) = l.bytes
    BY <2>1, AllCounted
  <2> QED  BY <1>1, <2>2 DEF Bad, BadChecksum, k
<1> QED  BY <1>1, <1>2, <1>3

\* A line of the file that was written is one of these.
LEMMA SentIs ==
  ASSUME NEW s, NEW w, Carries(s, w), NEW i \in 1 .. Len(s)
  PROVE  \/ i = Len(s) /\ EndLine(s[i])
         \/ i # Len(s) /\ \E addr, len \in Nat : DataLine(s[i], w, addr, len)
<1>1. Len(s) \in Nat \ {0}
  BY DEF Carries
<1>2. i # Len(s) => i \in 1 .. Len(s) - 1
  BY <1>1
<1> QED  BY <1>2 DEF Carries

\* The reading of a record, in these terms.
LEMMA RecordIsRead ==
  ASSUME ReadRecord
  PROVE  /\ Going /\ next <= Len(file) /\ file[next].colon
         /\ buffer' = IF Type(file[next]) = 0
                      THEN Stored(file[next], Start(file[next]), Count(file[next])) ELSE buffer
         /\ completed' = (Type(file[next]) = 1)
         /\ max_addr' = IF End(file[next]) > max_addr THEN End(file[next]) ELSE max_addr
         /\ error' = (TooShort(file[next]) \/ Bad(file[next]))
         /\ next' = next + 1
         /\ written' = written /\ sent' = sent /\ file' = file /\ loading' = loading
BY DEF ReadRecord, Type, Start, Count, End, TooShort, Bad

-----------------------------------------------------------------------------
(* The inductive invariant. *)

Unread == buffer = <<>> /\ max_addr = 0 /\ completed = FALSE /\ error = FALSE

Typed ==
  /\ loading \in {"writing", "reading", "loaded", "failed"}
  /\ file \in Seq(Line) /\ next \in 1 .. Len(file) + 1
  /\ completed \in BOOLEAN /\ error \in BOOLEAN /\ max_addr \in Nat
  /\ next = 1 => Unread
  /\ loading = "writing" => file = <<>>

\* The file that was written is a file of that image.
Sent == loading # "writing" => IsImage(written) /\ Carries(sent, written)

\* What the lines were that have been read.
LinesRead ==
  /\ completed <=> next > 1 /\ IsEof(file[next - 1])
  /\ ~error => \A j \in 1 .. next - 1 : file[j].colon => ~Bad(file[j]) /\ ~TooShort(file[j])

\* Why the file was accepted or refused.
Outcome ==
  /\ loading = "loaded" => ~error /\ (completed \/ feof) /\ MarkersRight(buffer)
  /\ loading = "failed" => (error \/ ((completed \/ feof) /\ ~MarkersRight(buffer)) \/ (next > Len(file) /\ ~completed /\ ~feof))

\* The buffer holds what lines of the file that was written carry.
Holds(l) ==
  \A addr, len \in Nat : DataLine(l, written, addr, len) =>
    addr + len <= max_addr /\ \A a \in addr .. addr + len - 1 : a \in DOMAIN buffer

Filled ==
  /\ DOMAIN buffer \subseteq 0 .. Len(written) - 1
  /\ \A a \in DOMAIN buffer : buffer[a] = written[a + 1]
  /\ max_addr <= Len(written)
  /\ error => Len(written) > BufferSize
  /\ \A j \in 1 .. next - 1 : Holds(file[j])

IsSent(l) == \E i \in 1 .. Len(sent) : l = sent[i]
AllSent == \A j \in 1 .. next - 1 : IsSent(file[j])

HexInv == Typed /\ Sent /\ LinesRead /\ Outcome /\ (loading # "writing" /\ AllSent => Filled)

\* Nothing was read.
LEMMA NothingRead ==
  ASSUME Typed, Sent, loading # "writing", next = 1
  PROVE  LinesRead /\ Filled
<1>1. Unread /\ DOMAIN <<>> = {} /\ Len(written) \in Nat
  BY ImageIs DEF Typed, Sent
<1>2. LinesRead
  BY <1>1 DEF LinesRead, Unread
<1>3. Filled
  BY <1>1 DEF Filled, Unread
<1> QED  BY <1>2, <1>3

\* Initially there is no file.
LEMMA HexInvInit == HexInit => HexInv
<1> SUFFICES ASSUME HexInit PROVE HexInv
  OBVIOUS
<1>1. /\ file = <<>> /\ next = 1 /\ loading = "writing" /\ Unread /\ <<>> \in Seq(Line) /\ Len(<<>>) = 0
  BY DEF HexInit, Unread
<1>2. Typed
  <2>1. next \in 1 .. Len(file) + 1 /\ 0 \in Nat
    BY <1>1
  <2> QED  BY <1>1, <2>1 DEF Typed, Unread
<1>3. LinesRead
  BY <1>1 DEF LinesRead, Unread
<1> QED  BY <1>1, <1>2, <1>3 DEF HexInv, Sent, Outcome

\* The file is written.
LEMMA WriteKept ==
  ASSUME HexInv, IsImage(written'), Write(written')
  PROVE  HexInv'
<1>1. /\ loading = "writing" /\ loading' = "reading" /\ sent' = asm_write_hex(written') /\ file' = sent'
      /\ next' = next /\ buffer' = buffer /\ max_addr' = max_addr /\ completed' = completed /\ error' = error
  BY DEF Write
<1>2. next = 1 /\ Unread
  <2>1. file = <<>> /\ next \in 1 .. Len(file) + 1 /\ (next = 1 => Unread)
    BY <1>1 DEF HexInv, Typed
  <2>2. Len(<<>>) = 0
    OBVIOUS
  <2> QED  BY <2>1, <2>2
<1>3. Carries(sent', written')
  <2>1. \A w : IsImage(w) => Carries(asm_write_hex(w), w)
    BY WrittenCarries
  <2> QED  BY <1>1, <2>1
<1>4. Unread'
  BY <1>1, <1>2 DEF Unread
<1>5. Typed'
  <2>1. sent' \in Seq(Line) /\ Len(sent') \in Nat
    BY <1>3 DEF Carries
  <2>2. next' \in 1 .. Len(file') + 1 /\ 0 \in Nat
    BY <1>1, <1>2, <2>1
  <2> QED  BY <1>1, <1>4, <2>1, <2>2 DEF Typed, Unread
<1>6. Sent'
  BY <1>3 DEF Sent
<1>7. (LinesRead /\ Filled)'
  <2>1. loading' # "writing" /\ next' = 1
    BY <1>1, <1>2
  <2>2. Len(written') \in Nat /\ DOMAIN <<>> = {}
    <3>1. \A w : IsImage(w) => Len(w) \in Nat
      BY ImageIs
    <3> QED  BY <3>1
  <2>3. LinesRead'
    BY <1>4, <2>1 DEF LinesRead, Unread
  <2>4. Filled'
    BY <1>4, <2>1, <2>2 DEF Filled, Unread
  <2> QED  BY <2>3, <2>4
<1>8. Outcome'
  BY <1>1 DEF Outcome
<1> QED  BY <1>5, <1>6, <1>7, <1>8 DEF HexInv

\* The file is damaged.
LEMMA DamageKept ==
  ASSUME HexInv, AnyDamage
  PROVE  HexInv'
<1>1. /\ loading = "reading" /\ next = 1 /\ file' \in Seq(Line)
      /\ loading' = loading /\ written' = written /\ sent' = sent
      /\ next' = next /\ buffer' = buffer /\ max_addr' = max_addr /\ completed' = completed /\ error' = error
  BY DEF AnyDamage
<1>2. Unread' /\ Len(written) \in Nat /\ DOMAIN <<>> = {}
  BY <1>1, ImageIs DEF HexInv, Typed, Sent, Unread
<1>3. Typed'
  <2>1. next' \in 1 .. Len(file') + 1
    BY <1>1
  <2> QED  BY <1>1, <1>2, <2>1 DEF HexInv, Typed, Unread
<1>4. Sent'
  BY <1>1 DEF HexInv, Sent
<1>5. LinesRead' /\ Filled'
  BY <1>1, <1>2 DEF LinesRead, Filled, Unread
<1>6. Outcome'
  BY <1>1 DEF Outcome
<1> QED  BY <1>3, <1>4, <1>5, <1>6 DEF HexInv

\* The loop ends.
LEMMA EndKept ==
  ASSUME HexInv, NoLine \/ Close
  PROVE  HexInv'
<1>1. /\ loading = "reading" /\ file' = file /\ written' = written /\ sent' = sent
      /\ next' = next /\ buffer' = buffer /\ max_addr' = max_addr /\ completed' = completed /\ error' = error
  BY DEF NoLine, Close, Going
<1>2. loading' \in {"loaded", "failed"}
  BY DEF NoLine, Close, Verdict
<1>3. Typed' /\ Sent' /\ LinesRead' /\ (loading' # "writing" /\ AllSent' => Filled')
  <2>1. Typed'
    BY <1>1, <1>2 DEF HexInv, Typed, Unread
  <2>2. Sent'
    BY <1>1 DEF HexInv, Sent
  <2>3. LinesRead'
    BY <1>1 DEF HexInv, LinesRead
  <2>4. AllSent' => AllSent
    BY <1>1 DEF AllSent, IsSent
  <2>5. Filled => Filled'
    BY <1>1 DEF Filled, Holds
  <2> QED  BY <1>1, <2>1, <2>2, <2>3, <2>4, <2>5 DEF HexInv
<1>4. Outcome'
  <2>1. CASE NoLine
    BY <1>1, <2>1 DEF NoLine, Going, Outcome, feof
  <2>2. CASE Close
    <3>1. feof' = feof /\ MarkersRight(buffer)' = MarkersRight(buffer)
      BY <1>1 DEF feof
    <3> QED  BY <1>1, <2>2, <3>1 DEF Close, Going, Outcome, Verdict
  <2> QED  BY <2>1, <2>2
<1> QED  BY <1>3, <1>4 DEF HexInv

\* What both ways to read a line have in common.
LEMMA LineKept ==
  ASSUME HexInv, ReadRecord \/ SkipLine
  PROVE  /\ loading = "reading" /\ ~completed /\ ~error
         /\ next \in 1 .. Len(file) /\ Len(file) \in Nat /\ file[next] \in Line
         /\ next' = next + 1 /\ next' \in 1 .. Len(file) + 1 /\ next' > 1 /\ next' - 1 = next
         /\ \A j \in 1 .. next' - 1 : j = next \/ j \in 1 .. next - 1
         /\ written' = written /\ sent' = sent /\ file' = file /\ loading' = loading
         /\ Sent' /\ Outcome'
<1>1. /\ Going /\ next <= Len(file) /\ next' = next + 1
      /\ written' = written /\ sent' = sent /\ file' = file /\ loading' = loading
  BY DEF ReadRecord, SkipLine
<1>2. loading = "reading" /\ ~completed /\ ~error
  BY <1>1 DEF Going
<1>3. next \in 1 .. Len(file) /\ Len(file) \in Nat /\ file[next] \in Line
  BY <1>1 DEF HexInv, Typed
<1>4. next' \in 1 .. Len(file) + 1 /\ next' > 1 /\ next' - 1 = next /\ \A j \in 1 .. next' - 1 : j = next \/ j \in 1 .. next - 1
  BY <1>1, <1>3
<1>5. Sent'
  BY <1>1 DEF HexInv, Sent
<1>6. Outcome'
  BY <1>1, <1>2 DEF Outcome
<1> QED  BY <1>1, <1>2, <1>3, <1>4, <1>5, <1>6

\* A line without a colon.
LEMMA SkipKept ==
  ASSUME HexInv, SkipLine
  PROVE  HexInv'
<1>1. /\ loading = "reading" /\ ~completed /\ ~error
      /\ next \in 1 .. Len(file) /\ Len(file) \in Nat /\ file[next] \in Line
      /\ next' = next + 1 /\ next' \in 1 .. Len(file) + 1 /\ next' > 1 /\ next' - 1 = next
      /\ \A j \in 1 .. next' - 1 : j = next \/ j \in 1 .. next - 1
      /\ written' = written /\ sent' = sent /\ file' = file /\ loading' = loading
      /\ Sent' /\ Outcome'
  BY LineKept
<1>2. ~file[next].colon /\ buffer' = buffer /\ max_addr' = max_addr /\ completed' = completed /\ error' = error
  BY DEF SkipLine
<1>3. Typed'
  BY <1>1, <1>2 DEF HexInv, Typed
<1>4. LinesRead'
  <2>1. ~IsEof(file[next])
    BY <1>2 DEF IsEof
  <2>2. ASSUME NEW j \in 1 .. next' - 1, file[j].colon PROVE ~Bad(file[j]) /\ ~TooShort(file[j])
    BY <1>1, <1>2, <2>2 DEF HexInv, LinesRead
  <2> QED  BY <1>1, <1>2, <2>1, <2>2 DEF LinesRead
<1>5. ~AllSent'
  <2> SUFFICES ASSUME AllSent' PROVE FALSE
    OBVIOUS
  <2>1. next \in 1 .. next' - 1
    BY <1>1
  <2>2. PICK i \in 1 .. Len(sent) : file[next] = sent[i]
    BY <1>1, <2>1 DEF AllSent, IsSent
  <2>3. Carries(sent, written)
    BY <1>1 DEF HexInv, Sent
  <2> QED  BY <1>2, <2>2, <2>3, SentIs DEF DataLine, EndLine
<1> QED  BY <1>1, <1>3, <1>4, <1>5 DEF HexInv

\* A buffer with the bytes behind addr that were written, and with those it had.
IsFilled(b, addr, len) ==
  /\ DOMAIN b \subseteq 0 .. Len(written) - 1
  /\ \A a \in DOMAIN b : b[a] = written[a + 1]
  /\ DOMAIN buffer \subseteq DOMAIN b
  /\ \A a \in addr .. addr + len - 1 : a \in DOMAIN b

\* The data of a record of the file that was written.
LEMMA DataStored ==
  ASSUME NEW l, NEW addr \in Nat, NEW len \in Nat, IsImage(written), DataLine(l, written, addr, len),
         DOMAIN buffer \subseteq 0 .. Len(written) - 1,
         \A a \in DOMAIN buffer : buffer[a] = written[a + 1]
  PROVE  IsFilled(Stored(l, addr, len), addr, len)
<1> DEFINE b == Stored(l, addr, len)
<1>1. /\ Len(written) \in Nat /\ \A i \in 0 .. Len(written) : i \in Address
  BY ImageIs
<1>2. addr + len <= Len(written) /\ \A j \in 1 .. len : hex2byte(l, 4 + j) = written[addr + j]
  <2>1. addr + len <= Len(written)
    BY DEF DataLine
  <2> QED  BY <2>1, DataIsRead
<1>3. ASSUME NEW j \in 0 .. len - 1 PROVE uint16(addr + j) = addr + j /\ uint16(j) = j
  <2>1. addr + j \in 0 .. Len(written) /\ j \in 0 .. Len(written)
    BY <1>1, <1>2
  <2> QED  BY <1>1, <2>1, NoWrap
<1>4. Places(addr, len) = addr .. addr + len - 1
  <2>1. Places(addr, len) = {addr + j : j \in 0 .. len - 1}
    BY <1>3 DEF Places
  <2>2. ASSUME NEW a \in addr .. addr + len - 1 PROVE a \in {addr + j : j \in 0 .. len - 1}
    <3>1. a - addr \in 0 .. len - 1 /\ a = addr + (a - addr)
      OBVIOUS
    <3> QED  BY <3>1
  <2>3. ASSUME NEW j \in 0 .. len - 1 PROVE addr + j \in addr .. addr + len - 1
    OBVIOUS
  <2> QED  BY <2>1, <2>2, <2>3
<1> DEFINE P == addr .. addr + len - 1
<1>5. b = [a \in DOMAIN buffer \cup P |-> IF a \in P THEN hex2byte(l, 5 + uint16(a - addr)) ELSE buffer[a]]
  BY <1>4 DEF Stored
<1>6. DOMAIN b = DOMAIN buffer \cup P /\ P \subseteq 0 .. Len(written) - 1
  BY <1>1, <1>2, <1>5
<1>7. ASSUME NEW a \in DOMAIN b PROVE b[a] = written[a + 1]
  <2>1. CASE a \in P
    <3> DEFINE j == a - addr
    <3>1. j \in 0 .. len - 1 /\ j + 1 \in 1 .. len /\ 4 + (j + 1) = 5 + j /\ addr + (j + 1) = a + 1
      BY <2>1
    <3>2. b[a] = hex2byte(l, 5 + uint16(j))
      BY <1>5, <1>6, <2>1
    <3> HIDE DEF j
    <3>3. b[a] = hex2byte(l, 4 + (j + 1))
      BY <1>3, <3>1, <3>2
    <3> QED  BY <1>2, <3>1, <3>3
  <2>2. CASE a \notin P
    BY <1>5, <1>6, <2>2
  <2> QED  BY <2>1, <2>2
<1> HIDE DEF b
<1>8. IsFilled(b, addr, len)
  BY <1>6, <1>7 DEF IsFilled
<1> QED  BY <1>8 DEF b

\* One address and length belong to a record.
LEMMA OneStart ==
  ASSUME NEW l, NEW w, NEW a \in Nat, NEW n \in Nat, DataLine(l, w, a, n),
         NEW b \in Nat, NEW m \in Nat, DataLine(l, w, b, m)
  PROVE  a = b /\ n = m
BY DEF DataLine

\* A record.
LEMMA RecordKept ==
  ASSUME HexInv, ReadRecord
  PROVE  HexInv'
<1>0. PICK l : l = file[next]
  OBVIOUS
<1>1. /\ loading = "reading" /\ ~completed /\ ~error
      /\ next \in 1 .. Len(file) /\ Len(file) \in Nat /\ l \in Line
      /\ next' = next + 1 /\ next' \in 1 .. Len(file) + 1 /\ next' > 1 /\ next' - 1 = next
      /\ \A j \in 1 .. next' - 1 : j = next \/ j \in 1 .. next - 1
      /\ written' = written /\ sent' = sent /\ file' = file /\ loading' = loading
      /\ Sent' /\ Outcome'
  BY <1>0, LineKept
<1>2. /\ l.colon
      /\ buffer' = IF Type(l) = 0 THEN Stored(l, Start(l), Count(l)) ELSE buffer
      /\ completed' = (Type(l) = 1)
      /\ max_addr' = IF End(l) > max_addr THEN End(l) ELSE max_addr
      /\ error' = (TooShort(l) \/ Bad(l))
  BY <1>0, RecordIsRead
<1>3. Typed'
  <2>1. End(l) \in Nat
    <3>1. Type(l) \in Nat /\ Start(l) \in Nat /\ Count(l) \in Nat
      BY <1>1, FieldIs DEF Type, Start, Count
    <3>2. \A n \in Nat : uint16(n) \in Nat
      BY DEF uint16
    <3> QED  BY <3>1, <3>2 DEF End
  <2>2. max_addr' \in Nat /\ completed' \in BOOLEAN /\ error' \in BOOLEAN
    BY <1>2, <2>1 DEF HexInv, Typed, TooShort, Bad, BadChecksum
  <2> QED  BY <1>1, <2>2 DEF HexInv, Typed
<1>4. LinesRead'
  <2>1. completed' <=> IsEof(l)
    BY <1>2 DEF IsEof
  <2>2. ASSUME ~error', NEW j \in 1 .. next' - 1, file[j].colon PROVE ~Bad(file[j]) /\ ~TooShort(file[j])
    <3>1. CASE j = next
      BY <1>0, <1>2, <2>2, <3>1
    <3>2. CASE j \in 1 .. next - 1
      BY <1>1, <2>2, <3>2 DEF HexInv, LinesRead
    <3> QED  BY <1>1, <3>1, <3>2
  <2> QED  BY <1>0, <1>1, <2>1, <2>2 DEF LinesRead
<1>5. ASSUME AllSent' PROVE Filled'
  <2>1. IsSent(l) /\ AllSent
    <3>1. next \in 1 .. next' - 1 /\ \A j \in 1 .. next - 1 : j \in 1 .. next' - 1
      BY <1>1
    <3> QED  BY <1>0, <1>1, <1>5, <3>1 DEF AllSent, IsSent
  <2>2. IsImage(written) /\ Carries(sent, written) /\ Filled
    BY <1>1, <2>1 DEF HexInv, Sent
  <2>3. Len(written) \in Nat /\ max_addr \in Nat /\ \A i \in 0 .. Len(written) : i \in Address
    BY <2>2, ImageIs DEF HexInv, Typed
  <2>4. \/ EndLine(l)
        \/ \E addr, len \in Nat : DataLine(l, written, addr, len)
    BY <2>1, <2>2, SentIs DEF IsSent
  <2>5. CASE EndLine(l)
    <3>1. Type(l) = 1 /\ Start(l) = 0 /\ ~Bad(l)
      BY <2>5, EndIsRead
    <3>2. buffer' = buffer /\ max_addr' = max_addr /\ ~error'
      <4>1. End(l) = 0 /\ ~TooShort(l)
        BY <3>1 DEF End, TooShort
      <4>2. error' => TooShort(l) \/ Bad(l)
        BY <1>2
      <4>3. buffer' = buffer /\ max_addr' = max_addr
        BY <1>2, <2>3, <3>1, <4>1
      <4> QED  BY <3>1, <4>1, <4>2, <4>3
    <3>3. Holds(l)'
      <4>1. \A addr, len \in Nat : ~DataLine(l, written, addr, len)
        BY <2>5 DEF DataLine, EndLine
      <4> QED  BY <1>1, <4>1 DEF Holds
    <3>4. \A j \in 1 .. next - 1 : Holds(file[j])'
      BY <1>1, <2>2, <3>2 DEF Filled, Holds
    <3>5. \A j \in 1 .. next' - 1 : Holds(file[j])'
      BY <1>0, <1>1, <3>3, <3>4
    <3> QED  BY <1>1, <2>2, <3>2, <3>5 DEF Filled
  <2>6. CASE \E addr, len \in Nat : DataLine(l, written, addr, len)
    <3>1. PICK addr \in Nat, len \in Nat : DataLine(l, written, addr, len)
      BY <2>6
    <3>2. Type(l) = 0 /\ Start(l) = addr /\ Count(l) = len /\ ~Bad(l) /\ addr + len <= Len(written)
      <4>1. addr + len <= Len(written)
        BY <3>1 DEF DataLine
      <4> QED  BY <3>1, <4>1, DataIsRead
    <3>3. End(l) = addr + len
      <4>1. addr + len \in 0 .. Len(written)
        BY <2>3, <3>2
      <4> QED  BY <2>3, <3>2, <4>1, NoWrap DEF End
    <3>4. buffer' = Stored(l, addr, len)
      BY <1>2, <3>2
    <3>5. /\ DOMAIN buffer' \subseteq 0 .. Len(written) - 1
          /\ \A a \in DOMAIN buffer' : buffer'[a] = written[a + 1]
          /\ DOMAIN buffer \subseteq DOMAIN buffer'
          /\ \A a \in addr .. addr + len - 1 : a \in DOMAIN buffer'
      <4>1. /\ DOMAIN buffer \subseteq 0 .. Len(written) - 1
            /\ \A a \in DOMAIN buffer : buffer[a] = written[a + 1]
        BY <2>2 DEF Filled
      <4>2. IsFilled(Stored(l, addr, len), addr, len)
        BY <2>2, <3>1, <4>1, DataStored
      <4> QED  BY <3>4, <4>2 DEF IsFilled
    <3>6. max_addr' \in Nat /\ max_addr' <= Len(written) /\ addr + len <= max_addr' /\ max_addr <= max_addr'
      BY <1>2, <2>2, <2>3, <3>2, <3>3 DEF Filled
    <3>7. error' => Len(written) > BufferSize
      <4>1. BufferSize \in Nat
        BY BufferSizeIs
      <4>2. TooShort(l) <=> addr + len > BufferSize
        BY <3>2 DEF TooShort
      <4>3. error' => TooShort(l) \/ Bad(l)
        BY <1>2
      <4> QED  BY <2>3, <3>2, <4>1, <4>2, <4>3
    <3>8. Holds(l)'
      <4>1. ASSUME NEW a \in Nat, NEW n \in Nat, DataLine(l, written, a, n)
            PROVE  a + n <= max_addr' /\ \A x \in a .. a + n - 1 : x \in DOMAIN buffer'
        <5>1. a = addr /\ n = len
          BY <3>1, <4>1, OneStart
        <5> QED  BY <3>5, <3>6, <5>1
      <4> QED  BY <1>1, <4>1 DEF Holds
    <3>9. ASSUME NEW j \in 1 .. next - 1 PROVE Holds(file[j])'
      <4>1. Holds(file[j])
        BY <2>2 DEF Filled
      <4>2. ASSUME NEW a \in Nat, NEW n \in Nat, DataLine(file[j], written, a, n)
            PROVE  a + n <= max_addr' /\ \A x \in a .. a + n - 1 : x \in DOMAIN buffer'
        <5>1. a + n <= max_addr /\ \A x \in a .. a + n - 1 : x \in DOMAIN buffer
          BY <4>1, <4>2 DEF Holds
        <5> QED  BY <2>3, <3>5, <3>6, <5>1
      <4> QED  BY <1>1, <4>2 DEF Holds
    <3>10. \A j \in 1 .. next' - 1 : Holds(file[j])'
      BY <1>0, <1>1, <3>8, <3>9
    <3> QED  BY <1>1, <3>5, <3>6, <3>7, <3>10 DEF Filled
  <2> QED  BY <2>4, <2>5, <2>6
<1> QED  BY <1>1, <1>3, <1>4, <1>5 DEF HexInv

\* A step of the file or of its reader.
LEMMA HexStep == HexInv /\ [HexNext]_hexVars => HexInv'
<1> SUFFICES ASSUME HexInv, [HexNext]_hexVars PROVE HexInv'
  OBVIOUS
<1>1. CASE IsImage(written') /\ Write(written')
  BY <1>1, WriteKept
<1>2. CASE AnyDamage
  BY <1>2, DamageKept
<1>3. CASE ReadRecord
  BY <1>3, RecordKept
<1>4. CASE SkipLine
  BY <1>4, SkipKept
<1>5. CASE NoLine \/ Close
  BY <1>5, EndKept
<1>6. CASE UNCHANGED hexVars
  BY <1>6 DEF hexVars, HexInv, Typed, Unread, Sent, LinesRead, Outcome, feof, AllSent, IsSent, Filled, Holds
<1> QED  BY <1>1, <1>2, <1>3, <1>4, <1>5, <1>6 DEF HexNext, Read

\* The invariant of the HEX file and of read_hex_file(): what the lines were that have been
\* read, why the file was accepted or refused, and that the buffer holds what was written as
\* long as all the lines were lines that were written.
THEOREM FileIsRead == HexSpec => []HexInv
BY HexInvInit, HexStep, PTL DEF HexSpec

-----------------------------------------------------------------------------
(* The properties. *)

\* A file of whole lines is never accepted without its EOF record (read_hex_file).
THEOREM EndIsNeeded == HexSpec => []EndIsSeen
<1>1. HexInv => EndIsSeen
  BY DEF HexInv, Outcome, EndIsSeen, feof
<1> QED  BY <1>1, FileIsRead, PTL

\* What the lines that were written have in common.
LEMMA AnyLine ==
  ASSUME NEW s, NEW w, Carries(s, w), NEW i \in 1 .. Len(s)
  PROVE  /\ s[i].colon /\ s[i].newline /\ s[i].bytes \in Seq(Bytes)
         /\ Len(s[i].bytes) = 5 + s[i].bytes[1] /\ s[i].bytes[1] \in Nat
         /\ Total(s[i].bytes) % 256 = 0
<1>1. CASE EndLine(s[i])
  BY <1>1 DEF EndLine
<1>2. CASE \E addr, len \in Nat : DataLine(s[i], w, addr, len)
  <2>1. PICK addr \in Nat, len \in Nat : DataLine(s[i], w, addr, len)
    BY <1>2
  <2> QED  BY <2>1 DEF DataLine
<1> QED  BY <1>1, <1>2, SentIs

\* A sum is a number.
\* A line with another byte in one place.
LEMMA OneByte ==
  ASSUME NEW r \in Line, NEW l \in Line, NEW k \in 1 .. Len(r.bytes), NEW v,
         l = [r EXCEPT !.bytes[k] = v], l # r
  PROVE  /\ l.colon = r.colon /\ l.newline = r.newline
         /\ r.bytes \in Seq(Bytes) /\ l.bytes \in Seq(Bytes) /\ Len(l.bytes) = Len(r.bytes)
         /\ l.bytes[k] # r.bytes[k]
         /\ \A j \in 1 .. Len(r.bytes) : j # k => l.bytes[j] = r.bytes[j]
<1> DEFINE b == r.bytes
           c == [b EXCEPT ![k] = v]
<1>1. b \in Seq(Bytes) /\ l.bytes \in Seq(Bytes) /\ Len(b) \in Nat /\ DOMAIN b = 1 .. Len(b)
  BY DEF Line
<1>2. r = [colon |-> r.colon, bytes |-> b, newline |-> r.newline]
  BY DEF Line
<1>3. l = [colon |-> r.colon, bytes |-> c, newline |-> r.newline]
  BY <1>2
<1>4. l.colon = r.colon /\ l.newline = r.newline /\ l.bytes = c
  BY <1>3
<1>5. DOMAIN c = 1 .. Len(b) /\ c[k] = v /\ \A j \in 1 .. Len(b) : j # k => c[j] = b[j]
  BY <1>1
<1>6. c # b
  BY <1>2, <1>3
<1>7. v # b[k]
  <2> SUFFICES ASSUME v = b[k] PROVE c = b
    BY <1>6
  <2> HIDE DEF b
  <2>1. b = [j \in 1 .. Len(b) |-> b[j]]
    BY <1>1
  <2>2. c = [j \in 1 .. Len(b) |-> IF j = k THEN v ELSE b[j]]
    BY <1>1
  <2> QED  BY <2>1, <2>2
<1>8. Len(l.bytes) = Len(b)
  <2>1. DOMAIN l.bytes = 1 .. Len(b) /\ DOMAIN l.bytes = 1 .. Len(l.bytes) /\ Len(l.bytes) \in Nat
    BY <1>1, <1>4, <1>5
  <2> QED  BY <1>1, <2>1
<1> HIDE DEF c
<1> QED  BY <1>1, <1>4, <1>5, <1>7, <1>8

\* A line with a damaged digit is refused when it is read.
LEMMA DamageIsSeen ==
  ASSUME NEW s, NEW t, NEW k \in 1 .. Len(s), s \in Seq(Bytes), t \in Seq(Bytes), Len(t) = Len(s),
         Len(s) = 5 + s[1], s[1] \in Nat, Total(s) % 256 = 0,
         \A j \in 1 .. Len(s) : j # k => t[j] = s[j],
         t[k] # s[k], k = 1 => t[1] > s[1],
         NEW l, l.bytes = t
  PROVE  Bad(l)
<1> SUFFICES ASSUME ~Bad(l) PROVE FALSE
  OBVIOUS
<1>1. /\ s \in Seq(Nat) /\ t \in Seq(Nat) /\ Len(s) \in Nat /\ 1 \in 1 .. Len(s)
      /\ t[1] \in Nat /\ t[k] \in Bytes /\ s[k] \in Bytes
  <2>1. s \in Seq(Nat) /\ t \in Seq(Nat)
    BY BytesAreNumbers
  <2> QED  BY <2>1, SMTT(30)
<1>2. t[1] >= s[1]
  <2>1. CASE k = 1
    <3>1. t[1] > s[1]
      BY <2>1
    <3> QED  BY <1>1, <3>1
  <2>2. CASE k # 1
    <3>1. t[1] = s[1]
      BY <1>1, <2>2
    <3> QED  BY <1>1, <3>1
  <2> QED  BY <2>1, <2>2
<1>3. Count(l) = t[1]
  BY <1>1 DEF Count, hex2byte
<1>4. Counted(l, 5 + Count(l)) = t
  <2> DEFINE n == 5 + Count(l)
  <2>1. n \in Nat /\ Len(t) <= n
    BY <1>1, <1>2, <1>3, SMTT(30)
  <2> HIDE DEF n
  <2>2. Counted(l, n) = l.bytes
    BY <2>1, AllCounted
  <2> QED  BY <2>2 DEF n
<1>5. Total(t) % 256 = 0
  BY <1>4 DEF Bad, BadChecksum
<1>6. Total(t) - t[k] = Total(s) - s[k]
  BY <1>1, TotalChanged
<1>7. Total(s) \in Nat /\ Total(t) \in Nat
  BY <1>1, TotalIsNat
<1> QED  BY <1>1, <1>5, <1>6, <1>7, ByteModulo

\* A damaged digit is found, whatever it was and whatever it is read as, but for a length
\* that became smaller (read_hex_file).
THEOREM DamageIsFound == HexSpec => []DigitsGuarded
<1>1. HexInv => DigitsGuarded
  <2> SUFFICES ASSUME HexInv, loading = "loaded", NEW i \in DOMAIN file, NEW k \in 1 .. Len(file[i].bytes),
                      DamagedDigit(i, k), k = 1 => file[i].bytes[1] > sent[i].bytes[1]
               PROVE  FALSE
    BY DEF DigitsGuarded
  <2>1. Carries(sent, written) /\ file \in Seq(Line) /\ next \in 1 .. Len(file) + 1
    BY DEF HexInv, Sent, Typed
  <2>2. /\ Len(file) = Len(sent) /\ Len(file) \in Nat /\ i \in 1 .. Len(sent) /\ DOMAIN file = 1 .. Len(sent)
        /\ file[i] # sent[i] /\ Len(file[i].bytes) = Len(sent[i].bytes)
        /\ \A j \in 1 .. Len(sent) : j # i => file[j] = sent[j]
        /\ file[i] = [sent[i] EXCEPT !.bytes[k] = file[i].bytes[k]]
    BY <2>1 DEF DamagedDigit
  <2>3. sent[i] \in Line /\ file[i] \in Line /\ k \in 1 .. Len(sent[i].bytes)
    <3>1. sent \in Seq(Line)
      BY <2>1 DEF Carries
    <3> QED  BY <2>1, <2>2, <3>1
  <2>4. /\ file[i].colon = sent[i].colon /\ file[i].newline = sent[i].newline
        /\ sent[i].bytes \in Seq(Bytes) /\ file[i].bytes \in Seq(Bytes)
        /\ file[i].bytes[k] # sent[i].bytes[k]
        /\ \A j \in 1 .. Len(sent[i].bytes) : j # k => file[i].bytes[j] = sent[i].bytes[j]
    <3> DEFINE r == sent[i]
               l == file[i]
    <3>1. r \in Line /\ l \in Line /\ k \in 1 .. Len(r.bytes) /\ l = [r EXCEPT !.bytes[k] = l.bytes[k]] /\ l # r
      BY <2>2, <2>3
    <3> HIDE DEF r, l
    <3>2. /\ l.colon = r.colon /\ l.newline = r.newline
          /\ r.bytes \in Seq(Bytes) /\ l.bytes \in Seq(Bytes)
          /\ l.bytes[k] # r.bytes[k]
          /\ \A j \in 1 .. Len(r.bytes) : j # k => l.bytes[j] = r.bytes[j]
      BY <3>1, OneByte
    <3> QED  BY <3>2 DEF r, l
  <2>5. \A j \in 1 .. Len(sent) : file[j].colon /\ file[j].newline
    <3> SUFFICES ASSUME NEW j \in 1 .. Len(sent) PROVE file[j].colon /\ file[j].newline
      OBVIOUS
    <3>1. sent[j].colon /\ sent[j].newline
      BY <2>1, AnyLine
    <3>2. CASE j = i
      BY <2>4, <3>1, <3>2
    <3>3. CASE j # i
      BY <2>2, <3>1, <3>3
    <3> QED  BY <3>2, <3>3
  <2>6. ~feof /\ completed /\ ~error
    <3>1. Len(file) > 0 => file[Len(file)].newline
      BY <2>2, <2>5
    <3> QED  BY <2>1, <3>1 DEF feof, HexInv, Outcome
  <2>7. next > 1 /\ IsEof(file[next - 1]) /\ next - 1 \in 1 .. Len(sent)
    BY <2>1, <2>2, <2>6 DEF HexInv, LinesRead
  <2>8. CASE i \in 1 .. next - 1
    <3>1. file[i].colon /\ ~Bad(file[i])
      BY <2>2, <2>5, <2>6, <2>8 DEF HexInv, LinesRead
    <3>2. /\ Len(sent[i].bytes) = 5 + sent[i].bytes[1] /\ sent[i].bytes[1] \in Nat
          /\ Total(sent[i].bytes) % 256 = 0
      BY <2>1, <2>2, AnyLine
    <3>3. Bad(file[i])
      BY <2>2, <2>3, <2>4, <3>2, DamageIsSeen
    <3> QED  BY <3>1, <3>3
  <2>9. CASE i \notin 1 .. next - 1
    <3>1. next - 1 # i /\ next - 1 # Len(sent)
      BY <2>2, <2>7, <2>9
    <3>2. \E addr, len \in Nat : DataLine(file[next - 1], written, addr, len)
      BY <2>1, <2>2, <2>7, <3>1, SentIs
    <3>3. Type(file[next - 1]) = 0
      BY <3>2, DataIsRead
    <3> QED  BY <2>7, <3>3 DEF IsEof
  <2> QED  BY <2>8, <2>9
<1> QED  BY <1>1, FileIsRead, PTL

\* A file with the lines that were sent and no others, the EOF record at its end.
Reordered ==
  /\ {file[i] : i \in DOMAIN file} = {sent[i] : i \in DOMAIN sent}
  /\ \A i \in DOMAIN file : file[i] = sent[Len(sent)] => i = Len(file)

\* Such a file has a line for each that was sent, and data in front of its last line.
LEMMA ReorderedIs ==
  ASSUME HexInv, loading # "writing", Reordered
  PROVE  /\ \A i \in 1 .. Len(sent) : \E j \in 1 .. Len(file) : file[j] = sent[i]
         /\ Len(file) \in Nat \ {0} /\ EndLine(file[Len(file)])
         /\ \A j \in 1 .. Len(file) - 1 : \E addr, len \in Nat : DataLine(file[j], written, addr, len)
         /\ Filled
<1>1. IsImage(written) /\ Carries(sent, written) /\ file \in Seq(Line) /\ next \in 1 .. Len(file) + 1
  BY DEF HexInv, Sent, Typed
<1>2. sent \in Seq(Line) /\ Len(sent) \in Nat \ {0} /\ EndLine(sent[Len(sent)])
  BY <1>1 DEF Carries
<1>3. DOMAIN file = 1 .. Len(file) /\ DOMAIN sent = 1 .. Len(sent) /\ Len(file) \in Nat
  BY <1>1, <1>2
<1>4. ASSUME NEW j \in 1 .. Len(file) PROVE IsSent(file[j])
  <2>1. file[j] \in {sent[i] : i \in DOMAIN sent}
    BY <1>3 DEF Reordered
  <2> QED  BY <1>3, <2>1 DEF IsSent
<1>5. ASSUME NEW i \in 1 .. Len(sent) PROVE \E j \in 1 .. Len(file) : file[j] = sent[i]
  <2>1. sent[i] \in {file[j] : j \in DOMAIN file}
    BY <1>3 DEF Reordered
  <2> QED  BY <1>3, <2>1
<1>6. Len(file) # 0 /\ file[Len(file)] = sent[Len(sent)]
  <2>1. PICK j \in 1 .. Len(file) : file[j] = sent[Len(sent)]
    BY <1>2, <1>5
  <2> QED  BY <1>3, <2>1 DEF Reordered
<1>7. ASSUME NEW j \in 1 .. Len(file) - 1 PROVE \E addr, len \in Nat : DataLine(file[j], written, addr, len)
  <2>0. Len(file) \in Nat
    BY <1>3
  <2>1. j \in 1 .. Len(file) /\ j # Len(file)
    BY <2>0
  <2>2. PICK i \in 1 .. Len(sent) : file[j] = sent[i]
    BY <1>4, <2>1 DEF IsSent
  <2>3. i # Len(sent)
    BY <1>3, <2>1, <2>2 DEF Reordered
  <2> QED  BY <1>1, <2>2, <2>3, SentIs
<1>8. Filled
  <2>1. AllSent
    <3>1. \A j \in 1 .. next - 1 : j \in 1 .. Len(file)
      BY <1>1, <1>3
    <3> QED  BY <1>4, <3>1 DEF AllSent
  <2> QED  BY <2>1 DEF HexInv
<1> QED  BY <1>2, <1>3, <1>5, <1>6, <1>7, <1>8

\* Its EOF record is its last line, and nothing else ends the reading.
LEMMA LastLineEnds ==
  ASSUME HexInv, loading # "writing", Reordered
  PROVE  /\ ~feof
         /\ completed <=> next - 1 = Len(file)
<1>1. /\ Len(file) \in Nat \ {0} /\ EndLine(file[Len(file)])
      /\ \A j \in 1 .. Len(file) - 1 : \E addr, len \in Nat : DataLine(file[j], written, addr, len)
      /\ next \in 1 .. Len(file) + 1
  BY ReorderedIs DEF HexInv, Typed
<1>2. ~feof
  <2>1. file[Len(file)].newline
    BY <1>1, EndIsRead
  <2> QED  BY <2>1 DEF feof
<1>3. IsEof(file[Len(file)])
  BY <1>1, EndIsRead DEF IsEof
<1>4. ASSUME NEW j \in 1 .. Len(file) - 1 PROVE ~IsEof(file[j])
  <2>1. PICK addr \in Nat, len \in Nat : DataLine(file[j], written, addr, len)
    BY <1>1
  <2>2. Type(file[j]) = 0
    BY <2>1, DataIsRead
  <2> QED  BY <2>2 DEF IsEof
<1>5. completed <=> next > 1 /\ IsEof(file[next - 1])
  BY DEF HexInv, LinesRead
<1>6. CASE next - 1 = Len(file)
  <2>1. next > 1 /\ file[next - 1] = file[Len(file)]
    BY <1>1, <1>6
  <2> QED  BY <1>2, <1>3, <1>5, <1>6, <2>1
<1>7. CASE next - 1 # Len(file)
  <2>1. next > 1 => next - 1 \in 1 .. Len(file) - 1
    BY <1>1, <1>7
  <2> QED  BY <1>2, <1>4, <1>5, <1>7, <2>1
<1> QED  BY <1>6, <1>7

\* When it was read, each byte that was written has been stored.
LEMMA EachIsStored ==
  ASSUME HexInv, loading # "writing", Reordered, completed, NEW k \in 1 .. Len(written)
  PROVE  /\ k <= max_addr
         /\ k - 1 \in DOMAIN buffer /\ buffer[k - 1] = written[k]
         /\ ~error => k <= BufferSize
<1>1. IsImage(written) /\ Carries(sent, written) /\ next \in 1 .. Len(file) + 1 /\ max_addr \in Nat
  BY DEF HexInv, Sent, Typed
<1>2. Len(sent) \in Nat \ {0} /\ Len(written) \in Nat /\ BufferSize \in Nat
  <2>1. Len(written) \in Nat
    BY <1>1, ImageIs
  <2> QED  BY <1>1, <2>1, BufferSizeIs DEF Carries
<1>3. PICK i \in 1 .. Len(sent) - 1, addr \in Nat, len \in Nat :
        DataLine(sent[i], written, addr, len) /\ addr < k /\ k <= addr + len
  BY <1>1 DEF Carries
<1>4. PICK j \in 1 .. Len(file) : file[j] = sent[i]
  <2>1. i \in 1 .. Len(sent)
    BY <1>2
  <2> QED  BY <2>1, ReorderedIs
<1>5. j \in 1 .. next - 1
  BY LastLineEnds
<1>6. Filled /\ Holds(file[j])
  BY <1>5, ReorderedIs DEF Filled
<1>7. addr + len <= max_addr /\ \A a \in addr .. addr + len - 1 : a \in DOMAIN buffer
  BY <1>3, <1>4, <1>6 DEF Holds
<1>8. k - 1 \in DOMAIN buffer /\ buffer[k - 1] = written[k]
  <2>1. k - 1 \in addr .. addr + len - 1 /\ (k - 1) + 1 = k
    BY <1>2, <1>3
  <2>2. k - 1 \in DOMAIN buffer
    BY <1>7, <2>1
  <2>3. buffer[k - 1] = written[(k - 1) + 1]
    BY <1>6, <2>2 DEF Filled
  <2> QED  BY <2>1, <2>2, <2>3
<1>9. ASSUME ~error PROVE k <= BufferSize
  <2>1. file[j].colon /\ Type(file[j]) = 0 /\ Start(file[j]) = addr /\ Count(file[j]) = len
    BY <1>3, <1>4, DataIsRead
  <2>2. ~TooShort(file[j])
    BY <1>5, <1>9, <2>1 DEF HexInv, LinesRead
  <2> QED  BY <1>2, <1>3, <2>1, <2>2 DEF TooShort
<1>10. k <= max_addr
  BY <1>1, <1>2, <1>3, <1>7
<1> QED  BY <1>8, <1>9, <1>10

\* The lines of a file may come in any order, and more than once: if the EOF record is the
\* last one, the buffer is filled with what was written, or is too short for it
\* (read_hex_file).
THEOREM OrderIsFree == HexSpec => []OrderIrrelevant
<1>1. HexInv => OrderIrrelevant
  <2> SUFFICES ASSUME HexInv, loading \in {"loaded", "failed"}, Reordered
               PROVE  /\ loading = "loaded" <=> Len(written) <= BufferSize
                      /\ loading = "loaded" => Intact
    BY DEF OrderIrrelevant, Reordered
  <2>1. loading # "writing" /\ IsImage(written) /\ max_addr \in Nat /\ next \in 1 .. Len(file) + 1
    BY DEF HexInv, Sent, Typed
  <2>2. Len(written) \in 1 .. Len(written) /\ 1 \in 1 .. Len(written) /\ 2 \in 1 .. Len(written)
        /\ Len(written) \in Nat /\ BufferSize \in Nat /\ written[1] = 215 /\ written[2] = 251
    <3>1. Len(written) \in Nat /\ Len(written) >= 4 /\ written[1] = 215 /\ written[2] = 251
      BY <2>1, ImageIs
    <3>2. \A k \in Nat : k >= 4 => k \in 1 .. k /\ 1 \in 1 .. k /\ 2 \in 1 .. k
      OBVIOUS
    <3> QED  BY <3>1, <3>2, BufferSizeIs
  <2>3. ~feof /\ (completed <=> next - 1 = Len(file)) /\ Filled
    BY <2>1, LastLineEnds, ReorderedIs
  <2>4. ASSUME completed, NEW k \in 1 .. Len(written)
        PROVE  /\ k <= max_addr
               /\ k - 1 \in DOMAIN buffer /\ buffer[k - 1] = written[k]
               /\ ~error => k <= BufferSize
    BY <2>1, <2>4, EachIsStored
  <2>5. ASSUME loading = "loaded" PROVE Len(written) <= BufferSize /\ Intact
    <3>1. completed /\ ~error
      BY <2>3, <2>5 DEF HexInv, Outcome
    <3>2. Len(written) <= BufferSize /\ Len(written) <= max_addr
      BY <2>2, <2>4, <3>1
    <3>3. max_addr = Len(written)
      BY <2>1, <2>2, <2>3, <3>2 DEF Filled
    <3>4. \A a \in DOMAIN buffer : a \in 0 .. Len(written) - 1 /\ buffer[a] = written[a + 1]
      BY <2>3 DEF Filled
    <3>5. \A a \in DOMAIN buffer : a < Len(written) /\ buffer[a] = written[a + 1]
      BY <2>2, <3>4
    <3> QED  BY <2>4, <3>1, <3>2, <3>3, <3>5 DEF Intact
  <2>6. ASSUME loading = "failed" PROVE Len(written) > BufferSize
    <3>1. ~(completed /\ ~MarkersRight(buffer))
      <4> SUFFICES ASSUME completed PROVE MarkersRight(buffer)
        OBVIOUS
      <4>1. 1 - 1 \in DOMAIN buffer /\ buffer[1 - 1] = 215 /\ 2 - 1 \in DOMAIN buffer /\ buffer[2 - 1] = 251
        BY <2>2, <2>4
      <4>2. 0 \in DOMAIN buffer /\ buffer[0] = 215 /\ 1 \in DOMAIN buffer /\ buffer[1] = 251
        BY <4>1
      <4> QED  BY <4>2 DEF MarkersRight, Byte
    <3>2. ~(next > Len(file) /\ ~completed)
      BY <2>1, <2>3
    <3>3. error
      BY <2>3, <2>6, <3>1, <3>2 DEF HexInv, Outcome
    <3> QED  BY <2>3, <3>3 DEF Filled
  <2>7. ~(Len(written) > BufferSize /\ Len(written) <= BufferSize)
    BY <2>2
  <2> QED  BY <2>5, <2>6, <2>7
<1> QED  BY <1>1, FileIsRead, PTL
=============================================================================

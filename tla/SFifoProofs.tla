----------------------------- MODULE SFifoProofs -----------------------------
(* Theorems about SFifo (src/project/utils/sfifo.c) for buffers and indices   *)
(* of any size: what the reader hands over, and the refinement of BoundedFifo. *)
EXTENDS SFifo, TLAPS

----------------------------------------------------------------------------
(* Remainders.                                                               *)

LEMMA Remainder ==
    ASSUME NEW m \in Nat \ {0}, NEW x \in Nat
    PROVE  (x % m) \in 0..(m - 1) /\ (x \div m) \in Nat /\ x = m * (x \div m) + (x % m)
OBVIOUS

LEMMA Multiples ==
    ASSUME NEW m \in Nat \ {0}, NEW q \in Nat, NEW p \in Nat, q < p
    PROVE  m * p >= m * q + m
OBVIOUS

\* A remainder is the only one.
LEMMA Unique ==
    ASSUME NEW m \in Nat \ {0}, NEW q \in Nat, NEW r \in 0..(m - 1), NEW x \in Nat, x = m * q + r
    PROVE  x % m = r
<1> DEFINE p == x \div m
           s == x % m
<1>1. p \in Nat /\ s \in 0..(m - 1) /\ m * p + s = m * q + r
  BY Remainder
<1> HIDE DEF p, s
<1>2. q < p => m * p >= m * q + m
  BY <1>1, Multiples
<1>3. p < q => m * q >= m * p + m
  BY <1>1, Multiples
<1>4. m * p \in Nat /\ m * q \in Nat
  BY <1>1
<1>5. s = r
  BY <1>1, <1>2, <1>3, <1>4
<1> QED BY <1>5 DEF s

LEMMA Small ==
    ASSUME NEW m \in Nat \ {0}, NEW x \in 0..(m - 1)
    PROVE  x % m = x
OBVIOUS

\* Going k on, at most once around.
LEMMA GoOn ==
    ASSUME NEW m \in Nat \ {0}, NEW x \in Nat, NEW k \in 0..m
    PROVE  (x + k) % m = IF (x % m) + k < m THEN (x % m) + k ELSE (x % m) + k - m
<1> DEFINE q == x \div m
           r == x % m
<1>1. q \in Nat /\ r \in 0..(m - 1) /\ x = m * q + r
  BY Remainder
<1> HIDE DEF q, r
<1>2. CASE r + k < m
  <2>1. x + k = m * q + (r + k)
    BY <1>1
  <2>2. (x + k) % m = r + k
    BY <1>1, <1>2, <2>1, Unique
  <2> QED BY <1>2, <2>2 DEF r
<1>3. CASE r + k >= m
  <2> DEFINE u == q + 1
             t == r + k - m
             y == x + k
  <2>1. m * u = m * q + m
    BY <1>1
  <2>2. u \in Nat /\ t \in 0..(m - 1) /\ y \in Nat /\ y = m * u + t
    BY <1>1, <1>3, <2>1
  <2> HIDE DEF u, t, y
  <2>3. y % m = t
    BY <2>2, Unique
  <2> QED BY <1>1, <1>3, <2>3 DEF r, t, y
<1> QED BY <1>1, <1>2, <1>3

LEMMA Around ==
    ASSUME NEW m \in Nat \ {0}, NEW x \in Nat, NEW w \in Nat, w % m = 0
    PROVE  (x + w) % m = x % m
<1> DEFINE q == x \div m
           p == w \div m
           r == x % m
<1>1. q \in Nat /\ r \in 0..(m - 1) /\ x = m * q + r
  BY Remainder
<1>2. p \in Nat /\ w = m * p
  BY Remainder
<1> HIDE DEF q, p, r
<1>3. m * (q + p) = m * q + m * p
  BY <1>1, <1>2
<1>4. x + w = m * (q + p) + r
  BY <1>1, <1>2, <1>3
<1>5. (x + w) % m = r
  BY <1>1, <1>2, <1>4, Unique
<1> QED BY <1>5 DEF r

LEMMA Plus ==
    ASSUME NEW m \in Nat \ {0}, NEW x \in Nat, NEW k \in Nat
    PROVE  ((x % m) + k) % m = (x + k) % m
<1> DEFINE q == x \div m
           r == x % m
<1>1. q \in Nat /\ r \in 0..(m - 1) /\ x = m * q + r
  BY Remainder
<1> HIDE DEF q, r
<1> DEFINE p == (r + k) \div m
           s == (r + k) % m
<1>2. p \in Nat /\ s \in 0..(m - 1) /\ r + k = m * p + s
  <2>1. r + k \in Nat
    BY <1>1
  <2> HIDE DEF r
  <2> QED BY <2>1, Remainder
<1> HIDE DEF p, s
<1> DEFINE u == q + p
           y == x + k
<1>3. m * u = m * q + m * p
  BY <1>1, <1>2
<1>4. u \in Nat /\ y \in Nat /\ y = m * u + s
  BY <1>1, <1>2, <1>3
<1> HIDE DEF u, y
<1>5. y % m = s
  BY <1>2, <1>4, Unique
<1> QED BY <1>5 DEF y, s, r

LEMMA Constants ==
    /\ Size \in Nat \ {0} /\ Word \in Nat \ {0} /\ N \in Nat \ {0}
    /\ Word % Size = 0 /\ Word > Size /\ N > Size /\ Asks \subseteq Nat
<1>1. /\ Size \in Nat \ {0} /\ Word \in Nat /\ Word % Size = 0 /\ Word > Size
      /\ Asks \subseteq Nat \ {0} /\ N \in Nat /\ N > Size
  BY SFifoAssumption, Zenon
<1> QED BY <1>1

----------------------------------------------------------------------------
(* The indices and the cells.                                                *)

Room == in \in 0..(Word - 1) /\ out \in 0..(Word - 1) /\ Used <= Size

\* An index i that is ahead of o, modulo Word.
LEMMA Ahead ==
    ASSUME NEW i \in 0..(Word - 1), NEW o \in 0..(Word - 1)
    PROVE  (i + Word - o) % Word = IF i >= o THEN i - o ELSE i + Word - o
<1> USE Constants
<1>1. CASE i >= o
  <2> DEFINE x == i - o
  <2>1. x \in 0..(Word - 1) /\ i + Word - o = x + Word
    BY <1>1
  <2> HIDE DEF x
  <2>2. (x + Word) % Word = x
    BY <2>1, Small, GoOn
  <2> QED BY <1>1, <2>1, <2>2 DEF x
<1>2. CASE i < o
  <2> DEFINE x == i + Word - o
  <2>1. x \in 0..(Word - 1)
    BY <1>2
  <2> HIDE DEF x
  <2>2. x % Word = x
    BY <2>1, Small
  <2> QED BY <1>2, <2>2 DEF x
<1> QED BY <1>1, <1>2

LEMMA Differences ==
    ASSUME in \in 0..(Word - 1), out \in 0..(Word - 1)
    PROVE  /\ Used = IF in >= out THEN in - out ELSE in + Word - out
           /\ Used \in 0..(Word - 1)
           /\ Used <= Size => Free = Size - Used
<1> USE Constants
<1>1. Used = IF in >= out THEN in - out ELSE in + Word - out
  BY Ahead DEF Used
<1>2. Used \in 0..(Word - 1)
  BY <1>1
<1>3. ASSUME Used <= Size PROVE Free = Size - Used
  <2> DEFINE x == Size - Used
  <2>1. x \in 0..(Word - 1) /\ x + Word \in Nat
    BY <1>2, <1>3
  <2>2. Size + Word - in + out \in {x + Word, (x + Word) + Word}
    BY <1>1
  <2> HIDE DEF x
  <2>3. (x + Word) % Word = x
    BY <2>1, Small, GoOn
  <2>4. ((x + Word) + Word) % Word = x
    <3> DEFINE y == x + Word
    <3>1. y \in Nat /\ y % Word = x
      BY <2>1, <2>3
    <3> HIDE DEF y
    <3>2. Word \in 0..Word
      BY Constants
    <3>3. (y + Word) % Word = IF (y % Word) + Word < Word THEN (y % Word) + Word
                                                          ELSE (y % Word) + Word - Word
      BY <3>1, <3>2, GoOn
    <3>4. (y + Word) % Word = x
      BY <2>1, <3>1, <3>3
    <3> QED BY <3>4 DEF y
  <2> QED BY <2>2, <2>3, <2>4 DEF Free, x
<1> QED BY <1>1, <1>2, <1>3

\* The first free cell is that behind the last one in use, however often the
\* indices and the positions have wrapped.
LEMMA FirstFree ==
    ASSUME Room
    PROVE  in % Size = (out + Used) % Size
<1> USE Constants DEF Room
<1>1. CASE in >= out
  <2>1. out + Used = in
    BY <1>1, Differences
  <2> QED BY <2>1
<1>2. CASE in < out
  <2>1. out + Used = in + Word /\ in \in Nat
    BY <1>2, Differences
  <2>2. (in + Word) % Size = in % Size
    BY <2>1, Around
  <2> QED BY <2>1, <2>2
<1> QED BY <1>1, <1>2

LEMMA NextFree ==
    ASSUME Room, NEW j \in Nat
    PROVE  (in + j) % Size = (out + (Used + j)) % Size
<1> USE Constants DEF Room
<1> DEFINE x == out + Used
<1>1. in \in Nat /\ x \in Nat /\ x + j = out + (Used + j) /\ in % Size = x % Size
  BY Differences, FirstFree
<1> HIDE DEF x
<1>2. (in + j) % Size = (x + j) % Size
  <2>1. ((in % Size) + j) % Size = (in + j) % Size
    BY <1>1, Plus
  <2>2. ((x % Size) + j) % Size = (x + j) % Size
    BY <1>1, Plus
  <2> QED BY <1>1, <2>1, <2>2
<1> QED BY <1>1, <1>2

\* An index that is moved n on, and the cells behind it.
LEMMA Move ==
    ASSUME NEW i \in 0..(Word - 1), NEW n \in 0..Size
    PROVE  /\ (i + n) % Word = IF i + n < Word THEN i + n ELSE i + n - Word
           /\ ((i + n) % Word) \in 0..(Word - 1)
           /\ \A j \in Nat : (((i + n) % Word) + j) % Size = (i + (n + j)) % Size
<1> USE Constants
<1> DEFINE x == (i + n) % Word
           y == i + n
<1>1. x = IF i + n < Word THEN i + n ELSE i + n - Word
  <2>1. i \in Nat /\ n \in 0..Word /\ i % Word = i
    BY Small
  <2>2. (i + n) % Word = IF (i % Word) + n < Word THEN (i % Word) + n ELSE (i % Word) + n - Word
    BY <2>1, GoOn
  <2> QED BY <2>1, <2>2
<1>2. x \in 0..(Word - 1) /\ y \in Nat /\ x \in Nat
  BY <1>1
<1>3. x % Size = y % Size
  <2>1. CASE x = y
    BY <2>1
  <2>2. CASE x + Word = y
    <3> HIDE DEF x, y
    <3>1. (x + Word) % Size = x % Size
      BY <1>2, Around
    <3> QED BY <2>2, <3>1
  <2> QED BY <1>1, <2>1, <2>2
<1>4. ASSUME NEW j \in Nat PROVE (x + j) % Size = (i + (n + j)) % Size
  <2>1. y + j = i + (n + j)
    OBVIOUS
  <2> HIDE DEF x, y
  <2>2. ((x % Size) + j) % Size = (x + j) % Size
    BY <1>2, Plus
  <2>3. ((y % Size) + j) % Size = (y + j) % Size
    BY <1>2, Plus
  <2> QED BY <1>3, <2>1, <2>2, <2>3
<1> QED BY <1>1, <1>2, <1>4

\* The cell j places behind an index, and where the buffer ends.
LEMMA CellAt ==
    ASSUME NEW i \in 0..(Word - 1), NEW j \in 0..Size
    PROVE  /\ (i % Size) \in Cells
           /\ (i + j) % Size = IF (i % Size) + j < Size THEN (i % Size) + j ELSE (i % Size) + j - Size
<1>1. i \in Nat /\ Size \in Nat \ {0}
  BY Constants
<1>2. (i % Size) \in 0..(Size - 1)
  BY <1>1, Remainder
<1>3. (i + j) % Size = IF (i % Size) + j < Size THEN (i % Size) + j ELSE (i % Size) + j - Size
  BY <1>1, GoOn
<1> QED BY <1>2, <1>3 DEF Cells

LEMMA Apart ==
    ASSUME Room, NEW k \in 0..(Used - 1), NEW j \in 0..(Size - Used - 1)
    PROVE  (out + k) % Size # (in + j) % Size
<1> USE Constants DEF Room
<1> DEFINE u == Used
           o == out % Size
<1>1. u \in 0..Size /\ k \in 0..Size /\ u + j \in 0..Size /\ k < u + j
  BY Differences
<1>2. o \in 0..(Size - 1)
  BY Remainder
<1>3. (out + k) % Size = IF o + k < Size THEN o + k ELSE o + k - Size
  BY <1>1, CellAt
<1>4. (out + (u + j)) % Size = IF o + (u + j) < Size THEN o + (u + j) ELSE o + (u + j) - Size
  <2> DEFINE l == u + j
  <2> HIDE DEF l, u
  <2>1. l \in 0..Size
    BY <1>1 DEF l
  <2>2. (out + l) % Size = IF o + l < Size THEN o + l ELSE o + l - Size
    BY <2>1, CellAt
  <2> QED BY <2>2 DEF l
<1>5. (in + j) % Size = (out + (u + j)) % Size
  BY NextFree
<1>6. u + j < Size
  BY <1>1
<1> HIDE DEF u, o
<1> QED BY <1>1, <1>2, <1>3, <1>4, <1>5, <1>6

----------------------------------------------------------------------------
(* The steps.                                                                *)

FifoInv == FifoTypeOK /\ SpaceInv /\ WriterInv /\ ReaderInv

LEMMA InvRoom == FifoInv => Room /\ Used \in Nat /\ Free = Size - Used
BY Differences DEF FifoInv, FifoTypeOK, SpaceInv, Room

LEMMA InitInv == Init => FifoInv
<1> SUFFICES ASSUME Init PROVE FifoInv
  OBVIOUS
<1> USE Constants
<1>1. in = 0 /\ out = 0 /\ getNo = 0 /\ putNo = 0 /\ wpc = "idle" /\ rpc = "idle"
      /\ wlen = 0 /\ rlen = 0 /\ taken = <<>> /\ buffer = [c \in Cells |-> 0]
  BY DEF Init
<1>2. Used = 0
  BY <1>1, Differences
<1>3. 0 % N = 0
  BY Small
<1>4. FifoTypeOK
  BY <1>1 DEF FifoTypeOK, Labels, Cells
<1>5. SpaceInv
  BY <1>1, <1>2, <1>3 DEF SpaceInv, Filled
<1>6. WriterInv
  BY <1>1 DEF WriterInv
<1>7. ReaderInv
  BY <1>1 DEF ReaderInv, Got
<1> QED BY <1>4, <1>5, <1>6, <1>7 DEF FifoInv

\* The n cells from cell i on are among those the writer was given.
Given(i, n) ==
    \A c \in Cells : c \in i..(i + n - 1) => \E j \in 0..(wlen - 1) : c = (in + j) % Size

\* A part of a put: the bytes from number k on go to cells that are free.
LEMMA StoreFacts ==
    ASSUME FifoInv, wlen <= Size - Used, NEW i \in Nat, NEW n \in Nat, NEW k \in Nat, Store(i, n, k),
           Given(i, n), in' = in, out' = out, getNo' = getNo, putNo' = putNo
    PROVE  /\ buffer' \in [Cells -> 0..(N - 1)]
           /\ SpaceInv'
           /\ \A c \in Cells : buffer'[c] = IF c \in i..(i + n - 1) THEN (k + c - i) % N ELSE buffer[c]
<1> USE Constants
<1>1. \A c \in Cells : buffer'[c] = IF c \in i..(i + n - 1) THEN (k + c - i) % N ELSE buffer[c]
  BY DEF Store
<1>2. ASSUME NEW c \in Cells PROVE buffer'[c] \in 0..(N - 1)
  <2>1. CASE c \in i..(i + n - 1)
    <3>1. k + c - i \in Nat
      BY <2>1 DEF Cells
    <3>2. ((k + c - i) % N) \in 0..(N - 1)
      BY <3>1, Remainder
    <3> QED BY <1>1, <2>1, <3>2
  <2>2. CASE c \notin i..(i + n - 1)
    BY <1>1, <2>2 DEF FifoInv, FifoTypeOK
  <2> QED BY <2>1, <2>2
<1>3. buffer' \in [Cells -> 0..(N - 1)]
  BY <1>2 DEF Store
<1>4. Room /\ Used \in Nat /\ Used' = Used /\ wlen \in Nat
  BY InvRoom DEF Used, FifoInv, FifoTypeOK
<1>5. ASSUME NEW l \in 0..(Used - 1) PROVE buffer'[(out + l) % Size] = (getNo + l) % N
  <2>1. buffer[(out + l) % Size] = (getNo + l) % N
    BY DEF FifoInv, SpaceInv, Filled
  <2>2. out + l \in Nat
    BY <1>4 DEF Room
  <2>3. ((out + l) % Size) \in Cells
    BY <2>2, Remainder DEF Cells
  <2>4. (out + l) % Size \notin i..(i + n - 1)
    <3> SUFFICES ASSUME (out + l) % Size \in i..(i + n - 1) PROVE FALSE
      OBVIOUS
    <3>1. PICK j \in 0..(wlen - 1) : (out + l) % Size = (in + j) % Size
      BY <2>3 DEF Given
    <3>2. j \in 0..(Size - Used - 1)
      BY <1>4
    <3> QED BY <1>4, <3>1, <3>2, Apart
  <2> QED BY <1>1, <2>1, <2>3, <2>4
<1>6. SpaceInv'
  BY <1>4, <1>5 DEF FifoInv, SpaceInv, Filled
<1> QED BY <1>1, <1>3, <1>6

\* The first part of a put or get ends before the end of the buffer.
LEMMA FirstPart ==
    ASSUME FifoInv, NEW i \in 0..(Word - 1), NEW n \in Nat, n <= Size
    PROVE  /\ UpToEnd(i, n) \in 0..n
           /\ \A j \in 0..(UpToEnd(i, n) - 1) : (i + j) % Size = (i % Size) + j
           /\ \A j \in UpToEnd(i, n)..(n - 1) : (i + j) % Size = j - UpToEnd(i, n)
           /\ n > UpToEnd(i, n) => UpToEnd(i, n) = Size - (i % Size)
           /\ (i % Size) \in Nat
<1> USE Constants
<1> DEFINE o == i % Size
           e == UpToEnd(i, n)
<1>1. o \in 0..(Size - 1)
  BY Remainder
<1>2. e = IF n < Size - o THEN n ELSE Size - o
  BY DEF UpToEnd, Least
<1>3. \A j \in 0..Size : (i + j) % Size = IF o + j < Size THEN o + j ELSE o + j - Size
  BY CellAt
<1> HIDE DEF o, e
<1>4. /\ e \in 0..n /\ (n > e => e = Size - o)
      /\ \A j \in 0..(e - 1) : j \in 0..Size /\ o + j < Size
      /\ \A j \in e..(n - 1) : j \in 0..Size /\ o + j - Size = j - e /\ ~(o + j < Size)
  BY <1>1, <1>2
<1>5. \A j \in 0..(e - 1) : (i + j) % Size = o + j
  BY <1>3, <1>4
<1>6. \A j \in e..(n - 1) : (i + j) % Size = j - e
  BY <1>3, <1>4
<1> QED BY <1>1, <1>4, <1>5, <1>6 DEF o, e

LEMMA ReaderSame ==
    ASSUME ReaderInv, Used' >= Used, Used \in Nat, Used' \in Nat, FifoTypeOK,
           UNCHANGED <<out, rpc, rlen, taken, getNo>>
    PROVE  ReaderInv'
BY DEF ReaderInv, Got, UpToEnd, FifoTypeOK

LEMMA StepPutCopy == FifoInv /\ PutCopy => FifoInv'
<1> SUFFICES ASSUME FifoInv, PutCopy PROVE FifoInv'
  OBVIOUS
<1> USE Constants
<1> DEFINE p == in % Size
           e == UpToEnd(in, wlen)
<1>1. wlen <= Size - Used /\ wlen \in Nat /\ wlen <= Size /\ putNo \in Nat /\ in \in 0..(Word - 1)
      /\ Room /\ Used \in Nat
  BY InvRoom DEF PutCopy, FifoInv, WriterInv, FifoTypeOK, Room
<1>2. /\ e \in 0..wlen /\ p \in Nat
      /\ \A j \in 0..(e - 1) : (in + j) % Size = p + j
  BY <1>1, FirstPart
<1>3. Store(p, e, putNo) /\ in' = in /\ out' = out /\ getNo' = getNo /\ putNo' = putNo
  BY DEF PutCopy, readerVars
<1>8. UNCHANGED <<rpc, rlen, taken, wlen>> /\ wpc' = "wrap" /\ Used' = Used
  BY <1>3 DEF PutCopy, readerVars, Used
<1> HIDE DEF p, e
<1>4. ASSUME NEW c \in Cells, c \in p..(p + e - 1)
      PROVE  \E j \in 0..(wlen - 1) : c = (in + j) % Size
  <2>1. c - p \in 0..(e - 1) /\ c - p \in 0..(wlen - 1) /\ p + (c - p) = c
    BY <1>1, <1>2, <1>4
  <2> QED BY <1>2, <2>1
<1>5. /\ buffer' \in [Cells -> 0..(N - 1)] /\ SpaceInv'
      /\ \A c \in Cells : buffer'[c] = IF c \in p..(p + e - 1) THEN (putNo + c - p) % N ELSE buffer[c]
  <2>1. e \in Nat
    BY <1>1, <1>2
  <2>2. Given(p, e)
    BY <1>4 DEF Given
  <2> QED BY <1>1, <1>2, <1>3, <2>1, <2>2, StoreFacts
<1>6. ASSUME NEW j \in 0..(e - 1) PROVE buffer'[(in + j) % Size] = (putNo + j) % N
  <2>1. (in + j) % Size = p + j /\ in + j \in Nat
    BY <1>1, <1>2
  <2>2. ((in + j) % Size) \in Cells
    BY <2>1, Remainder DEF Cells
  <2>3. p + j \in p..(p + e - 1) /\ putNo + (p + j) - p = putNo + j
    BY <1>1, <1>2
  <2> QED BY <1>5, <2>1, <2>2, <2>3
<1>7. WriterInv'
  <2>1. Filled(in, UpToEnd(in, wlen), putNo)'
    BY <1>3, <1>6, <1>8 DEF Filled, e, UpToEnd
  <2> QED BY <1>1, <1>8, <2>1 DEF WriterInv
<1>9. ReaderInv'
  BY <1>1, <1>3, <1>8, ReaderSame DEF FifoInv
<1>10. FifoTypeOK'
  BY <1>3, <1>5, <1>8 DEF FifoInv, FifoTypeOK, Labels
<1> QED BY <1>5, <1>7, <1>9, <1>10 DEF FifoInv

LEMMA StepPutWrap == FifoInv /\ PutWrap => FifoInv'
<1> SUFFICES ASSUME FifoInv, PutWrap PROVE FifoInv'
  OBVIOUS
<1> USE Constants
<1> DEFINE p == in % Size
           e == UpToEnd(in, wlen)
<1>1. wlen <= Size - Used /\ wlen \in Nat /\ wlen <= Size /\ putNo \in Nat /\ in \in 0..(Word - 1)
      /\ Room /\ Used \in Nat
  BY InvRoom DEF PutWrap, FifoInv, WriterInv, FifoTypeOK, Room
<1>2. /\ e \in 0..wlen /\ p \in Nat /\ (wlen > e => e = Size - p)
      /\ \A j \in 0..(e - 1) : (in + j) % Size = p + j
      /\ \A j \in e..(wlen - 1) : (in + j) % Size = j - e
  BY <1>1, FirstPart
<1>3. Store(0, wlen - e, putNo + e) /\ in' = in /\ out' = out /\ getNo' = getNo /\ putNo' = putNo
      /\ Filled(in, e, putNo)
  BY DEF PutWrap, readerVars, FifoInv, WriterInv
<1>8. UNCHANGED <<rpc, rlen, taken, wlen>> /\ wpc' = "publish" /\ Used' = Used
  BY <1>3 DEF PutWrap, readerVars, Used
<1> HIDE DEF p, e
<1>4. ASSUME NEW c \in Cells, c \in 0..(0 + (wlen - e) - 1)
      PROVE  \E j \in 0..(wlen - 1) : c = (in + j) % Size
  <2>1. e + c \in e..(wlen - 1) /\ e + c \in 0..(wlen - 1) /\ (e + c) - e = c
    BY <1>1, <1>2, <1>4
  <2> QED BY <1>2, <2>1
<1>5. /\ buffer' \in [Cells -> 0..(N - 1)] /\ SpaceInv'
      /\ \A c \in Cells : buffer'[c] = IF c \in 0..(0 + (wlen - e) - 1) THEN ((putNo + e) + c - 0) % N
                                                                 ELSE buffer[c]
  <2> DEFINE n == wlen - e
             k == putNo + e
  <2>1. n \in Nat /\ k \in Nat /\ 0 \in Nat /\ Store(0, n, k)
    BY <1>1, <1>2, <1>3
  <2>2. Given(0, n)
    BY <1>4 DEF Given
  <2> HIDE DEF n, k
  <2>3. /\ buffer' \in [Cells -> 0..(N - 1)] /\ SpaceInv'
        /\ \A c \in Cells : buffer'[c] = IF c \in 0..(0 + n - 1) THEN (k + c - 0) % N ELSE buffer[c]
    BY <1>1, <1>3, <2>1, <2>2, StoreFacts
  <2> QED BY <2>3 DEF n, k
<1>6. ASSUME NEW j \in 0..(wlen - 1) PROVE buffer'[(in + j) % Size] = (putNo + j) % N
  <2>1. in + j \in Nat
    BY <1>1
  <2>2. ((in + j) % Size) \in Cells
    BY <2>1, Remainder DEF Cells
  <2>3. CASE j < e
    <3>1. (in + j) % Size = p + j /\ buffer[(in + j) % Size] = (putNo + j) % N
      BY <1>2, <1>3, <2>3 DEF Filled
    <3>2. p + j \notin 0..(0 + (wlen - e) - 1)
      BY <1>1, <1>2
    <3> QED BY <1>5, <2>2, <3>1, <3>2
  <2>4. CASE j >= e
    <3>1. (in + j) % Size = j - e
      BY <1>2, <2>4
    <3>2. j - e \in 0..(0 + (wlen - e) - 1) /\ (putNo + e) + (j - e) - 0 = putNo + j
      BY <1>1, <1>2, <2>4
    <3> QED BY <1>5, <2>2, <3>1, <3>2
  <2> QED BY <1>2, <2>3, <2>4
<1>7. WriterInv'
  <2>1. Filled(in, wlen, putNo)'
    BY <1>3, <1>6, <1>8 DEF Filled
  <2> QED BY <1>1, <1>8, <2>1 DEF WriterInv
<1>9. ReaderInv'
  BY <1>1, <1>3, <1>8, ReaderSame DEF FifoInv
<1>10. FifoTypeOK'
  BY <1>3, <1>5, <1>8 DEF FifoInv, FifoTypeOK, Labels
<1> QED BY <1>5, <1>7, <1>9, <1>10 DEF FifoInv

LEMMA StepPutPublish ==
    FifoInv /\ PutPublish => FifoInv' /\ Used' = Used + wlen /\ wlen \in 0..(Size - Used)
<1> SUFFICES ASSUME FifoInv, PutPublish
             PROVE  FifoInv' /\ Used' = Used + wlen /\ wlen \in 0..(Size - Used)
  OBVIOUS
<1> USE Constants
<1>1. /\ wlen \in 0..(Size - Used) /\ wlen \in Nat /\ Room /\ Used \in Nat
      /\ in \in 0..(Word - 1) /\ out \in 0..(Word - 1) /\ wlen \in 0..Size
      /\ putNo \in Nat /\ getNo \in Nat
  BY InvRoom DEF PutPublish, FifoInv, WriterInv, FifoTypeOK, Room
<1>2. /\ in' = (in + wlen) % Word /\ putNo' = (putNo + wlen) % N
      /\ wpc' = "idle" /\ wlen' = 0 /\ buffer' = buffer
      /\ out' = out /\ rpc' = rpc /\ rlen' = rlen /\ taken' = taken /\ getNo' = getNo
  BY DEF PutPublish, readerVars
<1>3. in' = IF in + wlen < Word THEN in + wlen ELSE in + wlen - Word
  BY <1>1, <1>2, Move
<1>4. Used = IF in >= out THEN in - out ELSE in + Word - out
  BY <1>1, Differences
<1>5. in' \in 0..(Word - 1)
  BY <1>1, <1>3
<1>6. Used' = IF in' >= out THEN in' - out ELSE in' + Word - out
  BY <1>1, <1>2, <1>5, Ahead DEF Used
<1>7. Used' = Used + wlen
  BY <1>1, <1>3, <1>4, <1>6
<1>8. ASSUME NEW j \in 0..(Used' - 1) PROVE buffer[(out + j) % Size] = (getNo + j) % N
  <2>1. CASE j < Used
    BY <1>1, <2>1 DEF FifoInv, SpaceInv, Filled
  <2>2. CASE j >= Used
    <3> DEFINE d == j - Used
               u == Used
    <3>1. d \in Nat /\ d \in 0..(wlen - 1) /\ u + d = j
      BY <1>1, <1>7, <2>2
    <3>2. (in + d) % Size = (out + (u + d)) % Size
      BY <1>1, <3>1, NextFree
    <3>3. buffer[(in + d) % Size] = (putNo + d) % N
      BY <3>1 DEF PutPublish, FifoInv, WriterInv, Filled
    <3>4. (putNo + d) % N = ((getNo + u) + d) % N
      <4> DEFINE x == getNo + u
      <4>1. putNo = x % N /\ x \in Nat
        BY <1>1 DEF FifoInv, SpaceInv
      <4> HIDE DEF x, d, u
      <4>2. ((x % N) + d) % N = (x + d) % N
        BY <3>1, <4>1, Plus
      <4> QED BY <4>1, <4>2 DEF x
    <3>5. (getNo + u) + d = getNo + j
      BY <1>1, <3>1
    <3> QED BY <3>1, <3>2, <3>3, <3>4, <3>5
  <2> QED BY <1>1, <1>7, <2>1, <2>2
<1>9. putNo' = (getNo + Used') % N
  <2> DEFINE x == getNo + Used
  <2>1. putNo = x % N /\ x \in Nat /\ getNo + Used' = x + wlen
    BY <1>1, <1>7 DEF FifoInv, SpaceInv
  <2> HIDE DEF x
  <2>2. ((x % N) + wlen) % N = (x + wlen) % N
    BY <1>1, <2>1, Plus
  <2> QED BY <1>2, <2>1, <2>2
<1>10. SpaceInv'
  BY <1>1, <1>2, <1>7, <1>8, <1>9 DEF SpaceInv, Filled
<1>11. ReaderInv'
  BY <1>1, <1>2, <1>7, ReaderSame DEF FifoInv
<1>12. putNo' \in 0..(N - 1)
  <2>1. putNo + wlen \in Nat
    BY <1>1
  <2> QED BY <1>2, <2>1, Remainder
<1>13. FifoTypeOK'
  BY <1>2, <1>5, <1>12 DEF FifoInv, FifoTypeOK, Labels
<1>14. WriterInv'
  BY <1>2 DEF WriterInv
<1> QED BY <1>1, <1>7, <1>10, <1>11, <1>13, <1>14 DEF FifoInv

LEMMA Concat ==
    ASSUME NEW S, NEW a \in Seq(S), NEW b \in Seq(S)
    PROVE  /\ a \o b \in Seq(S) /\ Len(a \o b) = Len(a) + Len(b)
           /\ \A j \in 1..Len(a) : (a \o b)[j] = a[j]
           /\ \A j \in 1..Len(b) : (a \o b)[Len(a) + j] = b[j]
<1>1. a \o b \in Seq(S)
  OBVIOUS
<1>2. Len(a \o b) = Len(a) + Len(b)
  OBVIOUS
<1>3. ASSUME NEW j \in 1..Len(a) PROVE (a \o b)[j] = a[j]
  OBVIOUS
<1>4. ASSUME NEW j \in 1..Len(b) PROVE (a \o b)[Len(a) + j] = b[j]
  OBVIOUS
<1> QED BY <1>1, <1>2, <1>3, <1>4

\* A part of a get.
LEMMA LoadFacts ==
    ASSUME taken \in Seq(0..(N - 1)), buffer \in [Cells -> 0..(N - 1)], NEW i \in Nat, NEW n \in Nat,
           \A j \in 1..n : i + j - 1 \in Cells, Load(i, n)
    PROVE  /\ taken' \in Seq(0..(N - 1)) /\ Len(taken') = Len(taken) + n
           /\ \A j \in 1..Len(taken) : taken'[j] = taken[j]
           /\ \A j \in 1..n : taken'[Len(taken) + j] = buffer[i + j - 1]
<1> DEFINE s == [j \in 1..n |-> buffer[i + j - 1]]
<1>1. s \in Seq(0..(N - 1)) /\ Len(s) = n /\ \A j \in 1..n : s[j] = buffer[i + j - 1]
  <2>1. ASSUME NEW j \in 1..n PROVE buffer[i + j - 1] \in 0..(N - 1)
    OBVIOUS
  <2> QED BY <2>1
<1>2. taken' = taken \o s
  BY DEF Load
<1> HIDE DEF s
<1> DEFINE S == 0..(N - 1)
<1>3. taken \in Seq(S) /\ s \in Seq(S)
  BY <1>1
<1> HIDE DEF S
<1>4. /\ taken \o s \in Seq(S) /\ Len(taken \o s) = Len(taken) + Len(s)
      /\ \A j \in 1..Len(taken) : (taken \o s)[j] = taken[j]
      /\ \A j \in 1..Len(s) : (taken \o s)[Len(taken) + j] = s[j]
  BY <1>3, Concat
<1>5. \A j \in 1..n : taken'[Len(taken) + j] = buffer[i + j - 1]
  BY <1>1, <1>2, <1>4
<1> QED BY <1>1, <1>2, <1>4, <1>5 DEF S

LEMMA WriterSame ==
    ASSUME WriterInv, FifoTypeOK, Used \in Nat, Used' \in Nat, Used' <= Used,
           UNCHANGED writerVars
    PROVE  WriterInv'
<1>1. in' = in /\ buffer' = buffer /\ wpc' = wpc /\ wlen' = wlen /\ putNo' = putNo
  BY DEF writerVars
<1>2. wpc \in {"copy", "wrap", "publish"} => wlen <= Size - Used'
  <2>1. wpc \in {"copy", "wrap", "publish"} => wlen <= Size - Used
    BY DEF WriterInv
  <2>2. wlen \in Nat /\ Size \in Nat
    BY Constants DEF FifoTypeOK
  <2> DEFINE u == Used
             v == Used'
  <2>3. u \in Nat /\ v \in Nat /\ v <= u
    OBVIOUS
  <2>4. wpc \in {"copy", "wrap", "publish"} => wlen <= Size - u
    BY <2>1
  <2> HIDE DEF u, v
  <2>5. wpc \in {"copy", "wrap", "publish"} => wlen <= Size - v
    BY <2>2, <2>3, <2>4
  <2> QED BY <2>5 DEF v
<1> QED BY <1>1, <1>2 DEF WriterInv, Filled, UpToEnd

LEMMA StepGetCopy == FifoInv /\ GetCopy => FifoInv'
<1> SUFFICES ASSUME FifoInv, GetCopy PROVE FifoInv'
  OBVIOUS
<1> USE Constants
<1> DEFINE o == out % Size
           e == UpToEnd(out, rlen)
<1>1. /\ rlen <= Used /\ rlen \in Nat /\ rlen <= Size /\ getNo \in Nat /\ out \in 0..(Word - 1)
      /\ Used \in Nat /\ taken \in Seq(0..(N - 1)) /\ Len(taken) = 0
  BY InvRoom DEF GetCopy, FifoInv, ReaderInv, Got, FifoTypeOK, Room
<1>2. /\ e \in 0..rlen /\ o \in Nat
      /\ \A j \in 0..(e - 1) : (out + j) % Size = o + j
  BY <1>1, FirstPart
<1>3. /\ Load(o, e) /\ rpc' = "wrap" /\ out' = out /\ rlen' = rlen /\ getNo' = getNo
      /\ UNCHANGED writerVars
  BY DEF GetCopy
<1>4. Used' = Used /\ in' = in /\ buffer' = buffer /\ putNo' = putNo /\ wpc' = wpc /\ wlen' = wlen
  BY <1>3 DEF writerVars, Used
<1> HIDE DEF o, e
<1>5. ASSUME NEW j \in 1..e PROVE o + j - 1 \in Cells /\ buffer[o + j - 1] = (getNo + j - 1) % N
  <2> DEFINE k == j - 1
  <2>1. k \in 0..(e - 1) /\ k \in 0..(Used - 1) /\ o + j - 1 = o + k /\ getNo + j - 1 = getNo + k
        /\ out + k \in Nat
    BY <1>1, <1>2
  <2> HIDE DEF k
  <2>2. (out + k) % Size = o + k /\ buffer[(out + k) % Size] = (getNo + k) % N
    BY <1>2, <2>1 DEF FifoInv, SpaceInv, Filled
  <2>3. ((out + k) % Size) \in Cells
    BY <2>1, Remainder DEF Cells
  <2> QED BY <2>1, <2>2, <2>3
<1>6. /\ taken' \in Seq(0..(N - 1)) /\ Len(taken') = e
      /\ \A j \in 1..e : taken'[j] = buffer[o + j - 1]
  <2>1. buffer \in [Cells -> 0..(N - 1)] /\ e \in Nat
    BY <1>2 DEF FifoInv, FifoTypeOK
  <2>2. /\ taken' \in Seq(0..(N - 1)) /\ Len(taken') = Len(taken) + e
        /\ \A j \in 1..e : taken'[Len(taken) + j] = buffer[o + j - 1]
    BY <1>1, <1>2, <1>3, <1>5, <2>1, LoadFacts
  <2> QED BY <1>1, <2>1, <2>2
<1>7. Got' = e
  BY <1>3 DEF Got, e, UpToEnd
<1>8. ReaderInv'
  BY <1>1, <1>3, <1>4, <1>5, <1>6, <1>7 DEF ReaderInv
<1>9. WriterInv'
  BY <1>1, <1>3, <1>4, WriterSame DEF FifoInv
<1>10. SpaceInv'
  BY <1>3, <1>4 DEF FifoInv, SpaceInv, Filled
<1>11. FifoTypeOK'
  BY <1>3, <1>4 DEF FifoInv, FifoTypeOK, Labels
<1> QED BY <1>8, <1>9, <1>10, <1>11 DEF FifoInv

LEMMA StepGetWrap == FifoInv /\ GetWrap => FifoInv'
<1> SUFFICES ASSUME FifoInv, GetWrap PROVE FifoInv'
  OBVIOUS
<1> USE Constants
<1> DEFINE o == out % Size
           e == UpToEnd(out, rlen)
           n == rlen - e
<1>1. /\ rlen <= Used /\ rlen \in Nat /\ rlen <= Size /\ getNo \in Nat /\ out \in 0..(Word - 1)
      /\ Used \in Nat /\ taken \in Seq(0..(N - 1)) /\ Len(taken) = e
      /\ \A j \in 1..e : taken[j] = (getNo + j - 1) % N
  BY InvRoom DEF GetWrap, FifoInv, ReaderInv, Got, FifoTypeOK, Room
<1>2. /\ e \in 0..rlen
      /\ \A j \in e..(rlen - 1) : (out + j) % Size = j - e
  BY <1>1, FirstPart
<1>3. /\ Load(0, n) /\ rpc' = "publish" /\ out' = out /\ rlen' = rlen /\ getNo' = getNo
      /\ UNCHANGED writerVars
  BY DEF GetWrap
<1>4. Used' = Used /\ in' = in /\ buffer' = buffer /\ putNo' = putNo /\ wpc' = wpc /\ wlen' = wlen
  BY <1>3 DEF writerVars, Used
<1> HIDE DEF o, e
<1>5. n \in Nat /\ e \in Nat /\ e + n = rlen
  BY <1>1, <1>2
<1> HIDE DEF n
<1>6. ASSUME NEW j \in 1..n
      PROVE  0 + j - 1 \in Cells /\ buffer[0 + j - 1] = (getNo + (e + j) - 1) % N
  <2> DEFINE k == e + j - 1
  <2>1. k \in e..(rlen - 1) /\ k \in 0..(Used - 1) /\ k - e = 0 + j - 1
        /\ getNo + k = getNo + (e + j) - 1 /\ out + k \in Nat
    BY <1>1, <1>2, <1>5
  <2> HIDE DEF k
  <2>2. (out + k) % Size = k - e /\ buffer[(out + k) % Size] = (getNo + k) % N
    BY <1>2, <2>1 DEF FifoInv, SpaceInv, Filled
  <2>3. ((out + k) % Size) \in Cells
    BY <2>1, Remainder DEF Cells
  <2> QED BY <2>1, <2>2, <2>3
<1>7. /\ taken' \in Seq(0..(N - 1)) /\ Len(taken') = e + n
      /\ \A j \in 1..e : taken'[j] = taken[j]
      /\ \A j \in 1..n : taken'[e + j] = buffer[0 + j - 1]
  <2>1. buffer \in [Cells -> 0..(N - 1)] /\ 0 \in Nat
    BY DEF FifoInv, FifoTypeOK
  <2>2. /\ taken' \in Seq(0..(N - 1)) /\ Len(taken') = Len(taken) + n
        /\ \A j \in 1..Len(taken) : taken'[j] = taken[j]
        /\ \A j \in 1..n : taken'[Len(taken) + j] = buffer[0 + j - 1]
    BY <1>1, <1>3, <1>5, <1>6, <2>1, LoadFacts
  <2> QED BY <1>1, <2>2
<1>8. ASSUME NEW j \in 1..rlen PROVE taken'[j] = (getNo + j - 1) % N
  <2>1. CASE j <= e
    BY <1>1, <1>5, <1>7, <2>1
  <2>2. CASE j > e
    <3> DEFINE k == j - e
    <3>1. k \in 1..n /\ e + k = j
      BY <1>5, <2>2
    <3> HIDE DEF k
    <3>2. taken'[e + k] = (getNo + (e + k) - 1) % N
      BY <1>6, <1>7, <3>1
    <3> QED BY <3>1, <3>2
  <2> QED BY <1>5, <2>1, <2>2
<1>9. ReaderInv'
  BY <1>1, <1>3, <1>4, <1>5, <1>7, <1>8 DEF ReaderInv, Got
<1>10. WriterInv'
  BY <1>1, <1>3, <1>4, WriterSame DEF FifoInv
<1>11. SpaceInv'
  BY <1>3, <1>4 DEF FifoInv, SpaceInv, Filled
<1>12. FifoTypeOK'
  BY <1>3, <1>4 DEF FifoInv, FifoTypeOK, Labels
<1> QED BY <1>9, <1>10, <1>11, <1>12 DEF FifoInv

LEMMA StepGetPublish ==
    FifoInv /\ GetPublish => /\ FifoInv' /\ Used' = Used - rlen /\ rlen \in 0..Used
                             /\ getNo' = (getNo + rlen) % N
<1> SUFFICES ASSUME FifoInv, GetPublish
             PROVE  /\ FifoInv' /\ Used' = Used - rlen /\ rlen \in 0..Used
                    /\ getNo' = (getNo + rlen) % N
  OBVIOUS
<1> USE Constants
<1>1. /\ rlen \in 0..Used /\ rlen \in Nat /\ rlen \in 0..Size /\ Used \in Nat /\ getNo \in Nat
      /\ in \in 0..(Word - 1) /\ out \in 0..(Word - 1)
  BY InvRoom DEF GetPublish, FifoInv, ReaderInv, FifoTypeOK, Room
<1>2. /\ out' = (out + rlen) % Word /\ getNo' = (getNo + rlen) % N
      /\ taken' = <<>> /\ rpc' = "idle" /\ rlen' = 0 /\ UNCHANGED writerVars
  BY DEF GetPublish
<1>3. in' = in /\ buffer' = buffer /\ putNo' = putNo /\ wpc' = wpc /\ wlen' = wlen
  BY <1>2 DEF writerVars
<1>4. /\ out' = IF out + rlen < Word THEN out + rlen ELSE out + rlen - Word
      /\ out' \in 0..(Word - 1)
      /\ \A j \in Nat : (out' + j) % Size = (out + (rlen + j)) % Size
  <2> DEFINE y == (out + rlen) % Word
  <2>1. /\ y = IF out + rlen < Word THEN out + rlen ELSE out + rlen - Word
        /\ y \in 0..(Word - 1)
        /\ \A j \in Nat : (y + j) % Size = (out + (rlen + j)) % Size
    BY <1>1, Move
  <2>2. out' = y
    BY <1>2
  <2> HIDE DEF y
  <2> QED BY <2>1, <2>2
<1>5. Used = IF in >= out THEN in - out ELSE in + Word - out
  BY <1>1, Differences
<1>6. Used' = IF in >= out' THEN in - out' ELSE in + Word - out'
  BY <1>1, <1>3, <1>4, Ahead DEF Used
<1>7. Used' = Used - rlen
  BY <1>1, <1>4, <1>5, <1>6
<1> DEFINE x == getNo + rlen
<1>8. x \in Nat
  BY <1>1
<1>9. ASSUME NEW j \in Nat PROVE (getNo' + j) % N = (getNo + (rlen + j)) % N
  <2>1. x + j = getNo + (rlen + j)
    BY <1>1
  <2>2. getNo' = x % N
    BY <1>2
  <2> HIDE DEF x
  <2>3. ((x % N) + j) % N = (x + j) % N
    BY <1>8, Plus
  <2> QED BY <2>1, <2>2, <2>3
<1>10. ASSUME NEW j \in 0..(Used' - 1) PROVE buffer[(out' + j) % Size] = (getNo' + j) % N
  <2> DEFINE k == rlen + j
  <2>1. k \in 0..(Used - 1) /\ j \in Nat
    BY <1>1, <1>7
  <2> HIDE DEF k
  <2>2. buffer[(out + k) % Size] = (getNo + k) % N
    BY <2>1 DEF FifoInv, SpaceInv, Filled
  <2>3. (out' + j) % Size = (out + k) % Size /\ (getNo' + j) % N = (getNo + k) % N
    BY <1>4, <1>9, <2>1 DEF k
  <2> QED BY <2>2, <2>3
<1>11. putNo = (getNo' + Used') % N
  <2> DEFINE u == Used
             v == Used - rlen
  <2>1. v \in Nat /\ rlen + v = u
    BY <1>1
  <2>2. putNo = (getNo + u) % N
    BY DEF FifoInv, SpaceInv
  <2> HIDE DEF u, v
  <2>3. (getNo' + v) % N = (getNo + (rlen + v)) % N
    BY <1>9, <2>1
  <2> QED BY <1>7, <2>1, <2>2, <2>3 DEF v
<1>12. SpaceInv'
  <2>1. Used' <= Size
    BY <1>1, <1>7 DEF FifoInv, SpaceInv
  <2>2. Filled(out, Used, getNo)'
    BY <1>3, <1>10 DEF Filled
  <2> QED BY <1>3, <1>11, <2>1, <2>2 DEF SpaceInv
<1>13. WriterInv'
  BY <1>1, <1>2, <1>7, WriterSame DEF FifoInv
<1>14. getNo' \in 0..(N - 1)
  BY <1>2, <1>8, Remainder
<1>15. FifoTypeOK'
  BY <1>2, <1>3, <1>4, <1>14 DEF FifoInv, FifoTypeOK, Labels
<1>16. Used' \in Nat
  BY <1>1, <1>7
<1>17. ReaderInv'
  BY <1>2 DEF ReaderInv, Got
<1> QED BY <1>1, <1>2, <1>7, <1>12, <1>13, <1>15, <1>17 DEF FifoInv

LEMMA ReaderStays ==
    ASSUME FifoInv, UNCHANGED <<readerVars, in>>
    PROVE  ReaderInv' /\ Used' = Used
BY DEF readerVars, FifoInv, ReaderInv, Got, UpToEnd, Used

\* The steps that only compute a length.
LEMMA StepPutLength == FifoInv /\ (PutFreeAgain \/ \E len \in Asks : sfifo_put(len)) => FifoInv'
<1> SUFFICES ASSUME FifoInv, PutFreeAgain \/ \E len \in Asks : sfifo_put(len) PROVE FifoInv'
  OBVIOUS
<1> USE Constants
<1>1. Free = Size - Used /\ Used \in Nat /\ Used <= Size
  BY InvRoom DEF Room
<1>2. /\ UNCHANGED <<readerVars, in, buffer, putNo>>
      /\ \/ wpc' = "again" /\ wlen' = wlen
         \/ wpc' = "copy" /\ wlen' \in Nat /\ wlen' <= Size - Used
  <2>1. CASE PutFreeAgain
    BY <1>1, <2>1 DEF PutFreeAgain
  <2>2. ASSUME NEW len \in Asks, sfifo_put(len)
        PROVE  /\ UNCHANGED <<readerVars, in, buffer, putNo>>
               /\ \/ wpc' = "again" /\ wlen' = wlen
                  \/ wpc' = "copy" /\ wlen' \in Nat /\ wlen' <= Size - Used
    <3>1. len \in Nat
      OBVIOUS
    <3> QED BY <1>1, <2>2, <3>1 DEF sfifo_put
  <2> QED BY <2>1, <2>2
<1>3. ReaderInv' /\ Used' = Used
  BY <1>2, ReaderStays
<1>4. WriterInv'
  BY <1>2, <1>3 DEF WriterInv
<1>5. SpaceInv'
  BY <1>2, <1>3 DEF FifoInv, SpaceInv, Filled, readerVars
<1>6. FifoTypeOK'
  BY <1>2 DEF FifoInv, FifoTypeOK, Labels, readerVars
<1> QED BY <1>3, <1>4, <1>5, <1>6 DEF FifoInv

LEMMA StepGetLength == FifoInv /\ (GetUsedAgain \/ \E len \in Asks : sfifo_get(len)) => FifoInv'
<1> SUFFICES ASSUME FifoInv, GetUsedAgain \/ \E len \in Asks : sfifo_get(len) PROVE FifoInv'
  OBVIOUS
<1> USE Constants
<1>1. Used \in Nat
  BY InvRoom
<1>2. /\ UNCHANGED writerVars /\ out' = out /\ taken' = taken /\ getNo' = getNo
      /\ rpc \in {"idle", "again"}
      /\ \/ rpc' = "again" /\ rlen' = rlen
         \/ rpc' = "copy" /\ rlen' \in Nat /\ rlen' <= Used
  <2>1. CASE GetUsedAgain
    BY <1>1, <2>1 DEF GetUsedAgain
  <2>2. ASSUME NEW len \in Asks, sfifo_get(len)
        PROVE  /\ UNCHANGED writerVars /\ out' = out /\ taken' = taken /\ getNo' = getNo
               /\ rpc \in {"idle", "again"}
               /\ \/ rpc' = "again" /\ rlen' = rlen
                  \/ rpc' = "copy" /\ rlen' \in Nat /\ rlen' <= Used
    <3>1. len \in Nat
      OBVIOUS
    <3> QED BY <1>1, <2>2, <3>1 DEF sfifo_get
  <2> QED BY <2>1, <2>2
<1>3. in' = in /\ buffer' = buffer /\ putNo' = putNo /\ wpc' = wpc /\ wlen' = wlen /\ Used' = Used
  BY <1>2 DEF writerVars, Used
<1>4. ReaderInv'
  BY <1>2, <1>3 DEF FifoInv, ReaderInv, Got
<1>5. WriterInv'
  BY <1>1, <1>2, <1>3, WriterSame DEF FifoInv
<1>6. SpaceInv'
  BY <1>2, <1>3 DEF FifoInv, SpaceInv, Filled
<1>7. FifoTypeOK'
  BY <1>2, <1>3 DEF FifoInv, FifoTypeOK, Labels
<1> QED BY <1>4, <1>5, <1>6, <1>7 DEF FifoInv

LEMMA StepStutter == FifoInv /\ UNCHANGED vars => FifoInv'
BY DEF vars, FifoInv, FifoTypeOK, SpaceInv, WriterInv, ReaderInv, Filled, Got, UpToEnd, Used

LEMMA InvStep == FifoInv /\ [Next]_vars => FifoInv'
BY StepPutCopy, StepPutWrap, StepPutPublish, StepGetCopy, StepGetWrap, StepGetPublish,
   StepPutLength, StepGetLength, StepStutter
DEF Next, Writer, Reader

LEMMA Invariance == Spec => []FifoInv
BY InitInv, InvStep, PTL DEF Spec

\* For any size of the buffer and any range of the indices, sfifo_get() hands over
\* the next bytes of the stream, in order, at every interleaving with the writer
\* (sfifo.c:53-89).
THEOREM BytesStayInOrder == Spec => []InOrder
<1>1. FifoInv => InOrder
  <2> SUFFICES ASSUME FifoInv, rpc = "publish" PROVE taken = [j \in 1..rlen |-> (getNo + j - 1) % N]
    BY DEF InOrder
  <2>1. /\ taken \in Seq(0..(N - 1)) /\ Len(taken) = rlen /\ rlen \in Nat
        /\ \A j \in 1..rlen : taken[j] = (getNo + j - 1) % N
    BY DEF FifoInv, ReaderInv, Got, FifoTypeOK
  <2> QED BY <2>1
<1> QED BY <1>1, Invariance, PTL

----------------------------------------------------------------------------
(* The refinement of BoundedFifo.                                            *)

\* The first n cells from o on hold the bytes of the stream from number k on.
Holds(b, o, n, k) == \A j \in 0..(n - 1) : b[(o + j) % Size] = (k + j) % N

\* The bytes of the stream from number k on.
Bytes(k, n) == [j \in 1..n |-> (k + j - 1) % N]

LEMMA Inside ==
    ASSUME NEW b, NEW o \in Nat, NEW u \in Nat, NEW k \in Nat,
           Holds(b, o, u, k)
    PROVE  [j \in 1..u |-> b[(o + j - 1) % Size]] = Bytes(k, u)
<1>1. ASSUME NEW j \in 1..u PROVE b[(o + j - 1) % Size] = (k + j - 1) % N
  <2> DEFINE i == j - 1
  <2>1. i \in 0..(u - 1) /\ o + j - 1 = o + i /\ k + j - 1 = k + i
    OBVIOUS
  <2> HIDE DEF i
  <2> QED BY <2>1 DEF Holds
<1> QED BY <1>1 DEF Bytes

LEMMA BytesSeq ==
    ASSUME NEW k \in Nat, NEW n \in Nat
    PROVE  Bytes(k, n) \in Seq(0..(N - 1)) /\ Len(Bytes(k, n)) = n
<1>1. ASSUME NEW j \in 1..n PROVE ((k + j - 1) % N) \in 0..(N - 1)
  <2> DEFINE x == k + j - 1
  <2>1. x \in Nat /\ N \in Nat \ {0}
    BY Constants
  <2> HIDE DEF x
  <2>2. (x % N) \in 0..(N - 1)
    BY <2>1, Remainder
  <2> QED BY <2>2 DEF x
<1> QED BY <1>1 DEF Bytes

\* The j-th byte counted from one that is numbered modulo N.
LEMMA Renumber ==
    ASSUME NEW k \in Nat, NEW n \in Nat, NEW j \in Nat \ {0}
    PROVE  (((k + n) % N) + j - 1) % N = (k + (n + j) - 1) % N
<1> DEFINE x == k + n
           i == j - 1
<1>1. x \in Nat /\ i \in Nat /\ k + (n + j) - 1 = x + i /\ N \in Nat \ {0}
  BY Constants
<1>2. (x % N) \in Nat
  BY <1>1, Remainder
<1>3. (x % N) + j - 1 = (x % N) + i
  BY <1>2
<1> HIDE DEF x, i
<1>4. ((x % N) + i) % N = (x + i) % N
  BY <1>1, Plus
<1>5. ((x % N) + j - 1) % N = (k + (n + j) - 1) % N
  BY <1>1, <1>3, <1>4
<1> QED BY <1>5 DEF x

LEMMA Extend ==
    ASSUME NEW k \in Nat, NEW u \in Nat, NEW n \in Nat
    PROVE  Bytes(k, u + n) = Bytes(k, u) \o Bytes((k + u) % N, n)
<1> DEFINE S == 0..(N - 1)
           a == Bytes(k, u)
           b == Bytes((k + u) % N, n)
           c == Bytes(k, u + n)
           v == u + n
           m == (k + u) % N
<1>1. m \in Nat /\ v \in Nat
  <2>1. k + u \in Nat /\ N \in Nat \ {0}
    BY Constants
  <2> QED BY <2>1, Remainder
<1> HIDE DEF v, m
<1>2. /\ a \in Seq(S) /\ Len(a) = u /\ b \in Seq(S) /\ Len(b) = n
      /\ c \in Seq(S) /\ Len(c) = u + n
  <2>1. a \in Seq(S) /\ Len(a) = u
    BY BytesSeq
  <2>2. Bytes(m, n) \in Seq(S) /\ Len(Bytes(m, n)) = n
    BY <1>1, BytesSeq
  <2>3. Bytes(k, v) \in Seq(S) /\ Len(Bytes(k, v)) = v
    BY <1>1, BytesSeq
  <2> QED BY <2>1, <2>2, <2>3 DEF m, v
<1>3. \A j \in 1..u : c[j] = a[j]
  BY DEF Bytes
<1>4. \A j \in 1..n : c[u + j] = b[j]
  <2> SUFFICES ASSUME NEW j \in 1..n PROVE c[u + j] = b[j]
    OBVIOUS
  <2>1. c[u + j] = (k + (u + j) - 1) % N
    BY DEF Bytes
  <2>2. b[j] = (((k + u) % N) + j - 1) % N
    BY DEF Bytes
  <2>3. (((k + u) % N) + j - 1) % N = (k + (u + j) - 1) % N
    BY Renumber
  <2> QED BY <2>1, <2>2, <2>3
<1> HIDE DEF S, a, b, c
<1>5. /\ a \o b \in Seq(S) /\ Len(a \o b) = u + n
      /\ \A j \in 1..u : (a \o b)[j] = a[j]
      /\ \A j \in 1..n : (a \o b)[u + j] = b[j]
  <2>1. a \in Seq(S) /\ b \in Seq(S)
    BY <1>2
  <2>2. /\ a \o b \in Seq(S) /\ Len(a \o b) = Len(a) + Len(b)
        /\ \A j \in 1..Len(a) : (a \o b)[j] = a[j]
        /\ \A j \in 1..Len(b) : (a \o b)[Len(a) + j] = b[j]
    BY <2>1, Concat
  <2> QED BY <1>2, <2>2
<1> DEFINE d == a \o b
<1>6. /\ d \in Seq(S) /\ Len(d) = u + n
      /\ \A j \in 1..u : d[j] = c[j]
      /\ \A j \in 1..n : d[u + j] = c[u + j]
  BY <1>3, <1>4, <1>5
<1> HIDE DEF d
<1>7. ASSUME NEW j \in 1..(u + n) PROVE d[j] = c[j]
  <2>1. CASE j <= u
    BY <1>6, <2>1
  <2>2. CASE j > u
    <3> DEFINE i == j - u
    <3>1. i \in 1..n /\ u + i = j
      BY <2>2
    <3> HIDE DEF i
    <3> QED BY <1>6, <3>1
  <2> QED BY <2>1, <2>2
<1>8. d = c
  BY <1>2, <1>6, <1>7
<1> QED BY <1>8 DEF a, b, c, d

LEMMA Drop ==
    ASSUME NEW k \in Nat, NEW u \in Nat, NEW n \in 0..u
    PROVE  Bytes((k + n) % N, u - n) = SubSeq(Bytes(k, u), n + 1, u)
<1> DEFINE S == 0..(N - 1)
           a == Bytes(k, u)
           b == Bytes((k + n) % N, u - n)
           c == SubSeq(a, n + 1, u)
           v == u - n
           m == (k + n) % N
<1>1. m \in Nat /\ v \in Nat /\ n \in Nat
  <2>1. k + n \in Nat /\ N \in Nat \ {0}
    BY Constants
  <2> QED BY <2>1, Remainder
<1> HIDE DEF v, m
<1>2. a \in Seq(S) /\ Len(a) = u /\ b \in Seq(S) /\ Len(b) = u - n
  <2>1. a \in Seq(S) /\ Len(a) = u
    BY BytesSeq
  <2>2. Bytes(m, v) \in Seq(S) /\ Len(Bytes(m, v)) = v
    BY <1>1, BytesSeq
  <2> QED BY <2>1, <2>2 DEF m, v
<1>3. ASSUME NEW j \in 1..(u - n) PROVE b[j] = a[n + j]
  <2>1. a[n + j] = (k + (n + j) - 1) % N
    BY <1>1 DEF Bytes
  <2>2. b[j] = (((k + n) % N) + j - 1) % N
    BY DEF Bytes
  <2>3. (((k + n) % N) + j - 1) % N = (k + (n + j) - 1) % N
    <3>1. n \in Nat /\ j \in Nat \ {0}
      BY <1>1
    <3> HIDE DEF S, a, b, c
    <3> QED BY <3>1, Renumber
  <2> QED BY <2>1, <2>2, <2>3
<1> HIDE DEF S, a, b
<1>4. c \in Seq(S) /\ Len(c) = u - n /\ \A j \in 1..(u - n) : c[j] = a[n + j]
  BY <1>1, <1>2
<1> HIDE DEF c
<1>5. b = c
  BY <1>1, <1>2, <1>3, <1>4
<1> QED BY <1>5 DEF a, b, c

Queue == [j \in 1..Used |-> buffer[(out + j - 1) % Size]]

\* The bytes inside are those of the stream from getNo on.
LEMMA QueueIs ==
    ASSUME FifoInv
    PROVE  /\ Queue = Bytes(getNo, Used) /\ Used \in Nat /\ Len(Queue) = Used /\ getNo \in Nat
           /\ putNo = (getNo + Used) % N
<1>1. Used \in Nat /\ out \in Nat /\ getNo \in Nat
  BY InvRoom DEF FifoInv, FifoTypeOK
<1>2. /\ putNo = (getNo + Used) % N
      /\ \A j \in 0..(Used - 1) : buffer[(out + j) % Size] = (getNo + j) % N
  BY DEF FifoInv, SpaceInv, Filled
<1> DEFINE u == Used
<1>3. u \in Nat /\ Holds(buffer, out, u, getNo)
  BY <1>1, <1>2 DEF Holds
<1> HIDE DEF u
<1>4. [j \in 1..u |-> buffer[(out + j - 1) % Size]] = Bytes(getNo, u)
  BY <1>1, <1>3, Inside
<1>5. Len(Bytes(getNo, u)) = u
  BY <1>1, <1>3, BytesSeq
<1> QED BY <1>1, <1>2, <1>4, <1>5 DEF u, Queue

LEMMA QueueNext ==
    ASSUME FifoInv'
    PROVE  Queue' = Bytes(getNo', Used')
<1>1. Used' \in Nat /\ out' \in Nat /\ getNo' \in Nat
  <2>1. Used' \in 0..(Word - 1)
    <3>1. in' \in 0..(Word - 1) /\ out' \in 0..(Word - 1)
      BY DEF FifoInv, FifoTypeOK
    <3> DEFINE i == in'
               o == out'
    <3> HIDE DEF i, o
    <3>2. i \in 0..(Word - 1) /\ o \in 0..(Word - 1)
      BY <3>1 DEF i, o
    <3>3. (i + Word - o) % Word = IF i >= o THEN i - o ELSE i + Word - o
      BY <3>2, Ahead
    <3>4. Word \in Nat
      BY Constants
    <3>5. ((i + Word - o) % Word) \in 0..(Word - 1)
      BY <3>2, <3>3, <3>4
    <3> QED BY <3>5 DEF Used, i, o
  <2> QED BY <2>1 DEF FifoInv, FifoTypeOK
<1>2. \A j \in 0..(Used' - 1) : buffer'[(out' + j) % Size] = (getNo' + j) % N
  BY DEF FifoInv, SpaceInv, Filled
<1> DEFINE u == Used'
           b == buffer'
           o == out'
           k == getNo'
<1>3. u \in Nat /\ o \in Nat /\ k \in Nat /\ Holds(b, o, u, k)
  BY <1>1, <1>2 DEF Holds
<1> HIDE DEF u, b, o, k
<1>4. [j \in 1..u |-> b[(o + j - 1) % Size]] = Bytes(k, u)
  BY <1>3, Inside
<1> QED BY <1>4 DEF u, b, o, k, Queue

LEMMA PutIsPut ==
    ASSUME FifoInv, PutPublish
    PROVE  \E n \in 0..(Size - Len(Queue)) : Fifo!Put(n)
<1> DEFINE u == Used
<1>1. /\ Queue = Bytes(getNo, u) /\ Len(Queue) = u /\ u \in Nat /\ getNo \in Nat
      /\ putNo = (getNo + u) % N
  BY QueueIs
<1>2. FifoInv' /\ Used' = u + wlen /\ wlen \in 0..(Size - u)
  BY StepPutPublish
<1>3. getNo' = getNo /\ putNo' = (putNo + wlen) % N
  BY DEF PutPublish, readerVars
<1>4. Queue' = Bytes(getNo, u + wlen)
  BY <1>2, <1>3, QueueNext
<1>5. wlen \in Nat
  BY <1>2
<1> HIDE DEF u
<1>6. Bytes(getNo, u + wlen) = Bytes(getNo, u) \o Bytes(putNo, wlen)
  BY <1>1, <1>5, Extend
<1>7. Queue' = Queue \o Bytes(putNo, wlen)
  BY <1>1, <1>4, <1>6
<1>8. Fifo!Put(wlen)
  BY <1>3, <1>7 DEF Fifo!Put, Fifo!Stream, Bytes, Queue
<1>9. wlen \in 0..(Size - Len(Queue))
  BY <1>1, <1>2
<1> QED BY <1>8, <1>9 DEF Fifo!Put

LEMMA GetIsGet ==
    ASSUME FifoInv, GetPublish
    PROVE  \E n \in 0..Len(Queue) : Fifo!Get(n)
<1> DEFINE u == Used
<1>1. /\ Queue = Bytes(getNo, u) /\ Len(Queue) = u /\ u \in Nat /\ getNo \in Nat
  BY QueueIs
<1>2. FifoInv' /\ Used' = u - rlen /\ rlen \in 0..u /\ getNo' = (getNo + rlen) % N
  BY StepGetPublish
<1>3. putNo' = putNo
  BY DEF GetPublish, writerVars
<1>4. Queue' = Bytes((getNo + rlen) % N, u - rlen)
  BY <1>2, QueueNext
<1> HIDE DEF u
<1>5. Bytes((getNo + rlen) % N, u - rlen) = SubSeq(Bytes(getNo, u), rlen + 1, u)
  BY <1>1, <1>2, Drop
<1>6. Queue' = SubSeq(Queue, rlen + 1, Len(Queue))
  BY <1>1, <1>4, <1>5
<1>7. Fifo!Get(rlen)
  BY <1>3, <1>6 DEF Fifo!Get, Queue
<1>8. rlen \in 0..Len(Queue)
  BY <1>1, <1>2
<1> QED BY <1>7, <1>8 DEF Fifo!Get

\* The other steps of both sides leave what is inside, and its numbers, alone.
LEMMA OthersKeep ==
    ASSUME FifoInv, [Next]_vars, ~PutPublish, ~GetPublish
    PROVE  UNCHANGED <<Queue, putNo>>
<1>1. UNCHANGED <<in, out, getNo, putNo>>
  <2>1. CASE Writer
    BY <2>1 DEF Writer, sfifo_put, PutFreeAgain, PutCopy, PutWrap, readerVars
  <2>2. CASE Reader
    BY <2>2 DEF Reader, sfifo_get, GetUsedAgain, GetCopy, GetWrap, writerVars
  <2>3. CASE UNCHANGED vars
    BY <2>3 DEF vars
  <2> QED BY <2>1, <2>2, <2>3 DEF Next
<1>2. Used' = Used
  BY <1>1 DEF Used
<1>3. Queue = Bytes(getNo, Used) /\ Queue' = Bytes(getNo', Used')
  BY InvStep, QueueIs, QueueNext
<1> QED BY <1>1, <1>2, <1>3

\* One writer and one reader, at any interleaving, implement a bounded fifo: the
\* bytes between the indices only grow at `in += len` and only shrink at
\* `out += len` (sfifo.c:53-89), for any size of the buffer and of the indices.
THEOREM FifoIsBounded == Spec => IsBoundedFifo
<1>1. Init => Fifo!Init
  <2> SUFFICES ASSUME Init PROVE Fifo!Init
    OBVIOUS
  <2>1. Used = 0 /\ putNo = 0
    <3>1. in = 0 /\ out = 0 /\ putNo = 0 /\ 0 \in 0..(Word - 1)
      BY Constants DEF Init
    <3> QED BY <3>1, Differences
  <2> QED BY <2>1 DEF Fifo!Init
<1>2. FifoInv /\ [Next]_vars => [Fifo!Next]_<<Queue, putNo>>
  <2> SUFFICES ASSUME FifoInv, [Next]_vars PROVE [Fifo!Next]_<<Queue, putNo>>
    OBVIOUS
  <2>1. CASE PutPublish
    BY <2>1, PutIsPut DEF Fifo!Next, Queue
  <2>2. CASE GetPublish
    BY <2>2, GetIsGet DEF Fifo!Next, Queue
  <2>3. CASE ~PutPublish /\ ~GetPublish
    BY <2>3, OthersKeep
  <2> QED BY <2>1, <2>2, <2>3
<1>3. FifoInv /\ [Next]_vars
        => [Fifo!Next]_<<[j \in 1..Used |-> buffer[(out + j - 1) % Size]], putNo>>
  BY <1>2 DEF Queue
<1> QED BY <1>1, <1>3, Invariance, PTL DEF Spec, IsBoundedFifo, Fifo!Spec

=============================================================================

--------------------------- MODULE WalFileProofs ----------------------------
(***************************************************************************)
(* What wal.log holds, for any number of processes, sizes and records, is  *)
(* read back or refused, and implements Log.                               *)
(*                                                                         *)
(* That it is read back or refused holds of any bytes.  That the log loses *)
(* nothing takes an invariant, WalInv: an append that has opened the log   *)
(* has a record to write.                                                  *)
(***************************************************************************)
EXTENDS WalFile, ListLemmas

-----------------------------------------------------------------------------
(***************************************************************************)
(* WalFile's operators, of any bytes, and the equation that readAll        *)
(* satisfies.                                                              *)
(***************************************************************************)
Byte == [id : Nat, size : Nat, at : Nat]

Recs == [id : Nat, size : Nat]

\* The operators of WalFile, of any bytes b.
span(r) == HeaderSize + r.size

byteOf(r, i) == [id |-> r.id, size |-> r.size, at |-> i]

recordIn(b, o) == [id |-> b[o + 1].id, size |-> b[o + 1].size]

behind(b, o) == o + HeaderSize + recordIn(b, o).size

StandsIn(b, o, r) == Len(b) - o >= span(r) /\ \A i \in 1 .. span(r) : b[o + i] = byteOf(r, i)

WholeIn(b) == {o \in 0 .. Len(b) - 1 : b[o + 1].at = 1 /\ StandsIn(b, o, recordIn(b, o))}

WholeOf(b) == [k \in DOMAIN InOrder(WholeIn(b)) |-> recordIn(b, InOrder(WholeIn(b))[k])]

\* What readAll does behind the first o bytes, with what it finds behind the others.
readStep(b, f, o) ==
    IF o = Len(b)
      THEN <<>>
      ELSE IF ~ StandsIn(b, o, recordIn(b, o)) \/ f[behind(b, o)] = Throws
             THEN Throws
             ELSE <<recordIn(b, o)>> \o f[behind(b, o)]

ReadFrom(f, b) == f = [o \in 0 .. Len(b) |-> readStep(b, f, o)]

readIn(b) == LET f == CHOOSE f : ReadFrom(f, b) IN f[0]

\* In the states of WalFile they are its operators.
LEMMA SameOperators == readAll = readIn(bytes) /\ WholeAt = WholeIn(bytes) /\ Whole = WholeOf(bytes)
<1>1. WholeAt = WholeIn(bytes)
  BY DEF WholeAt, StandsAt, recordAt, WholeIn, StandsIn, recordIn, span, byteOf
<1>2. Whole = WholeOf(bytes)
  BY <1>1 DEF Whole, WholeOf, recordAt, recordIn
<1>3. readAll = readIn(bytes)
  BY DEF readAll, readIn, ReadFrom, readStep, recordAt, recordIn, behind, StandsAt, StandsIn, span, byteOf
<1> QED
  BY <1>1, <1>2, <1>3

\* The record behind the first o bytes.
LEMMA RecordIn ==
  ASSUME NEW b \in Seq(Byte), NEW o \in 0 .. Len(b) - 1
  PROVE  /\ recordIn(b, o) \in Recs /\ span(recordIn(b, o)) \in Nat /\ span(recordIn(b, o)) >= 1
         /\ behind(b, o) = o + span(recordIn(b, o))
<1>1. o + 1 \in 1 .. Len(b)
  BY LenProperties
<1>2. b[o + 1] \in Byte
  BY <1>1, ElementOfSeq
<1>3. recordIn(b, o) \in Recs /\ recordIn(b, o).size \in Nat
  BY <1>2 DEF recordIn, Recs, Byte
<1> QED
  BY <1>3, WalFileAssumption DEF span, behind

\* readAll satisfies the equation it is defined by.
LEMMA ReadDefined ==
  ASSUME NEW b \in Seq(Byte)
  PROVE  \E f : ReadFrom(f, b) /\ readIn(b) = f[0]
<1>l. PICK L \in Nat : L = Len(b)
  BY LenProperties
<1> DEFINE Good(f, d) == /\ f = [o \in 0 .. L |-> f[o]]
                         /\ \A o \in L - d .. L : f[o] = readStep(b, f, o)
           P == {d \in 0 .. L : \E f : Good(f, d)}
<1>1. ASSUME NEW f, NEW g, NEW o \in 0 .. L, \A j \in o + 1 .. L : f[j] = g[j]
      PROVE  readStep(b, f, o) = readStep(b, g, o)
  <2>1. CASE o = L
    BY <1>l, <2>1 DEF readStep
  <2>2. CASE o # L /\ ~ StandsIn(b, o, recordIn(b, o))
    BY <1>l, <2>2 DEF readStep
  <2>3. CASE o # L /\ StandsIn(b, o, recordIn(b, o))
    <3>1. PICK n \in Nat : n = span(recordIn(b, o)) /\ n >= 1 /\ behind(b, o) = o + n
      <4>1. o \in 0 .. Len(b) - 1
        BY <1>l, <2>3
      <4> QED
        BY <4>1, RecordIn
    <3>2. L - o >= n
      BY <1>l, <2>3, <3>1 DEF StandsIn
    <3>3. o + n \in o + 1 .. L
      BY <3>1, <3>2
    <3>4. f[o + n] = g[o + n]
      BY <1>1, <3>3
    <3> QED
      BY <3>1, <3>4 DEF readStep
  <2> QED
    BY <2>1, <2>2, <2>3
<1>2. 0 \in P
  <2> DEFINE f == [o \in 0 .. L |-> <<>>]
  <2>1. readStep(b, f, L) = <<>>
    BY <1>l DEF readStep
  <2>2. \A o \in L - 0 .. L : o = L
    OBVIOUS
  <2>3. f = [o \in 0 .. L |-> f[o]] /\ f[L] = <<>>
    OBVIOUS
  <2> HIDE DEF f
  <2>4. Good(f, 0)
    BY <2>1, <2>2, <2>3
  <2> HIDE DEF Good
  <2> QED
    BY <2>4
<1>3. ASSUME NEW d \in 1 .. L, d - 1 \in P
      PROVE  d \in P
  <2>1. PICK g : Good(g, d - 1)
    BY <1>3
  <2> DEFINE h == L - d
             f == [o \in 0 .. L |-> IF o = h THEN readStep(b, g, o) ELSE g[o]]
  <2>2. h \in 0 .. L /\ L - (d - 1) = h + 1
    OBVIOUS
  <2>3. /\ f = [o \in 0 .. L |-> f[o]] /\ f[h] = readStep(b, g, h)
        /\ \A o \in 0 .. L : o # h => f[o] = g[o]
    BY <2>2
  <2>d. L - d = h
    OBVIOUS
  <2> HIDE DEF f, h
  <2>4. ASSUME NEW o \in h .. L
        PROVE  f[o] = readStep(b, f, o)
    <3>1. o \in 0 .. L /\ \A j \in o + 1 .. L : j \in 0 .. L /\ j # h
      BY <2>2
    <3>2. readStep(b, f, o) = readStep(b, g, o)
      <4>1. \A j \in o + 1 .. L : f[j] = g[j]
        BY <2>3, <3>1
      <4> QED
        BY <1>1, <3>1, <4>1
    <3>3. CASE o = h
      BY <2>3, <3>2, <3>3
    <3>4. CASE o # h
      <4>1. o \in h + 1 .. L
        BY <2>2, <3>4
      <4>2. g[o] = readStep(b, g, o)
        BY <2>1, <2>2, <4>1
      <4> QED
        BY <2>3, <3>1, <3>2, <3>4, <4>2
    <3> QED
      BY <3>3, <3>4
  <2>5. Good(f, d)
    BY <2>3, <2>4, <2>d
  <2> HIDE DEF Good
  <2> QED
    BY <2>5
<1>4. PICK g : Good(g, L)
  <2>1. 0 \in P /\ \A d \in 1 .. L : d - 1 \in P => d \in P
    BY <1>2, <1>3
  <2>2. L \in 0 .. L
    OBVIOUS
  <2>3. L \in P
    <3> HIDE DEF P
    <3> QED
      BY <2>1, <2>2, UpToInduction
  <2> HIDE DEF Good
  <2> QED
    BY <2>3
<1>5. ReadFrom(g, b)
  <2>1. \A o \in 0 .. L : o \in L - L .. L
    OBVIOUS
  <2>2. \A o \in 0 .. L : g[o] = readStep(b, g, o)
    BY <1>4, <2>1
  <2>3. g = [o \in 0 .. L |-> g[o]]
    BY <1>4
  <2> QED
    BY <1>l, <2>2, <2>3 DEF ReadFrom
<1> DEFINE F == CHOOSE f : ReadFrom(f, b)
<1>6. ReadFrom(F, b)
  BY <1>5
<1>7. readIn(b) = F[0]
  BY DEF readIn
<1> HIDE DEF F
<1> QED
  BY <1>6, <1>7

-----------------------------------------------------------------------------
(***************************************************************************)
(* Records that lie side by side.                                          *)
(***************************************************************************)
\* The bytes of the records rs lie one behind the other from o to the end of b,
\* and e says where each of them ends.
TilesFrom(b, o, rs, e) ==
    /\ rs \in Seq(Recs) /\ e \in [0 .. Len(rs) -> Nat] /\ e[0] = o /\ e[Len(rs)] = Len(b)
    /\ \A k \in 1 .. Len(rs) : e[k] = e[k - 1] + span(rs[k]) /\ StandsIn(b, e[k - 1], rs[k])

\* A record has a byte at least, and its first byte says which it is.
LEMMA StandsFor ==
  ASSUME NEW b, Len(b) \in Nat, NEW o \in Nat, NEW r \in Recs, StandsIn(b, o, r)
  PROVE  /\ span(r) \in Nat /\ span(r) >= 1 /\ o + span(r) <= Len(b) /\ o < Len(b)
         /\ recordIn(b, o) = r /\ b[o + 1].at = 1
<1>1. span(r) \in Nat /\ span(r) >= 1 /\ r.size \in Nat
  BY WalFileAssumption DEF span, Recs
<1>2. Len(b) - o >= span(r)
  BY DEF StandsIn
<1>3. 1 \in 1 .. span(r)
  BY <1>1
<1>4. b[o + 1] = byteOf(r, 1)
  BY <1>3 DEF StandsIn
<1>5. r = [id |-> r.id, size |-> r.size]
  BY DEF Recs
<1> QED
  BY <1>1, <1>2, <1>4, <1>5 DEF byteOf, recordIn

\* One record more in front.
LEMMA TileMore ==
  ASSUME NEW b, Len(b) \in Nat, NEW o \in Nat, NEW r \in Recs, StandsIn(b, o, r),
         NEW rs, NEW d, TilesFrom(b, o + span(r), rs, d)
  PROVE  \E e : TilesFrom(b, o, <<r>> \o rs, e)
<1>n. PICK n \in Nat : n = Len(rs)
  BY LenProperties DEF TilesFrom
<1>1. /\ rs \in Seq(Recs) /\ d \in [0 .. n -> Nat] /\ d[0] = o + span(r) /\ d[n] = Len(b)
      /\ \A k \in 1 .. n : d[k] = d[k - 1] + span(rs[k]) /\ StandsIn(b, d[k - 1], rs[k])
  BY <1>n DEF TilesFrom
<1> DEFINE t == <<r>> \o rs
           e == [k \in 0 .. n + 1 |-> IF k = 0 THEN o ELSE d[k - 1]]
<1>2. t \in Seq(Recs) /\ Len(t) = n + 1 /\ t[1] = r /\ \A k \in 1 .. n : t[1 + k] = rs[k]
  <2>1. <<r>> \in Seq(Recs) /\ Len(<<r>>) = 1 /\ <<r>>[1] = r
    OBVIOUS
  <2>2. PICK q \in Seq(Recs) : q = <<r>> /\ Len(q) = 1 /\ q[1] = r
    BY <2>1
  <2>3. t = q \o rs
    BY <2>2
  <2>4. t \in Seq(Recs) /\ IsConcat(t, q, rs)
    BY <1>1, <2>3, ConcatAt
  <2> HIDE DEF t
  <2>5. 1 \in 1 .. 1
    OBVIOUS
  <2>6. Len(t) = 1 + n /\ t[1] = r /\ \A k \in 1 .. n : t[1 + k] = rs[k]
    BY <1>n, <2>2, <2>4, <2>5 DEF IsConcat
  <2>7. 1 + n = n + 1
    OBVIOUS
  <2> QED
    BY <2>4, <2>6, <2>7
<1>3. /\ e \in [0 .. n + 1 -> Nat] /\ e[0] = o
      /\ \A k \in 1 .. n + 1 : e[k] = d[k - 1] /\ k - 1 \in 0 .. n
  <2>1. \A k \in 0 .. n + 1 : k = 0 \/ (k # 0 /\ k - 1 \in 0 .. n)
    OBVIOUS
  <2>2. e \in [0 .. n + 1 -> Nat]
    BY <1>1, <2>1
  <2>3. \A k \in 1 .. n + 1 : k \in 0 .. n + 1 /\ k # 0 /\ k - 1 \in 0 .. n
    OBVIOUS
  <2> QED
    BY <2>2, <2>3
<1> HIDE DEF t, e
<1>4. ASSUME NEW k \in 1 .. n + 1
      PROVE  e[k] = e[k - 1] + span(t[k]) /\ StandsIn(b, e[k - 1], t[k])
  <2>1. CASE k = 1
    <3>1. k - 1 = 0 /\ e[1] = d[0] /\ t[1] = r
      BY <1>2, <1>3, <2>1
    <3> QED
      BY <1>1, <1>3, <2>1, <3>1
  <2>2. CASE k # 1
    <3>1. k - 1 \in 1 .. n /\ k - 1 \in 1 .. n + 1 /\ 1 + (k - 1) = k
      BY <2>2
    <3>2. e[k] = d[k - 1] /\ e[k - 1] = d[(k - 1) - 1] /\ t[k] = rs[k - 1]
      BY <1>2, <1>3, <3>1
    <3> QED
      BY <1>1, <3>1, <3>2
  <2> QED
    BY <2>1, <2>2
<1>5. e[n + 1] = Len(b)
  <2>1. n + 1 \in 1 .. n + 1 /\ (n + 1) - 1 = n
    OBVIOUS
  <2> QED
    BY <1>1, <1>3, <2>1
<1>6. TilesFrom(b, o, t, e)
  BY <1>2, <1>3, <1>4, <1>5 DEF TilesFrom
<1> QED
  BY <1>6 DEF t

\* One record less in front.
LEMMA TileLess ==
  ASSUME NEW b, Len(b) \in Nat, NEW o \in Nat, NEW rs, NEW e, TilesFrom(b, o, rs, e), rs # <<>>
  PROVE  /\ rs[1] \in Recs /\ StandsIn(b, o, rs[1])
         /\ rs = <<rs[1]>> \o Tail(rs) /\ Tail(rs) \in Seq(Recs)
         /\ \E d : TilesFrom(b, o + span(rs[1]), Tail(rs), d)
<1>n. PICK n \in Nat : n = Len(rs)
  BY LenProperties DEF TilesFrom
<1>1. /\ rs \in Seq(Recs) /\ e \in [0 .. n -> Nat] /\ e[0] = o /\ e[n] = Len(b)
      /\ \A k \in 1 .. n : e[k] = e[k - 1] + span(rs[k]) /\ StandsIn(b, e[k - 1], rs[k])
  BY <1>n DEF TilesFrom
<1>2. n # 0
  BY <1>n, <1>1, EmptySeq
<1>3. 1 \in 1 .. n /\ 1 - 1 = 0
  BY <1>2
<1>4. rs[1] \in Recs /\ StandsIn(b, o, rs[1]) /\ e[1] = o + span(rs[1])
  <2>1. rs[1] \in Recs
    BY <1>1, <1>3, <1>n, ElementOfSeq
  <2> QED
    BY <1>1, <1>3, <2>1
<1> DEFINE t == Tail(rs)
           d == [k \in 0 .. n - 1 |-> e[k + 1]]
<1>5. t \in Seq(Recs) /\ Len(t) = n - 1 /\ \A k \in 1 .. n - 1 : t[k] = rs[k + 1]
  BY <1>1, <1>2, <1>n
<1>6. d \in [0 .. n - 1 -> Nat] /\ \A k \in 0 .. n - 1 : d[k] = e[k + 1]
  <2>1. \A k \in 0 .. n - 1 : k + 1 \in 0 .. n
    BY <1>2
  <2> QED
    BY <1>1, <2>1
<1> HIDE DEF t, d
<1>7. ASSUME NEW k \in 1 .. n - 1
      PROVE  d[k] = d[k - 1] + span(t[k]) /\ StandsIn(b, d[k - 1], t[k])
  <2>1. k \in 0 .. n - 1 /\ k - 1 \in 0 .. n - 1 /\ (k - 1) + 1 = k /\ k + 1 \in 1 .. n /\ (k + 1) - 1 = k
    OBVIOUS
  <2>2. d[k] = e[k + 1] /\ d[k - 1] = e[k] /\ t[k] = rs[k + 1]
    BY <1>5, <1>6, <2>1
  <2> QED
    BY <1>1, <2>1, <2>2
<1>8. d[0] = o + span(rs[1]) /\ d[n - 1] = Len(b)
  <2>1. 0 \in 0 .. n - 1 /\ n - 1 \in 0 .. n - 1 /\ 0 + 1 = 1 /\ (n - 1) + 1 = n
    BY <1>2
  <2> QED
    BY <1>1, <1>4, <1>6, <2>1
<1>9. TilesFrom(b, o + span(rs[1]), t, d)
  BY <1>5, <1>6, <1>7, <1>8 DEF TilesFrom
<1>10. rs = <<rs[1]>> \o t
  <2>1. PICK r \in Recs : r = rs[1]
    BY <1>4
  <2>2. PICK q \in Seq(Recs) : q = <<r>> /\ Len(q) = 1 /\ q[1] = r
    <3>1. <<r>> \in Seq(Recs) /\ Len(<<r>>) = 1 /\ <<r>>[1] = r
      OBVIOUS
    <3> QED
      BY <3>1
  <2>3. q \o t \in Seq(Recs) /\ IsConcat(q \o t, q, t)
    BY <1>5, ConcatAt
  <2>4. PICK u \in Seq(Recs) : u = q \o t
    BY <2>3
  <2>5. Len(u) = 1 + (n - 1) /\ (\A k \in 1 .. 1 : u[k] = q[k]) /\ \A k \in 1 .. n - 1 : u[1 + k] = t[k]
    BY <1>5, <2>2, <2>3, <2>4 DEF IsConcat
  <2>6. ASSUME NEW k \in 1 .. n PROVE u[k] = rs[k]
    <3>1. CASE k = 1
      <4>1. 1 \in 1 .. 1
        OBVIOUS
      <4> QED
        BY <2>1, <2>2, <2>5, <3>1, <4>1
    <3>2. CASE k # 1
      <4>1. k - 1 \in 1 .. n - 1 /\ 1 + (k - 1) = k /\ (k - 1) + 1 = k
        BY <3>2
      <4> QED
        BY <1>5, <2>5, <4>1
    <3> QED
      BY <3>1, <3>2
  <2>7. Len(u) = n
    BY <2>5
  <2>8. u = rs
    BY <1>1, <1>n, <2>6, <2>7, SeqEqual
  <2> QED
    BY <2>1, <2>2, <2>4, <2>8
<1> QED
  BY <1>4, <1>5, <1>9, <1>10 DEF t

\* What readAll returns are records that lie one behind the other to the end.
LEMMA ReadTiles ==
  ASSUME NEW b \in Seq(Byte), NEW f, ReadFrom(f, b)
  PROVE  \A o \in 0 .. Len(b) : f[o] # Throws => \E e : TilesFrom(b, o, f[o], e)
<1>l. PICK L \in Nat : L = Len(b)
  BY LenProperties
<1> DEFINE P == {o \in 0 .. L : f[o] # Throws => \E e : TilesFrom(b, o, f[o], e)}
<1>0. \A o \in 0 .. L : f[o] = readStep(b, f, o)
  BY <1>l DEF ReadFrom
<1>1. ASSUME NEW o \in 0 .. L, \A j \in 0 .. L : o < j => j \in P
      PROVE  o \in P
  <2> SUFFICES ASSUME f[o] # Throws PROVE \E e : TilesFrom(b, o, f[o], e)
    OBVIOUS
  <2>1. CASE o = L
    <3>1. f[o] = <<>>
      BY <1>0, <1>l, <2>1 DEF readStep
    <3> DEFINE e == [k \in 0 .. 0 |-> L]
    <3>2. e \in [0 .. 0 -> Nat] /\ e[0] = L
      OBVIOUS
    <3>3. <<>> \in Seq(Recs) /\ Len(<<>>) = 0
      OBVIOUS
    <3>4. \A k : k \notin 1 .. 0
      OBVIOUS
    <3> HIDE DEF e
    <3>5. TilesFrom(b, o, <<>>, e)
      BY <1>l, <2>1, <3>2, <3>3, <3>4 DEF TilesFrom
    <3> QED
      BY <3>1, <3>5
  <2>2. CASE o # L
    <3>1. PICK r \in Recs : r = recordIn(b, o)
      <4>1. o \in 0 .. Len(b) - 1
        BY <1>l, <2>2
      <4> QED
        BY <4>1, RecordIn
    <3>2. PICK n \in Nat : n = span(r) /\ n >= 1 /\ behind(b, o) = o + n
      <4>1. o \in 0 .. Len(b) - 1
        BY <1>l, <2>2
      <4> QED
        BY <3>1, <4>1, RecordIn
    <3>3. StandsIn(b, o, r) /\ f[o + n] # Throws /\ f[o] = <<r>> \o f[o + n]
      BY <1>0, <1>l, <2>2, <3>1, <3>2 DEF readStep
    <3>4. o + n <= L
      BY <1>l, <3>2, <3>3, StandsFor
    <3>5. o + n \in 0 .. L /\ o < o + n
      BY <3>2, <3>4
    <3>6. PICK d : TilesFrom(b, o + n, f[o + n], d)
      BY <1>1, <3>3, <3>5
    <3>7. Len(b) \in Nat /\ o \in Nat /\ TilesFrom(b, o + span(r), f[o + n], d)
      BY <1>l, <3>2, <3>6
    <3>8. \E e : TilesFrom(b, o, <<r>> \o f[o + n], e)
      BY <3>3, <3>7, TileMore
    <3> QED
      BY <3>3, <3>8
  <2> QED
    BY <2>1, <2>2
<1>2. \A o \in 0 .. L : o \in P
  <2> HIDE DEF P
  <2> QED
    BY <1>1, DownInduction
<1> QED
  BY <1>2, <1>l

\* And if records lie so, it returns them.
LEMMA TilesRead ==
  ASSUME NEW b \in Seq(Byte), NEW f, ReadFrom(f, b)
  PROVE  \A o \in 0 .. Len(b) : \A rs, e : TilesFrom(b, o, rs, e) => f[o] = rs
<1>l. PICK L \in Nat : L = Len(b)
  BY LenProperties
<1> DEFINE P == {o \in 0 .. L : \A rs, e : TilesFrom(b, o, rs, e) => f[o] = rs}
<1>0. \A o \in 0 .. L : f[o] = readStep(b, f, o)
  BY <1>l DEF ReadFrom
<1>1. ASSUME NEW o \in 0 .. L, \A j \in 0 .. L : o < j => j \in P
      PROVE  o \in P
  <2> SUFFICES ASSUME NEW rs, NEW e, TilesFrom(b, o, rs, e) PROVE f[o] = rs
    OBVIOUS
  <2>1. CASE rs = <<>>
    <3>1. e[0] = o /\ e[0] = Len(b)
      BY <2>1 DEF TilesFrom
    <3> QED
      BY <1>0, <1>l, <2>1, <3>1 DEF readStep
  <2>2. CASE rs # <<>>
    <3>0. /\ rs[1] \in Recs /\ StandsIn(b, o, rs[1])
          /\ rs = <<rs[1]>> \o Tail(rs) /\ Tail(rs) \in Seq(Recs)
          /\ \E d : TilesFrom(b, o + span(rs[1]), Tail(rs), d)
      <4>1. Len(b) \in Nat /\ o \in Nat
        BY <1>l
      <4> QED
        BY <2>2, <4>1, TileLess
    <3>1. PICK r \in Recs : r = rs[1]
      BY <3>0
    <3>2. PICK t \in Seq(Recs) : t = Tail(rs)
      BY <3>0
    <3>3. StandsIn(b, o, r) /\ rs = <<r>> \o t
      BY <3>0, <3>1, <3>2
    <3>4. PICK d : TilesFrom(b, o + span(r), t, d)
      BY <3>0, <3>1, <3>2
    <3>5. recordIn(b, o) = r /\ o + span(r) <= L /\ o < L /\ span(r) \in Nat /\ span(r) >= 1
      BY <1>l, <3>3, StandsFor
    <3>6. o + span(r) \in 0 .. L /\ o < o + span(r)
      BY <3>5
    <3>7. f[o + span(r)] = t
      BY <1>1, <3>4, <3>6
    <3>8. t # Throws
      BY WalFileAssumption DEF Recs
    <3>9. behind(b, o) = o + span(r)
      <4>1. o \in 0 .. Len(b) - 1
        BY <1>l, <3>5
      <4> QED
        BY <3>5, <4>1, RecordIn
    <3>10. o # Len(b)
      BY <1>l, <3>5
    <3> QED
      BY <1>0, <3>3, <3>5, <3>7, <3>8, <3>9, <3>10 DEF readStep
  <2> QED
    BY <2>1, <2>2
<1>2. \A o \in 0 .. L : o \in P
  <2> HIDE DEF P
  <2> QED
    BY <1>1, DownInduction
<1> QED
  BY <1>2, <1>l

\* The bytes of a record.
LEMMA EncodeRecord ==
  ASSUME NEW r \in Recs
  PROVE  /\ span(r) \in Nat /\ span(r) >= 1
         /\ encodeRecord(r) \in Seq(Byte) /\ Len(encodeRecord(r)) = span(r)
         /\ \A i \in 1 .. span(r) : encodeRecord(r)[i] = byteOf(r, i)
<1>1. span(r) \in Nat /\ span(r) >= 1 /\ r.size \in Nat /\ r.id \in Nat
  BY WalFileAssumption DEF span, Recs
<1>2. encodeRecord(r) = [i \in 1 .. span(r) |-> byteOf(r, i)]
  BY DEF encodeRecord, byteOf, span
<1>3. \A i \in 1 .. span(r) : byteOf(r, i) \in Byte
  BY <1>1 DEF byteOf, Byte
<1> QED
  BY <1>1, <1>2, <1>3

\* encodeAll puts the records one behind the other, and nothing else does.
LEMMA EncodeTiles ==
  ASSUME NEW rs \in Seq(Recs), NEW b \in Seq(Byte)
  PROVE  encodeAll(rs) = b <=> \E e : TilesFrom(b, 0, rs, e)
<1>n. PICK n \in Nat : n = Len(rs)
  BY LenProperties
<1>d. DOMAIN rs = 1 .. n /\ \A k \in 1 .. n : rs[k] \in Recs
  BY <1>n, ElementOfSeq, LenProperties
<1> DEFINE cs == [k \in DOMAIN rs |-> encodeRecord(rs[k])]
<1>1. encodeAll(rs) = FlattenSeq(cs)
  BY DEF encodeAll
<1>2. cs \in Seq(Seq(Byte)) /\ Len(cs) = n /\ \A k \in 1 .. n : cs[k] = encodeRecord(rs[k])
  <2>1. cs = [k \in 1 .. n |-> encodeRecord(rs[k])]
    BY <1>d
  <2>2. \A k \in 1 .. n : encodeRecord(rs[k]) \in Seq(Byte)
    BY <1>d, EncodeRecord
  <2> QED
    BY <2>1, <2>2
<1> HIDE DEF cs
<1>3. \A k \in 1 .. n : /\ Len(cs[k]) = span(rs[k]) /\ span(rs[k]) \in Nat
                        /\ \A i \in 1 .. span(rs[k]) : cs[k][i] = byteOf(rs[k], i)
  BY <1>d, <1>2, EncodeRecord
<1>4. ASSUME encodeAll(rs) = b PROVE \E e : TilesFrom(b, 0, rs, e)
  <2>1. PICK e : EndsOf(cs, e)
    BY <1>2, EndsExist
  <2>2. e \in [0 .. n -> Nat] /\ e[0] = 0 /\ \A k \in 1 .. n : e[k] = e[k - 1] + span(rs[k])
    BY <1>2, <1>3, <2>1 DEF EndsOf
  <2>3. /\ Len(b) = e[n]
        /\ \A c \in 1 .. n : \A j \in 1 .. Len(cs[c]) : b[e[c - 1] + j] = cs[c][j]
    <3>1. /\ Len(FlattenSeq(cs)) = e[Len(cs)]
          /\ \A c \in 1 .. Len(cs) : \A j \in 1 .. Len(cs[c]) :
                /\ e[c - 1] + j \in 1 .. Len(FlattenSeq(cs))
                /\ FlattenSeq(cs)[e[c - 1] + j] = cs[c][j]
      <4>1. cs \in Seq(Seq(Byte)) /\ EndsOf(cs, e)
        BY <1>2, <2>1
      <4> QED
        BY <4>1, FlattenAt
    <3>2. FlattenSeq(cs) = b
      BY <1>1, <1>4
    <3> QED
      BY <1>2, <3>1, <3>2
  <2>4. \A j, k \in 0 .. n : j <= k => e[j] <= e[k]
    BY <1>2, <2>1, PieceOf
  <2>5. ASSUME NEW k \in 1 .. n PROVE StandsIn(b, e[k - 1], rs[k])
    <3>1. k \in 0 .. n /\ n \in 0 .. n /\ k <= n /\ k - 1 \in 0 .. n
      OBVIOUS
    <3>2. e[k] <= e[n] /\ e[k] = e[k - 1] + span(rs[k]) /\ e[k - 1] \in Nat /\ e[n] \in Nat /\ span(rs[k]) \in Nat
      BY <1>3, <2>2, <2>4, <3>1
    <3>3. Len(b) - e[k - 1] >= span(rs[k])
      BY <2>3, <3>2
    <3>4. \A i \in 1 .. span(rs[k]) : b[e[k - 1] + i] = byteOf(rs[k], i)
      BY <1>3, <2>3
    <3> QED
      BY <3>3, <3>4 DEF StandsIn
  <2>6. TilesFrom(b, 0, rs, e)
    BY <1>n, <2>2, <2>3, <2>5 DEF TilesFrom
  <2> QED
    BY <2>6
<1>5. ASSUME NEW e, TilesFrom(b, 0, rs, e) PROVE encodeAll(rs) = b
  <2>1. /\ e \in [0 .. n -> Nat] /\ e[0] = 0 /\ e[n] = Len(b)
        /\ \A k \in 1 .. n : e[k] = e[k - 1] + span(rs[k]) /\ StandsIn(b, e[k - 1], rs[k])
    BY <1>5, <1>n DEF TilesFrom
  <2>2. EndsOf(cs, e)
    BY <1>2, <1>3, <2>1 DEF EndsOf
  <2>3. ASSUME NEW c \in 1 .. n, NEW j \in 1 .. Len(cs[c]) PROVE b[e[c - 1] + j] = cs[c][j]
    <3>1. StandsIn(b, e[c - 1], rs[c]) /\ j \in 1 .. span(rs[c])
      BY <1>3, <2>1
    <3> QED
      BY <1>3, <3>1 DEF StandsIn
  <2>4. FlattenSeq(cs) = b
    <3>1. /\ Len(b) = e[Len(cs)]
          /\ \A c \in 1 .. Len(cs) : \A j \in 1 .. Len(cs[c]) : b[e[c - 1] + j] = cs[c][j]
      BY <1>2, <2>1, <2>3
    <3> QED
      BY <1>2, <2>2, <3>1, FlattenIs
  <2> QED
    BY <1>1, <2>4
<1> QED
  BY <1>4, <1>5

\* The ends of the records go up, and every byte is in one of them.
LEMMA TileEnds ==
  ASSUME NEW b \in Seq(Byte), NEW rs, NEW e, TilesFrom(b, 0, rs, e)
  PROVE  /\ \A j, k \in 0 .. Len(rs) : j < k => e[j] < e[k]
         /\ \A i \in 1 .. Len(b) : \E k \in 1 .. Len(rs) : e[k - 1] < i /\ i <= e[k]
<1>n. PICK n \in Nat : n = Len(rs)
  BY LenProperties DEF TilesFrom
<1>1. /\ rs \in Seq(Recs) /\ e \in [0 .. n -> Nat] /\ e[0] = 0 /\ e[n] = Len(b)
      /\ \A k \in 1 .. n : e[k] = e[k - 1] + span(rs[k]) /\ StandsIn(b, e[k - 1], rs[k])
  BY <1>n DEF TilesFrom
<1>d. DOMAIN rs = 1 .. n /\ \A k \in 1 .. n : rs[k] \in Recs
  BY <1>1, <1>n, ElementOfSeq, LenProperties
<1> DEFINE cs == [k \in 1 .. n |-> encodeRecord(rs[k])]
<1>2. cs \in Seq(Seq(Byte)) /\ Len(cs) = n /\ \A k \in 1 .. n : cs[k] = encodeRecord(rs[k])
  <2>1. \A k \in 1 .. n : encodeRecord(rs[k]) \in Seq(Byte)
    BY <1>d, EncodeRecord
  <2> QED
    BY <2>1
<1> HIDE DEF cs
<1>3. \A k \in 1 .. n : Len(cs[k]) = span(rs[k]) /\ span(rs[k]) \in Nat /\ span(rs[k]) >= 1
  BY <1>d, <1>2, EncodeRecord
<1>4. EndsOf(cs, e)
  BY <1>1, <1>2, <1>3 DEF EndsOf
<1>5. /\ \A j, k \in 0 .. n : j <= k => e[j] <= e[k]
      /\ \A i \in 1 .. e[n] : \E k \in 1 .. n : e[k - 1] < i /\ i <= e[k]
  BY <1>2, <1>4, PieceOf
<1>6. ASSUME NEW j \in 0 .. n, NEW k \in 0 .. n, j < k PROVE e[j] < e[k]
  <2>1. k \in 1 .. n /\ k - 1 \in 0 .. n /\ j <= k - 1
    BY <1>6
  <2>2. e[j] <= e[k - 1] /\ e[k] = e[k - 1] + span(rs[k]) /\ span(rs[k]) \in Nat /\ span(rs[k]) >= 1
        /\ e[j] \in Nat /\ e[k - 1] \in Nat
    BY <1>1, <1>3, <1>5, <2>1
  <2> QED
    BY <2>2
<1> QED
  BY <1>1, <1>5, <1>6, <1>n

\* Where the records lie one behind the other, they are all that is whole.
LEMMA TilesWhole ==
  ASSUME NEW b \in Seq(Byte), NEW rs, NEW e, TilesFrom(b, 0, rs, e)
  PROVE  WholeOf(b) = rs /\ \A k \in 1 .. Len(rs) : e[k - 1] \in WholeIn(b)
<1>n. PICK n \in Nat : n = Len(rs)
  BY LenProperties DEF TilesFrom
<1>l. PICK L \in Nat : L = Len(b)
  BY LenProperties
<1>1. /\ rs \in Seq(Recs) /\ e \in [0 .. n -> Nat] /\ e[0] = 0 /\ e[n] = L
      /\ \A k \in 1 .. n : e[k] = e[k - 1] + span(rs[k]) /\ StandsIn(b, e[k - 1], rs[k])
  BY <1>l, <1>n DEF TilesFrom
<1>d. DOMAIN rs = 1 .. n /\ \A k \in 1 .. n : rs[k] \in Recs
  BY <1>1, <1>n, ElementOfSeq, LenProperties
<1>2. /\ \A j, k \in 0 .. n : j < k => e[j] < e[k]
      /\ \A i \in 1 .. L : \E k \in 1 .. n : e[k - 1] < i /\ i <= e[k]
  BY <1>l, <1>n, TileEnds
<1>3. \A k \in 1 .. n : k - 1 \in 0 .. n /\ k \in 0 .. n
  OBVIOUS
<1>4. ASSUME NEW k \in 1 .. n
      PROVE  e[k - 1] \in 0 .. L - 1 /\ recordIn(b, e[k - 1]) = rs[k] /\ b[e[k - 1] + 1].at = 1
  <2>1. e[k - 1] \in Nat /\ rs[k] \in Recs /\ StandsIn(b, e[k - 1], rs[k])
    BY <1>1, <1>3, <1>d
  <2>2. Len(b) \in Nat
    BY <1>l
  <2>3. e[k - 1] < Len(b) /\ recordIn(b, e[k - 1]) = rs[k] /\ b[e[k - 1] + 1].at = 1
    BY <2>1, <2>2, StandsFor
  <2> QED
    BY <1>l, <2>1, <2>3
<1> DEFINE d == [k \in 1 .. n |-> e[k - 1]]
           S == WholeIn(b)
<1>5. ASSUME NEW k \in 1 .. n PROVE e[k - 1] \in S
  <2>1. StandsIn(b, e[k - 1], recordIn(b, e[k - 1]))
    BY <1>1, <1>4
  <2> QED
    BY <1>4, <1>l, <2>1 DEF WholeIn
<1>6. ASSUME NEW o \in S PROVE \E k \in 1 .. n : o = e[k - 1]
  <2>1. o \in 0 .. L - 1 /\ b[o + 1].at = 1
    BY <1>l DEF WholeIn
  <2>2. o + 1 \in 1 .. L
    BY <2>1
  <2>3. PICK k \in 1 .. n : e[k - 1] < o + 1 /\ o + 1 <= e[k]
    BY <1>2, <2>2
  <2>4. e[k - 1] \in Nat /\ e[k] \in Nat /\ e[k] = e[k - 1] + span(rs[k]) /\ StandsIn(b, e[k - 1], rs[k])
        /\ span(rs[k]) \in Nat
    BY <1>1, <1>3, <1>d, EncodeRecord
  <2>5. PICK i : i = o + 1 - e[k - 1]
    OBVIOUS
  <2>6. i \in 1 .. span(rs[k]) /\ e[k - 1] + i = o + 1
    <3>1. PICK m \in Nat : m = span(rs[k])
      BY <2>4
    <3>2. PICK a \in Nat : a = e[k - 1]
      BY <2>4
    <3>3. a < o + 1 /\ o + 1 <= a + m /\ o \in Nat
      BY <2>1, <2>3, <2>4, <3>1, <3>2
    <3>4. o + 1 - a \in 1 .. m /\ a + (o + 1 - a) = o + 1
      BY <3>3
    <3> QED
      BY <2>5, <3>1, <3>2, <3>4
  <2>7. b[o + 1] = byteOf(rs[k], i)
    BY <2>4, <2>6 DEF StandsIn
  <2>8. i = 1
    BY <2>1, <2>7 DEF byteOf
  <2>9. o = e[k - 1]
    BY <2>1, <2>4, <2>6, <2>8
  <2> QED
    BY <2>9
<1>7. S = {d[k] : k \in 1 .. n} /\ \A k \in 1 .. n : d[k] = e[k - 1] /\ d[k] \in 0 .. L
  <2>1. \A k \in 1 .. n : d[k] = e[k - 1]
    OBVIOUS
  <2> HIDE DEF d, S
  <2>2. S = {d[k] : k \in 1 .. n}
    BY <1>5, <1>6, <2>1
  <2>3. \A x \in 0 .. L - 1 : x \in 0 .. L
    OBVIOUS
  <2> QED
    BY <1>4, <2>1, <2>2, <2>3
<1> HIDE DEF d, S
<1>8. Increasing(d, n)
  <2> SUFFICES ASSUME NEW i \in 1 .. n, NEW j \in 1 .. n, i < j PROVE d[i] < d[j]
    BY DEF Increasing
  <2>1. i - 1 < j - 1
    OBVIOUS
  <2> QED
    BY <1>2, <1>3, <1>7, <2>1
<1>9. InOrder(S) = [k \in 1 .. n |-> d[k]]
  <2>1. GoesThrough(d, n, S, L)
    BY <1>7, <1>8 DEF GoesThrough
  <2> QED
    BY <2>1, OrderOf
<1>10. WholeOf(b) = [k \in 1 .. n |-> recordIn(b, d[k])]
  BY <1>9 DEF WholeOf, S
<1>11. \A k \in 1 .. n : recordIn(b, d[k]) = rs[k]
  BY <1>4, <1>7
<1>12. rs = [k \in 1 .. n |-> rs[k]]
  BY <1>1, <1>d
<1>13. WholeOf(b) = rs
  BY <1>10, <1>11, <1>12
<1> QED
  BY <1>13, <1>5, <1>n DEF S

\* The whole records, and where they start.
LEMMA WholeIs ==
  ASSUME NEW b \in Seq(Byte)
  PROVE  /\ WholeOf(b) \in Seq(Recs) /\ WholeIn(b) \in SUBSET (0 .. Len(b)) /\ Len(b) \in Nat
         /\ InOrder(WholeIn(b)) \in Seq(WholeIn(b))
         /\ Len(WholeOf(b)) = Len(InOrder(WholeIn(b)))
         /\ \A k \in 1 .. Len(WholeOf(b)) : /\ InOrder(WholeIn(b))[k] \in WholeIn(b)
                                            /\ WholeOf(b)[k] = recordIn(b, InOrder(WholeIn(b))[k])
<1>l. PICK L \in Nat : L = Len(b)
  BY LenProperties
<1>1. WholeIn(b) \in SUBSET (0 .. L - 1)
  BY <1>l DEF WholeIn
<1> DEFINE S == WholeIn(b)
           t == InOrder(S)
<1> HIDE DEF S
<1>2. S \in SUBSET (0 .. L)
  BY <1>1 DEF S
<1>3. t \in Seq(S)
  BY <1>2, OrderIs
<1> HIDE DEF t
<1>4. PICK n \in Nat : n = Len(t)
  BY <1>3, LenProperties
<1>5. DOMAIN t = 1 .. n /\ \A k \in 1 .. n : t[k] \in S
  BY <1>3, <1>4, ElementOfSeq, LenProperties
<1>6. WholeOf(b) = [k \in 1 .. n |-> recordIn(b, t[k])]
  BY <1>5 DEF WholeOf, t, S
<1>7. \A k \in 1 .. n : recordIn(b, t[k]) \in Recs
  <2>1. \A k \in 1 .. n : t[k] \in 0 .. Len(b) - 1
    BY <1>1, <1>5, <1>l DEF S
  <2> QED
    BY <2>1, RecordIn
<1>8. WholeOf(b) \in Seq(Recs) /\ Len(WholeOf(b)) = n /\ \A k \in 1 .. n : WholeOf(b)[k] = recordIn(b, t[k])
  BY <1>6, <1>7
<1> QED
  BY <1>2, <1>3, <1>4, <1>5, <1>8, <1>l DEF S, t

\* readAll throws unless the file is made of whole records, and then returns them.
LEMMA ReadBack ==
  ASSUME NEW b \in Seq(Byte)
  PROVE  /\ readIn(b) # Throws <=> \E rs, e : TilesFrom(b, 0, rs, e)
         /\ readIn(b) = IF encodeAll(WholeOf(b)) = b THEN WholeOf(b) ELSE Throws
<1>1. PICK f : ReadFrom(f, b) /\ readIn(b) = f[0]
  BY ReadDefined
<1>2. 0 \in 0 .. Len(b)
  BY LenProperties
<1>3. ASSUME NEW rs, NEW e, TilesFrom(b, 0, rs, e)
      PROVE  readIn(b) = rs /\ readIn(b) # Throws /\ WholeOf(b) = rs /\ encodeAll(rs) = b
  <2>1. readIn(b) = rs
    BY <1>1, <1>2, <1>3, TilesRead
  <2>2. rs \in Seq(Recs)
    BY <1>3 DEF TilesFrom
  <2>3. rs # Throws
    BY <2>2, WalFileAssumption DEF Recs
  <2>4. WholeOf(b) = rs
    BY <1>3, TilesWhole
  <2>5. encodeAll(rs) = b
    BY <1>3, <2>2, EncodeTiles
  <2> QED
    BY <2>1, <2>3, <2>4, <2>5
<1>4. readIn(b) # Throws => \E e : TilesFrom(b, 0, readIn(b), e)
  BY <1>1, <1>2, ReadTiles
<1>5. encodeAll(WholeOf(b)) = b => \E e : TilesFrom(b, 0, WholeOf(b), e)
  BY WholeIs, EncodeTiles
<1> QED
  BY <1>3, <1>4, <1>5

-----------------------------------------------------------------------------
(***************************************************************************)
(* What is written behind other bytes.                                     *)
(***************************************************************************)
\* The bytes c start with no byte from the inside of a record.
Starts(c) == c \in Seq(Byte) /\ Len(c) # 0 /\ (c[1].at = 0 \/ c[1].at = 1)

\* What is written behind b leaves the records of b whole and completes none.
LEMMA WholeBefore ==
  ASSUME NEW b \in Seq(Byte), NEW c, Starts(c), NEW u, u = b \o c
  PROVE  /\ u \in Seq(Byte) /\ IsConcat(u, b, c)
         /\ \A o \in 0 .. Len(b) - 1 : /\ recordIn(u, o) = recordIn(b, o)
                                       /\ o \in WholeIn(u) <=> o \in WholeIn(b)
<1>c. c \in Seq(Byte) /\ Len(c) \in Nat /\ Len(c) # 0 /\ (c[1].at = 0 \/ c[1].at = 1)
  BY LenProperties DEF Starts
<1>0. u \in Seq(Byte) /\ IsConcat(u, b, c)
  BY <1>c, ConcatAt
<1>l. PICK L \in Nat : L = Len(b)
  BY LenProperties
<1>m. PICK m \in Nat : m = Len(c) /\ m >= 1
  BY <1>c
<1>1. Len(u) = L + m /\ (\A i \in 1 .. L : u[i] = b[i]) /\ \A j \in 1 .. m : u[L + j] = c[j]
  BY <1>0, <1>l, <1>m DEF IsConcat
<1>2. u[L + 1] = c[1]
  <2>1. 1 \in 1 .. m
    BY <1>m
  <2> QED
    BY <1>1, <2>1
<1>3. ASSUME NEW o \in 0 .. L - 1
      PROVE  recordIn(u, o) = recordIn(b, o) /\ (o \in WholeIn(u) <=> o \in WholeIn(b))
  <2>1. o + 1 \in 1 .. L /\ u[o + 1] = b[o + 1]
    BY <1>1
  <2>2. recordIn(u, o) = recordIn(b, o)
    BY <2>1 DEF recordIn
  <2>3. PICK r \in Recs : r = recordIn(b, o)
    BY <1>l, RecordIn
  <2>4. PICK n \in Nat : n = span(r) /\ n >= 1
    BY <1>l, <2>3, RecordIn
  <2>5. o \in WholeIn(b) <=> b[o + 1].at = 1 /\ L - o >= n /\ \A i \in 1 .. n : b[o + i] = byteOf(r, i)
    BY <1>l, <2>3, <2>4 DEF WholeIn, StandsIn
  <2>6. o \in WholeIn(u) <=> u[o + 1].at = 1 /\ (L + m) - o >= n /\ \A i \in 1 .. n : u[o + i] = byteOf(r, i)
    <3>1. o \in 0 .. Len(u) - 1
      BY <1>1
    <3> QED
      BY <1>1, <2>2, <2>3, <2>4, <3>1 DEF WholeIn, StandsIn
  <2>7. L - o >= n => \A i \in 1 .. n : o + i \in 1 .. L /\ u[o + i] = b[o + i]
    <3>1. L - o >= n => \A i \in 1 .. n : o + i \in 1 .. L
      OBVIOUS
    <3> QED
      BY <1>1, <3>1
  <2>8. ASSUME o \in WholeIn(u) PROVE L - o >= n
    <3> SUFFICES ASSUME ~ (L - o >= n) PROVE FALSE
      OBVIOUS
    <3>1. PICK i : i = L + 1 - o
      OBVIOUS
    <3>2. i \in 1 .. n /\ o + i = L + 1 /\ i # 0 /\ i # 1
      BY <3>1
    <3>3. u[L + 1] = byteOf(r, i)
      BY <2>6, <2>8, <3>2
    <3>4. u[L + 1].at = i
      BY <3>3 DEF byteOf
    <3> QED
      BY <1>2, <1>c, <3>2, <3>4
  <2>9. L - o >= n => (L + m) - o >= n
    OBVIOUS
  <2> QED
    BY <2>1, <2>2, <2>5, <2>6, <2>7, <2>8, <2>9
<1> QED
  BY <1>0, <1>3, <1>l

\* If no record starts in what is written, the same records are whole, and the
\* log is not readable.
LEMMA TornBehind ==
  ASSUME NEW b \in Seq(Byte), NEW c, Starts(c), NEW u, u = b \o c,
         \A o \in WholeIn(u) : o \in 0 .. Len(b) - 1
  PROVE  WholeOf(u) = WholeOf(b) /\ readIn(u) = Throws
<1>0. /\ u \in Seq(Byte) /\ IsConcat(u, b, c)
      /\ \A o \in 0 .. Len(b) - 1 : recordIn(u, o) = recordIn(b, o) /\ (o \in WholeIn(u) <=> o \in WholeIn(b))
  BY WholeBefore
<1>l. PICK L \in Nat : L = Len(b)
  BY LenProperties
<1>1. \A o \in WholeIn(b) : o \in 0 .. L - 1
  BY <1>l DEF WholeIn
<1>2. WholeIn(u) = WholeIn(b)
  BY <1>0, <1>1, <1>l
<1> DEFINE S == WholeIn(b)
           t == InOrder(S)
<1>3. /\ \A k \in DOMAIN t : t[k] \in S
      /\ WholeOf(b) = [k \in DOMAIN t |-> recordIn(b, t[k])]
      /\ WholeOf(u) = [k \in DOMAIN t |-> recordIn(u, t[k])]
  <2>1. t \in Seq(S)
    BY WholeIs
  <2>2. \A k \in DOMAIN t : t[k] \in S
    <3> HIDE DEF S, t
    <3> QED
      BY <2>1, ElementOfSeq, LenProperties
  <2> QED
    BY <1>2, <2>2 DEF WholeOf
<1> HIDE DEF S, t
<1>4. \A k \in DOMAIN t : recordIn(u, t[k]) = recordIn(b, t[k])
  BY <1>0, <1>1, <1>3, <1>l DEF S
<1>5. WholeOf(u) = WholeOf(b)
  BY <1>3, <1>4
<1>6. ASSUME NEW rs, NEW e, TilesFrom(u, 0, rs, e) PROVE FALSE
  <2>n. PICK n \in Nat : n = Len(rs)
    BY <1>6, LenProperties DEF TilesFrom
  <2>1. /\ rs \in Seq(Recs) /\ e \in [0 .. n -> Nat] /\ e[0] = 0 /\ e[n] = Len(u)
        /\ \A k \in 1 .. n : e[k] = e[k - 1] + span(rs[k]) /\ StandsIn(u, e[k - 1], rs[k])
    BY <1>6, <2>n DEF TilesFrom
  <2>2. Len(u) > L /\ Len(u) \in Nat
    <3>1. Len(c) \in Nat /\ Len(c) # 0
      BY LenProperties DEF Starts
    <3>2. Len(u) = L + Len(c)
      BY <1>0, <1>l DEF IsConcat
    <3> QED
      BY <3>1, <3>2
  <2>3. n \in 1 .. n /\ n - 1 \in 0 .. n
    <3>1. n # 0
      BY <2>1, <2>2
    <3> QED
      BY <3>1
  <2>4. PICK o \in Nat : o = e[n - 1]
    BY <2>1, <2>3
  <2>5. PICK r \in Recs : r = rs[n]
    BY <2>1, <2>3, <2>n, ElementOfSeq
  <2>6. o \in WholeIn(u) /\ StandsIn(u, o, r) /\ o + span(r) = Len(u)
    <3>1. e[n - 1] \in WholeIn(u)
      BY <1>0, <1>6, <2>3, <2>n, TilesWhole
    <3> QED
      BY <2>1, <2>3, <2>4, <2>5, <3>1
  <2>7. recordIn(u, o) = r /\ span(r) \in Nat
    BY <2>2, <2>6, StandsFor
  <2>8. o \in WholeIn(b) /\ recordIn(b, o) = r
    BY <1>0, <1>1, <1>2, <1>l, <2>6, <2>7
  <2>9. L - o >= span(r)
    BY <1>l, <2>8 DEF WholeIn, StandsIn
  <2> QED
    BY <2>2, <2>6, <2>7, <2>9
<1>7. readIn(u) = Throws
  BY <1>0, <1>6, ReadBack
<1> QED
  BY <1>5, <1>7

\* A whole record at the end is the last of the whole records.
LEMMA WholeAppended ==
  ASSUME NEW b \in Seq(Byte), NEW r \in Recs, NEW u, u = b \o encodeRecord(r)
  PROVE  /\ Starts(encodeRecord(r))
         /\ WholeOf(u) = Append(WholeOf(b), r)
<1>l. PICK L \in Nat : L = Len(b)
  BY LenProperties
<1> DEFINE c == encodeRecord(r)
<1>1. PICK m \in Nat : m = span(r) /\ m >= 1
  BY EncodeRecord
<1>2. c \in Seq(Byte) /\ Len(c) = m /\ \A i \in 1 .. m : c[i] = byteOf(r, i)
  BY <1>1, EncodeRecord
<1> HIDE DEF c
<1>3. Starts(c)
  <2>1. 1 \in 1 .. m /\ m # 0
    BY <1>1
  <2>2. c[1].at = 1
    BY <1>2, <2>1 DEF byteOf
  <2> QED
    BY <1>2, <2>1, <2>2 DEF Starts
<1>4. /\ u \in Seq(Byte) /\ IsConcat(u, b, c)
      /\ \A o \in 0 .. L - 1 : recordIn(u, o) = recordIn(b, o) /\ (o \in WholeIn(u) <=> o \in WholeIn(b))
  <2>1. u = b \o c
    BY DEF c
  <2> QED
    BY <1>3, <1>l, <2>1, WholeBefore
<1>5. Len(u) = L + m /\ \A j \in 1 .. m : u[L + j] = byteOf(r, j)
  BY <1>2, <1>4, <1>l DEF IsConcat
<1>6. StandsIn(u, L, r)
  BY <1>1, <1>5 DEF StandsIn
<1>7. recordIn(u, L) = r /\ u[L + 1].at = 1 /\ L < Len(u)
  <2>1. Len(u) \in Nat
    BY <1>5
  <2> QED
    BY <1>6, <2>1, StandsFor
<1>8. L \in WholeIn(u)
  <2>1. L \in 0 .. Len(u) - 1
    BY <1>5, <1>7
  <2> QED
    BY <1>6, <1>7, <2>1 DEF WholeIn
<1>9. ASSUME NEW o \in WholeIn(u), o \notin 0 .. L - 1 PROVE o = L
  <2>1. o \in 0 .. (L + m) - 1 /\ u[o + 1].at = 1
    BY <1>5 DEF WholeIn
  <2>2. PICK j : j = o + 1 - L
    OBVIOUS
  <2>3. j \in 1 .. m /\ L + j = o + 1
    BY <1>9, <2>1, <2>2
  <2>4. u[L + j] = byteOf(r, j)
    BY <1>5, <2>3
  <2>5. u[o + 1].at = j
    <3>1. u[o + 1] = byteOf(r, j) /\ byteOf(r, j).at = j
      <4>1. byteOf(r, j).at = j
        BY DEF byteOf
      <4> QED
        BY <2>3, <2>4, <4>1
    <3> QED
      BY <3>1
  <2>6. j = 1
    BY <2>1, <2>5
  <2> QED
    BY <2>1, <2>3, <2>6
<1>10. WholeIn(b) \in SUBSET (0 .. L - 1)
  BY <1>l DEF WholeIn
<1>11. WholeIn(u) = WholeIn(b) \cup {L}
  BY <1>4, <1>8, <1>9, <1>10
<1> DEFINE S == WholeIn(b)
           t == InOrder(S)
<1>12. InOrder(WholeIn(u)) = Append(t, L)
  <2> HIDE DEF S
  <2>1. S \in SUBSET (0 .. L) /\ \A x \in S : x < L
    BY <1>10 DEF S
  <2>2. InOrder(S \cup {L}) = Append(InOrder(S), L)
    BY <2>1, OrderMore
  <2> QED
    BY <1>11, <2>2 DEF S
<1>13. t \in Seq(S) /\ WholeOf(b) \in Seq(Recs)
  BY WholeIs
<1>14. PICK n \in Nat : n = Len(t)
  BY <1>13, LenProperties
<1> DEFINE v == Append(t, L)
<1>15. \A k \in 1 .. n : t[k] \in S
  <2> HIDE DEF S, t
  <2> QED
    BY <1>13, <1>14, ElementOfSeq
<1>16. DOMAIN v = 1 .. n + 1 /\ v[n + 1] = L /\ \A k \in 1 .. n : v[k] = t[k]
  <2> HIDE DEF S, t
  <2> QED
    BY <1>13, <1>14
<1>17. DOMAIN t = 1 .. n
  <2> HIDE DEF S, t
  <2> QED
    BY <1>13, <1>14, LenProperties
<1>18. WholeOf(b) = [k \in 1 .. n |-> recordIn(b, t[k])]
  BY <1>17 DEF WholeOf
<1>19. WholeOf(u) = [k \in 1 .. n + 1 |-> recordIn(u, v[k])]
  BY <1>12, <1>16 DEF WholeOf
<1> HIDE DEF v, t
<1> DEFINE a == Append(WholeOf(b), r)
<1>20. DOMAIN a = 1 .. n + 1 /\ a[n + 1] = r /\ \A k \in 1 .. n : a[k] = recordIn(b, t[k])
  <2>1. PICK w : w = WholeOf(b)
    OBVIOUS
  <2>2. w \in Seq(Recs) /\ Len(w) = n /\ \A k \in 1 .. n : w[k] = recordIn(b, t[k])
    BY <1>13, <1>18, <2>1
  <2>3. DOMAIN Append(w, r) = 1 .. n + 1 /\ Append(w, r)[n + 1] = r /\ \A k \in 1 .. n : Append(w, r)[k] = w[k]
    BY <2>2
  <2> QED
    BY <2>1, <2>2, <2>3
<1>21. ASSUME NEW k \in 1 .. n + 1 PROVE a[k] = recordIn(u, v[k])
  <2>1. CASE k = n + 1
    BY <1>7, <1>16, <1>20, <2>1
  <2>2. CASE k # n + 1
    <3>1. k \in 1 .. n
      BY <2>2
    <3>2. v[k] = t[k] /\ t[k] \in 0 .. L - 1 /\ a[k] = recordIn(b, t[k])
      BY <1>10, <1>15, <1>16, <1>20, <3>1
    <3> QED
      BY <1>4, <3>2
  <2> QED
    BY <2>1, <2>2
<1>22. a = [k \in 1 .. n + 1 |-> a[k]]
  <2>1. PICK w \in Seq(Recs) : w = WholeOf(b)
    BY <1>13
  <2>2. PICK z \in Seq(Recs) : z = Append(w, r)
    <3>1. Append(w, r) \in Seq(Recs)
      BY <2>1, AppendProperties
    <3> QED
      BY <3>1
  <2>3. z = [k \in 1 .. Len(z) |-> z[k]] /\ DOMAIN z = 1 .. Len(z)
    OBVIOUS
  <2>4. a = z
    BY <2>1, <2>2
  <2> QED
    BY <1>20, <2>3, <2>4
<1> HIDE DEF a
<1>23. WholeOf(u) = a
  BY <1>19, <1>21, <1>22
<1> QED
  BY <1>3, <1>23 DEF c, a

\* A whole record at the end leaves a readable log readable, and no other.
LEMMA ReadAppended ==
  ASSUME NEW b \in Seq(Byte), NEW r \in Recs, NEW u, u = b \o encodeRecord(r)
  PROVE  readIn(u) # Throws <=> readIn(b) # Throws
<1>l. PICK L \in Nat : L = Len(b)
  BY LenProperties
<1> DEFINE c == encodeRecord(r)
<1>1. PICK m \in Nat : m = span(r) /\ m >= 1
  BY EncodeRecord
<1>2. c \in Seq(Byte) /\ Len(c) = m /\ \A i \in 1 .. m : c[i] = byteOf(r, i)
  BY <1>1, EncodeRecord
<1>3. Starts(c) /\ WholeOf(u) = Append(WholeOf(b), r)
  BY WholeAppended
<1> HIDE DEF c
<1>4. u \in Seq(Byte) /\ IsConcat(u, b, c)
  <2>1. u = b \o c
    BY DEF c
  <2> QED
    BY <1>3, <2>1, WholeBefore
<1>5. /\ Len(u) = L + m /\ (\A i \in 1 .. L : u[i] = b[i])
      /\ \A j \in 1 .. m : u[L + j] = byteOf(r, j)
  BY <1>2, <1>4, <1>l DEF IsConcat
<1>6. StandsIn(u, L, r)
  BY <1>1, <1>5 DEF StandsIn
<1>7. ASSUME NEW o \in Nat, NEW q \in Recs, o + span(q) <= L
      PROVE  StandsIn(u, o, q) <=> StandsIn(b, o, q)
  <2>1. PICK s \in Nat : s = span(q)
    BY EncodeRecord
  <2>2. (L + m) - o >= s /\ L - o >= s /\ \A i \in 1 .. s : o + i \in 1 .. L
    BY <1>7, <2>1
  <2>3. \A i \in 1 .. s : u[o + i] = b[o + i]
    BY <1>5, <2>2
  <2> QED
    BY <1>5, <1>l, <2>1, <2>2, <2>3 DEF StandsIn
<1>8. ASSUME NEW rs, NEW e, TilesFrom(b, 0, rs, e) PROVE \E d : TilesFrom(u, 0, Append(rs, r), d)
  <2>n. PICK n \in Nat : n = Len(rs)
    BY <1>8, LenProperties DEF TilesFrom
  <2>1. /\ rs \in Seq(Recs) /\ e \in [0 .. n -> Nat] /\ e[0] = 0 /\ e[n] = L
        /\ \A k \in 1 .. n : e[k] = e[k - 1] + span(rs[k]) /\ StandsIn(b, e[k - 1], rs[k])
    BY <1>8, <1>l, <2>n DEF TilesFrom
  <2> DEFINE a == Append(rs, r)
             d == [k \in 0 .. n + 1 |-> IF k = n + 1 THEN L + m ELSE e[k]]
  <2>2. a \in Seq(Recs) /\ Len(a) = n + 1 /\ a[n + 1] = r /\ \A k \in 1 .. n : a[k] = rs[k]
    BY <2>1, <2>n
  <2>3. /\ d \in [0 .. n + 1 -> Nat] /\ d[n + 1] = L + m
        /\ \A k \in 0 .. n : d[k] = e[k]
    <3>1. \A k \in 0 .. n + 1 : k = n + 1 \/ (k # n + 1 /\ k \in 0 .. n)
      OBVIOUS
    <3>2. n + 1 \in 0 .. n + 1 /\ \A k \in 0 .. n : k \in 0 .. n + 1 /\ k # n + 1
      OBVIOUS
    <3> QED
      BY <2>1, <3>1, <3>2
  <2> HIDE DEF a, d
  <2>4. ASSUME NEW k \in 1 .. n + 1
        PROVE  d[k] = d[k - 1] + span(a[k]) /\ StandsIn(u, d[k - 1], a[k])
    <3>1. CASE k = n + 1
      <4>1. k - 1 = n /\ n \in 0 .. n
        BY <3>1
      <4>2. d[k - 1] = L /\ a[k] = r /\ d[k] = L + m
        BY <2>1, <2>2, <2>3, <3>1, <4>1
      <4> QED
        BY <1>1, <1>6, <4>2
    <3>2. CASE k # n + 1
      <4>1. k \in 1 .. n /\ k \in 0 .. n /\ k - 1 \in 0 .. n
        BY <3>2
      <4>2. d[k] = e[k] /\ d[k - 1] = e[k - 1] /\ a[k] = rs[k] /\ e[k - 1] \in Nat
        BY <2>1, <2>2, <2>3, <4>1
      <4>3. rs[k] \in Recs /\ StandsIn(b, e[k - 1], rs[k])
        BY <2>1, <2>n, <4>1, ElementOfSeq
      <4>4. e[k - 1] + span(rs[k]) <= L
        BY <1>l, <4>2, <4>3, StandsFor
      <4>5. StandsIn(u, e[k - 1], rs[k])
        BY <1>7, <4>2, <4>3, <4>4
      <4> QED
        BY <2>1, <4>1, <4>2, <4>5
    <3> QED
      BY <3>1, <3>2
  <2>5. d[0] = 0
    <3>1. 0 \in 0 .. n
      OBVIOUS
    <3> QED
      BY <2>1, <2>3, <3>1
  <2>6. TilesFrom(u, 0, a, d)
    BY <1>5, <2>2, <2>3, <2>4, <2>5 DEF TilesFrom
  <2> QED
    BY <2>6 DEF a
<1>9. ASSUME NEW rs, NEW e, TilesFrom(u, 0, rs, e) PROVE \E ws, d : TilesFrom(b, 0, ws, d)
  <2>0. rs = Append(WholeOf(b), r)
    BY <1>3, <1>4, <1>9, TilesWhole
  <2>1. PICK ws \in Seq(Recs) : ws = WholeOf(b)
    BY WholeIs
  <2>n. PICK n \in Nat : n = Len(ws)
    BY LenProperties
  <2>2. rs \in Seq(Recs) /\ Len(rs) = n + 1 /\ rs[n + 1] = r /\ \A k \in 1 .. n : rs[k] = ws[k]
    BY <2>0, <2>1, <2>n
  <2>3. /\ e \in [0 .. n + 1 -> Nat] /\ e[0] = 0 /\ e[n + 1] = L + m
        /\ \A k \in 1 .. n + 1 : e[k] = e[k - 1] + span(rs[k]) /\ StandsIn(u, e[k - 1], rs[k])
    BY <1>5, <1>9, <2>2 DEF TilesFrom
  <2>4. e[n] = L /\ e[n] \in Nat
    <3>1. n + 1 \in 1 .. n + 1 /\ (n + 1) - 1 = n /\ n \in 0 .. n + 1
      OBVIOUS
    <3>2. e[n + 1] = e[n] + m /\ e[n] \in Nat
      BY <1>1, <2>2, <2>3, <3>1
    <3> QED
      BY <2>3, <3>2
  <2>5. \A j, k \in 0 .. n + 1 : j < k => e[j] < e[k]
    BY <1>4, <1>9, <2>2, TileEnds
  <2> DEFINE d == [k \in 0 .. n |-> e[k]]
  <2>6. d \in [0 .. n -> Nat] /\ \A k \in 0 .. n : d[k] = e[k]
    <3>1. \A k \in 0 .. n : k \in 0 .. n + 1
      OBVIOUS
    <3> QED
      BY <2>3, <3>1
  <2> HIDE DEF d
  <2>7. ASSUME NEW k \in 1 .. n
        PROVE  d[k] = d[k - 1] + span(ws[k]) /\ StandsIn(b, d[k - 1], ws[k])
    <3>1. k \in 0 .. n /\ k - 1 \in 0 .. n /\ k \in 1 .. n + 1 /\ n \in 0 .. n + 1 /\ k \in 0 .. n + 1 /\ k - 1 \in 0 .. n + 1
      OBVIOUS
    <3>2. d[k] = e[k] /\ d[k - 1] = e[k - 1] /\ rs[k] = ws[k] /\ e[k - 1] \in Nat /\ e[k] \in Nat
      BY <2>2, <2>3, <2>6, <3>1
    <3>3. e[k] = e[k - 1] + span(ws[k]) /\ StandsIn(u, e[k - 1], ws[k]) /\ ws[k] \in Recs
      BY <2>3, <2>n, <3>1, <3>2, ElementOfSeq
    <3>4. e[k] <= L
      <4>1. CASE k = n
        BY <2>4, <4>1
      <4>2. CASE k # n
        <5>1. k < n
          BY <4>2
        <5> QED
          BY <2>4, <2>5, <3>1, <3>2, <5>1
      <4> QED
        BY <4>1, <4>2
    <3>5. StandsIn(b, e[k - 1], ws[k])
      BY <1>7, <3>2, <3>3, <3>4
    <3> QED
      BY <3>2, <3>3, <3>5
  <2>8. d[0] = 0 /\ d[n] = L
    <3>1. 0 \in 0 .. n /\ n \in 0 .. n
      OBVIOUS
    <3> QED
      BY <2>3, <2>4, <2>6, <3>1
  <2>9. TilesFrom(b, 0, ws, d)
    BY <1>l, <2>6, <2>7, <2>8, <2>n DEF TilesFrom
  <2> QED
    BY <2>9
<1> QED
  BY <1>4, <1>8, <1>9, ReadBack

\* A record less one byte or more is no record.
LEMMA PieceTorn ==
  ASSUME NEW b \in Seq(Byte), NEW r \in Recs, NEW n \in Nat, n # 0, n < span(r),
         NEW u, u = b \o SubSeq(encodeRecord(r), 1, n)
  PROVE  u \in Seq(Byte) /\ WholeOf(u) = WholeOf(b) /\ readIn(u) = Throws
<1>l. PICK L \in Nat : L = Len(b)
  BY LenProperties
<1>1. PICK s \in Seq(Byte) : s = encodeRecord(r) /\ Len(s) = span(r) /\ \A i \in 1 .. span(r) : s[i] = byteOf(r, i)
  BY EncodeRecord
<1> DEFINE c == SubSeq(s, 1, n)
<1>2. c \in Seq(Byte) /\ Len(c) = n /\ \A i \in 1 .. n : c[i] = byteOf(r, i)
  <2>0. span(r) \in Nat
    BY EncodeRecord
  <2>1. 1 \in 1 .. Len(s) + 1 /\ n \in 1 - 1 .. Len(s) /\ n - 1 + 1 = n /\ \A i \in 1 .. n : 1 + i - 1 = i
    BY <1>1, <2>0
  <2>2. c \in Seq(Byte) /\ Len(c) = n - 1 + 1 /\ \A i \in 1 .. n - 1 + 1 : c[i] = s[1 + i - 1]
    BY <2>1, SubSeqProperties
  <2>3. \A i \in 1 .. n : i \in 1 .. span(r)
    BY <2>0
  <2> HIDE DEF c
  <2> QED
    BY <1>1, <2>1, <2>2, <2>3
<1>3. u = b \o c
  BY <1>1
<1> HIDE DEF c
<1>4. 1 \in 1 .. n
  OBVIOUS
<1>5. byteOf(r, 1).at = 1 /\ \A i : byteOf(r, i).at = i
  BY DEF byteOf
<1>6. Starts(c)
  BY <1>2, <1>4, <1>5 DEF Starts
<1>7. u \in Seq(Byte) /\ IsConcat(u, b, c)
  BY <1>3, <1>6, WholeBefore
<1>8. Len(u) = L + n /\ \A j \in 1 .. n : u[L + j] = byteOf(r, j)
  BY <1>2, <1>7, <1>l DEF IsConcat
<1>9. ASSUME NEW o \in WholeIn(u) PROVE o \in 0 .. L - 1
  <2> SUFFICES ASSUME o \notin 0 .. L - 1 PROVE FALSE
    OBVIOUS
  <2>1. o \in 0 .. (L + n) - 1 /\ u[o + 1].at = 1 /\ StandsIn(u, o, recordIn(u, o))
    BY <1>8 DEF WholeIn
  <2>2. PICK j : j = o + 1 - L
    OBVIOUS
  <2>3. j \in 1 .. n /\ L + j = o + 1
    BY <2>1, <2>2
  <2>4. u[o + 1] = byteOf(r, j)
    BY <1>8, <2>3
  <2>5. j = 1
    BY <1>5, <2>1, <2>4
  <2>6. o = L
    BY <2>1, <2>3, <2>5
  <2>7. recordIn(u, o) = [id |-> r.id, size |-> r.size]
    <3>1. byteOf(r, j).id = r.id /\ byteOf(r, j).size = r.size
      BY DEF byteOf
    <3> QED
      BY <2>4, <3>1 DEF recordIn
  <2>8. recordIn(u, o) = r
    BY <2>7 DEF Recs
  <2>9. (L + n) - L >= span(r) /\ span(r) \in Nat
    BY <1>8, <2>1, <2>6, <2>8, EncodeRecord DEF StandsIn
  <2> QED
    BY <2>9
<1> QED
  BY <1>3, <1>6, <1>7, <1>9, <1>l, TornBehind

\* No record starts with the bytes that corrupt-repo appends.
LEMMA GarbageTorn ==
  ASSUME NEW b \in Seq(Byte), NEW u, u = b \o <<Garbage>>
  PROVE  u \in Seq(Byte) /\ WholeOf(u) = WholeOf(b) /\ readIn(u) = Throws
<1>l. PICK L \in Nat : L = Len(b)
  BY LenProperties
<1>1. Garbage \in Byte /\ Garbage.at = 0
  BY DEF Garbage, Byte
<1>2. PICK c \in Seq(Byte) : c = <<Garbage>> /\ Len(c) = 1 /\ c[1] = Garbage
  <2>1. <<Garbage>> \in Seq(Byte) /\ Len(<<Garbage>>) = 1 /\ <<Garbage>>[1] = Garbage
    BY <1>1
  <2> QED
    BY <2>1
<1>3. u = b \o c
  BY <1>2
<1>4. Starts(c)
  BY <1>1, <1>2 DEF Starts
<1>5. u \in Seq(Byte) /\ IsConcat(u, b, c)
  BY <1>3, <1>4, WholeBefore
<1>6. Len(u) = L + 1 /\ u[L + 1] = Garbage
  <2>1. 1 \in 1 .. 1
    OBVIOUS
  <2> QED
    BY <1>2, <1>5, <1>l, <2>1 DEF IsConcat
<1>7. ASSUME NEW o \in WholeIn(u) PROVE o \in 0 .. L - 1
  <2>1. o \in 0 .. (L + 1) - 1 /\ u[o + 1].at = 1
    BY <1>6 DEF WholeIn
  <2>2. o # L
    BY <1>1, <1>6, <2>1
  <2> QED
    BY <2>1, <2>2
<1> QED
  BY <1>3, <1>4, <1>5, <1>7, <1>l, TornBehind

\* Nothing is behind a list that nothing is appended to.
LEMMA ConcatNothing ==
  ASSUME NEW X, NEW s \in Seq(X)
  PROVE  s \o <<>> = s
  BY ConcatEmptySeq

\* What encodeAll writes is readable, and reads back.
LEMMA EncodedReads ==
  ASSUME NEW rs \in Seq(Recs)
  PROVE  /\ encodeAll(rs) \in Seq(Byte)
         /\ WholeOf(encodeAll(rs)) = rs /\ readIn(encodeAll(rs)) # Throws
<1>n. PICK n \in Nat : n = Len(rs)
  BY LenProperties
<1>d. DOMAIN rs = 1 .. n /\ \A k \in 1 .. n : rs[k] \in Recs
  BY <1>n, ElementOfSeq, LenProperties
<1> DEFINE cs == [k \in DOMAIN rs |-> encodeRecord(rs[k])]
<1>1. cs \in Seq(Seq(Byte))
  <2>1. cs = [k \in 1 .. n |-> encodeRecord(rs[k])]
    BY <1>d
  <2>2. \A k \in 1 .. n : encodeRecord(rs[k]) \in Seq(Byte)
    BY <1>d, EncodeRecord
  <2> QED
    BY <2>1, <2>2
<1>2. encodeAll(rs) = FlattenSeq(cs)
  BY DEF encodeAll
<1> HIDE DEF cs
<1>3. PICK e : EndsOf(cs, e)
  BY <1>1, EndsExist
<1>4. FlattenSeq(cs) \in Seq(Byte)
  BY <1>1, <1>3, FlattenAt
<1>5. PICK b \in Seq(Byte) : b = encodeAll(rs)
  BY <1>2, <1>4
<1>6. PICK d : TilesFrom(b, 0, rs, d)
  BY <1>5, EncodeTiles
<1>7. WholeOf(b) = rs
  BY <1>6, TilesWhole
<1>8. readIn(b) # Throws
  BY <1>6, ReadBack
<1> QED
  BY <1>5, <1>7, <1>8

-----------------------------------------------------------------------------
(***************************************************************************)
(* The invariant.                                                          *)
(***************************************************************************)
\* An append that has opened the log writes one of the records that may be written.
WalInv ==
    /\ WalTypeOK
    /\ bytes \in Seq(Byte)
    /\ \A p \in Writers : fd[p] # "none" => record[p] \in [id : 1 .. MaxRecords, size : Sizes]

\* Before the first append the file is empty.
LEMMA InitWal == WalInit => WalInv
<1> SUFFICES ASSUME WalInit PROVE WalInv
  OBVIOUS
<1>1. bytes = <<>> /\ fd = [p \in Writers |-> "none"] /\ record = [p \in Writers |-> [id |-> 0, size |-> 0]] /\ appended = 0
  BY DEF WalInit
<1>2. 0 \in 0 .. MaxRecords
  BY WalFileAssumption
<1>3. bytes \in Seq(Byte) /\ DOMAIN bytes = {}
  BY <1>1
<1>4. WalTypeOK
  BY <1>1, <1>2, <1>3 DEF WalTypeOK
<1> QED
  BY <1>1, <1>3, <1>4 DEF WalInv

\* The records that are appended are records.
LEMMA RecordTypes ==
  ASSUME WalInv, NEW p \in Writers
  PROVE  /\ record[p] \in Recs
         /\ fd[p] # "none" => record[p] \in [id : 1 .. MaxRecords, size : Sizes]
<1>1. record[p] \in [id : 0 .. MaxRecords, size : Sizes \cup {0}]
  BY DEF WalInv, WalTypeOK
<1>2. record[p].id \in Nat /\ record[p].size \in Nat
  BY <1>1, WalFileAssumption
<1>3. record[p] = [id |-> record[p].id, size |-> record[p].size]
  BY <1>1
<1> QED
  BY <1>2, <1>3 DEF Recs, WalInv

\* What is in the file are bytes of records, and garbage.
ByteOK(x) == x = Garbage \/ x.at \in 1 .. HeaderSize + x.size

\* A step that appends bytes of that kind, or none.
LEMMA BytesAppended ==
  ASSUME WalInv, NEW c \in Seq(Byte), \A i \in 1 .. Len(c) : ByteOK(c[i]), bytes' = bytes \o c
  PROVE  bytes' \in Seq(Byte) /\ \A k \in DOMAIN bytes' : ByteOK(bytes'[k])
<1>1. bytes \in Seq(Byte) /\ \A k \in DOMAIN bytes : ByteOK(bytes[k])
  BY DEF WalInv, WalTypeOK, ByteOK
<1>2. PICK b \in Seq(Byte) : b = bytes
  BY <1>1
<1>3. PICK u : u = b \o c
  OBVIOUS
<1>4. u \in Seq(Byte) /\ IsConcat(u, b, c)
  BY <1>3, ConcatAt
<1>5. PICK L \in Nat, m \in Nat : L = Len(b) /\ m = Len(c)
  BY LenProperties
<1>6. /\ Len(u) = L + m /\ (\A i \in 1 .. L : u[i] = b[i])
      /\ \A j \in 1 .. m : u[L + j] = c[j]
  BY <1>4, <1>5 DEF IsConcat
<1>7. DOMAIN u = 1 .. L + m /\ DOMAIN b = 1 .. L
  BY <1>4, <1>5, <1>6, LenProperties
<1>8. ASSUME NEW k \in 1 .. L + m PROVE ByteOK(u[k])
  <2>1. CASE k \in 1 .. L
    BY <1>1, <1>2, <1>6, <1>7, <2>1
  <2>2. CASE k \notin 1 .. L
    <3>1. k - L \in 1 .. m /\ L + (k - L) = k
      BY <2>2
    <3> QED
      BY <1>5, <1>6, <3>1
  <2> QED
    BY <2>1, <2>2
<1>9. bytes' = u
  BY <1>2, <1>3
<1> QED
  BY <1>4, <1>7, <1>8, <1>9

\* The bytes that encodeAll writes are bytes of records.
LEMMA EncodedBytes ==
  ASSUME NEW rs \in Seq(Recs)
  PROVE  \A k \in DOMAIN encodeAll(rs) : ByteOK(encodeAll(rs)[k])
<1>1. PICK b \in Seq(Byte) : b = encodeAll(rs)
  BY EncodedReads
<1>l. PICK L \in Nat : L = Len(b)
  BY LenProperties
<1>n. PICK n \in Nat : n = Len(rs)
  BY LenProperties
<1>2. PICK e : TilesFrom(b, 0, rs, e)
  BY <1>1, EncodeTiles
<1>3. /\ e \in [0 .. n -> Nat]
      /\ \A k \in 1 .. n : e[k] = e[k - 1] + span(rs[k]) /\ StandsIn(b, e[k - 1], rs[k])
  BY <1>2, <1>n DEF TilesFrom
<1>4. \A i \in 1 .. L : \E k \in 1 .. n : e[k - 1] < i /\ i <= e[k]
  BY <1>2, <1>l, <1>n, TileEnds
<1>5. ASSUME NEW i \in 1 .. L PROVE ByteOK(b[i])
  <2>1. PICK k \in 1 .. n : e[k - 1] < i /\ i <= e[k]
    BY <1>4
  <2>2. PICK r \in Recs : r = rs[k]
    BY <1>n, ElementOfSeq
  <2>3. PICK m \in Nat : m = span(r)
    BY EncodeRecord
  <2>4. k - 1 \in 0 .. n /\ k \in 0 .. n
    OBVIOUS
  <2>5. PICK a \in Nat : a = e[k - 1]
    BY <1>3, <2>4
  <2>6. i \in Nat /\ a < i /\ i <= a + m /\ StandsIn(b, a, r)
    BY <1>3, <2>1, <2>2, <2>3, <2>5
  <2>7. PICK j : j = i - a
    OBVIOUS
  <2>8. j \in 1 .. m /\ a + j = i
    BY <2>6, <2>7
  <2>9. b[i] = byteOf(r, j)
    BY <2>3, <2>6, <2>8 DEF StandsIn
  <2>10. byteOf(r, j).at = j /\ byteOf(r, j).size = r.size
    BY DEF byteOf
  <2>11. j \in 1 .. HeaderSize + r.size
    BY <2>3, <2>8 DEF span
  <2> QED
    BY <2>9, <2>10, <2>11 DEF ByteOK
<1>6. DOMAIN b = 1 .. L
  BY <1>l, LenProperties
<1> QED
  BY <1>1, <1>5, <1>6

\* The log before and after a step.
LEMMA SameAfter ==
  /\ readAll = readIn(bytes) /\ Whole = WholeOf(bytes)
  /\ readAll' = readIn(bytes') /\ Whole' = WholeOf(bytes')
<1>1. (readAll = readIn(bytes) /\ Whole = WholeOf(bytes))'
  BY SameOperators, PTL
<1> QED
  BY <1>1, SameOperators

\* What append writes: the first n bytes of a record.
LEMMA PieceBytes ==
  ASSUME NEW r \in Recs, NEW n \in Nat, n <= span(r)
  PROVE  /\ SubSeq(encodeRecord(r), 1, n) \in Seq(Byte)
         /\ \A i \in 1 .. Len(SubSeq(encodeRecord(r), 1, n)) : ByteOK(SubSeq(encodeRecord(r), 1, n)[i])
         /\ n = 0 => SubSeq(encodeRecord(r), 1, n) = <<>>
         /\ n = span(r) => SubSeq(encodeRecord(r), 1, n) = encodeRecord(r)
<1>1. PICK s \in Seq(Byte) : s = encodeRecord(r) /\ Len(s) = span(r) /\ \A i \in 1 .. span(r) : s[i] = byteOf(r, i)
  BY EncodeRecord
<1>0. span(r) \in Nat /\ r.size \in Nat
  BY EncodeRecord DEF Recs
<1> DEFINE c == SubSeq(s, 1, n)
<1>2. c \in Seq(Byte) /\ Len(c) = n /\ \A i \in 1 .. n : c[i] = byteOf(r, i) /\ c[i] = s[i]
  <2>1. 1 \in 1 .. Len(s) + 1 /\ n \in 1 - 1 .. Len(s) /\ n - 1 + 1 = n /\ \A i \in 1 .. n : 1 + i - 1 = i
    BY <1>0, <1>1
  <2>2. c \in Seq(Byte) /\ Len(c) = n - 1 + 1 /\ \A i \in 1 .. n - 1 + 1 : c[i] = s[1 + i - 1]
    BY <2>1, SubSeqProperties
  <2>3. \A i \in 1 .. n : i \in 1 .. span(r)
    BY <1>0
  <2> HIDE DEF c
  <2> QED
    BY <1>1, <2>1, <2>2, <2>3
<1>3. c = SubSeq(encodeRecord(r), 1, n)
  BY <1>1
<1> HIDE DEF c
<1>4. ASSUME NEW i \in 1 .. n PROVE ByteOK(c[i])
  <2>1. i \in 1 .. HeaderSize + r.size
    BY <1>0 DEF span
  <2>2. byteOf(r, i).at = i /\ byteOf(r, i).size = r.size
    BY DEF byteOf
  <2> QED
    BY <1>2, <2>1, <2>2 DEF ByteOK
<1>5. n = 0 => c = <<>>
  BY <1>2, EmptySeq
<1>6. n = span(r) => c = s
  <2> SUFFICES ASSUME n = span(r) PROVE c = s
    OBVIOUS
  <2>1. Len(c) = Len(s) /\ \A i \in 1 .. Len(c) : c[i] = s[i]
    BY <1>1, <1>2
  <2> QED
    BY <1>2, <2>1, SeqEqual
<1> QED
  BY <1>1, <1>2, <1>3, <1>4, <1>5, <1>6

-----------------------------------------------------------------------------
(***************************************************************************)
(* The actions.                                                            *)
(***************************************************************************)
\* An append opens the log.
LEMMA OpenLogWal ==
  ASSUME WalInv, NEW p \in Writers, OpenLog(p)
  PROVE  WalInv' /\ bytes' = bytes
<1>0. PICK n \in Sizes : record' = [record EXCEPT ![p] = [id |-> appended + 1, size |-> n]]
  BY DEF OpenLog
<1>1. /\ fd' = [fd EXCEPT ![p] = "log"] /\ appended < MaxRecords /\ appended' = appended + 1 /\ bytes' = bytes
  BY DEF OpenLog
<1>2. /\ fd \in [Writers -> {"none", "log", "old"}]
      /\ record \in [Writers -> [id : 0 .. MaxRecords, size : Sizes \cup {0}]]
      /\ appended \in 0 .. MaxRecords /\ MaxRecords \in Nat
  BY WalFileAssumption DEF WalInv, WalTypeOK
<1>3. fd' \in [Writers -> {"none", "log", "old"}] /\ appended + 1 \in 1 .. MaxRecords
  BY <1>1, <1>2
<1>4. [id |-> appended + 1, size |-> n] \in [id : 1 .. MaxRecords, size : Sizes]
  BY <1>3
<1>5. [id |-> appended + 1, size |-> n] \in [id : 0 .. MaxRecords, size : Sizes \cup {0}]
  BY <1>3
<1>6. record' \in [Writers -> [id : 0 .. MaxRecords, size : Sizes \cup {0}]]
  BY <1>0, <1>2, <1>5
<1>7. WalTypeOK'
  <2>1. appended' \in 0 .. MaxRecords
    BY <1>1, <1>3
  <2>2. (\A k \in DOMAIN bytes : bytes[k] = Garbage \/ bytes[k].at \in 1 .. HeaderSize + bytes[k].size)'
    BY <1>1 DEF WalInv, WalTypeOK, Garbage
  <2> QED
    BY <1>3, <1>6, <2>1, <2>2 DEF WalTypeOK
<1>8. ASSUME NEW q \in Writers, fd'[q] # "none"
      PROVE  record'[q] \in [id : 1 .. MaxRecords, size : Sizes]
  <2>1. CASE q = p
    BY <1>0, <1>2, <1>4, <2>1
  <2>2. CASE q # p
    <3>1. fd'[q] = fd[q] /\ record'[q] = record[q]
      BY <1>0, <1>1, <1>2, <2>2
    <3> QED
      BY <1>8, <3>1 DEF WalInv
  <2> QED
    BY <2>1, <2>2
<1>9. bytes' \in Seq(Byte)
  BY <1>1 DEF WalInv
<1> QED
  BY <1>1, <1>7, <1>8, <1>9 DEF WalInv

\* An append writes n bytes of its record, to the log or to a file without a name.
LEMMA WriteWal ==
  ASSUME WalInv, NEW p \in Writers, fd[p] # "none", NEW n \in Nat, n <= span(record[p]), Write(p, n)
  PROVE  /\ WalInv'
         /\ bytes' = IF fd[p] = "log" THEN bytes \o SubSeq(encodeRecord(record[p]), 1, n) ELSE bytes
<1>1. /\ fd' = [fd EXCEPT ![p] = "none"] /\ record' = [record EXCEPT ![p] = [id |-> 0, size |-> 0]]
      /\ appended' = appended
      /\ bytes' = IF fd[p] = "log" THEN bytes \o SubSeq(encodeRecord(record[p]), 1, n) ELSE bytes
  BY DEF Write, writeAtEnd
<1>2. /\ fd \in [Writers -> {"none", "log", "old"}]
      /\ record \in [Writers -> [id : 0 .. MaxRecords, size : Sizes \cup {0}]]
      /\ appended \in 0 .. MaxRecords /\ bytes \in Seq(Byte)
      /\ \A k \in DOMAIN bytes : ByteOK(bytes[k])
  BY DEF WalInv, WalTypeOK, ByteOK
<1>3. PICK r \in Recs : r = record[p]
  BY RecordTypes
<1>4. bytes' \in Seq(Byte) /\ \A k \in DOMAIN bytes' : ByteOK(bytes'[k])
  <2>1. CASE fd[p] = "log"
    <3>1. PICK c \in Seq(Byte) : c = SubSeq(encodeRecord(r), 1, n) /\ \A i \in 1 .. Len(c) : ByteOK(c[i])
      <4>1. n <= span(r)
        BY <1>3
      <4> QED
        BY <4>1, PieceBytes
    <3>2. bytes' = bytes \o c
      BY <1>1, <1>3, <2>1, <3>1
    <3> QED
      BY <3>1, <3>2, BytesAppended
  <2>2. CASE fd[p] # "log"
    BY <1>1, <1>2, <2>2
  <2> QED
    BY <2>1, <2>2
<1>5. /\ fd' \in [Writers -> {"none", "log", "old"}]
      /\ record' \in [Writers -> [id : 0 .. MaxRecords, size : Sizes \cup {0}]]
  <2>1. [id |-> 0, size |-> 0] \in [id : 0 .. MaxRecords, size : Sizes \cup {0}]
    BY WalFileAssumption
  <2> QED
    BY <1>1, <1>2, <2>1
<1>6. WalTypeOK'
  BY <1>1, <1>2, <1>4, <1>5 DEF WalTypeOK, ByteOK, Garbage
<1>7. ASSUME NEW q \in Writers, fd'[q] # "none"
      PROVE  record'[q] \in [id : 1 .. MaxRecords, size : Sizes]
  <2>1. q # p
    BY <1>1, <1>2, <1>7
  <2>2. fd'[q] = fd[q] /\ record'[q] = record[q]
    BY <1>1, <1>2, <2>1
  <2> QED
    BY <1>7, <2>2 DEF WalInv
<1> QED
  BY <1>1, <1>4, <1>6, <1>7 DEF WalInv

\* A compaction puts a new file in place of the log.
LEMMA ReplaceWal ==
  ASSUME WalInv, ReplaceWith
  PROVE  WalInv' /\ WholeOf(bytes') = Compacted /\ readIn(bytes') # Throws
<1>1. /\ bytes' = encodeAll(Compacted) /\ record' = record /\ appended' = appended
      /\ fd' = [p \in Writers |-> IF fd[p] = "log" THEN "old" ELSE fd[p]]
  BY DEF ReplaceWith
<1>2. /\ fd \in [Writers -> {"none", "log", "old"}]
      /\ record \in [Writers -> [id : 0 .. MaxRecords, size : Sizes \cup {0}]]
      /\ appended \in 0 .. MaxRecords
  BY DEF WalInv, WalTypeOK
<1>3. Compacted \in Seq(Recs)
  <2>1. [id |-> 0, size |-> 1] \in Recs /\ [id |-> 0, size |-> 0] \in Recs
    BY DEF Recs
  <2> QED
    BY <2>1 DEF Compacted
<1>4. bytes' \in Seq(Byte) /\ WholeOf(bytes') = Compacted /\ readIn(bytes') # Throws
  BY <1>1, <1>3, EncodedReads
<1>5. \A k \in DOMAIN bytes' : ByteOK(bytes'[k])
  BY <1>1, <1>3, EncodedBytes
<1>6. fd' \in [Writers -> {"none", "log", "old"}] /\ \A q \in Writers : fd'[q] # "none" => fd[q] # "none"
  BY <1>1, <1>2
<1>7. WalTypeOK'
  BY <1>1, <1>2, <1>5, <1>6 DEF WalTypeOK, ByteOK, Garbage
<1> QED
  BY <1>1, <1>4, <1>6, <1>7 DEF WalInv

\* corrupt-repo.
LEMMA GarbageWal ==
  ASSUME WalInv, AppendGarbage
  PROVE  WalInv' /\ bytes' = bytes \o <<Garbage>>
<1>1. bytes' = bytes \o <<Garbage>> /\ fd' = fd /\ record' = record /\ appended' = appended
  BY DEF AppendGarbage, writeAtEnd
<1>2. PICK c \in Seq(Byte) : c = <<Garbage>> /\ Len(c) = 1 /\ c[1] = Garbage
  <2>1. Garbage \in Byte
    BY DEF Garbage, Byte
  <2>2. <<Garbage>> \in Seq(Byte) /\ Len(<<Garbage>>) = 1 /\ <<Garbage>>[1] = Garbage
    BY <2>1
  <2> QED
    BY <2>2
<1>3. \A i \in 1 .. Len(c) : ByteOK(c[i])
  BY <1>2 DEF ByteOK
<1>4. bytes' = bytes \o c
  BY <1>1, <1>2
<1>5. bytes' \in Seq(Byte) /\ \A k \in DOMAIN bytes' : ByteOK(bytes'[k])
  BY <1>3, <1>4, BytesAppended
<1>6. WalTypeOK'
  BY <1>1, <1>5 DEF WalInv, WalTypeOK, ByteOK, Garbage
<1> QED
  BY <1>1, <1>5, <1>6 DEF WalInv

\* What a step does to the log, seen from the records in it.
Step(b, u) ==
    \/ WholeOf(u) = WholeOf(b) /\ (readIn(u) # Throws <=> readIn(b) # Throws)
    \/ \E r \in [id : 1 .. MaxRecords, size : Sizes] :
          WholeOf(u) = Append(WholeOf(b), r) /\ (readIn(u) # Throws <=> readIn(b) # Throws)
    \/ WholeOf(u) = WholeOf(b) /\ readIn(u) = Throws
    \/ WholeOf(u) = Compacted /\ readIn(u) # Throws

\* A whole record, appended to the log or to a file without a name.
LEMMA WriteRecordWal ==
  ASSUME WalInv, NEW p \in Writers, WriteRecord(p)
  PROVE  WalInv' /\ Step(bytes, bytes')
<1>1. PICK r \in Recs : r = record[p] /\ r \in [id : 1 .. MaxRecords, size : Sizes]
  BY RecordTypes DEF WriteRecord
<1>2. PICK n \in Nat : n = span(r)
  BY EncodeRecord
<1>3. fd[p] # "none" /\ Write(p, n) /\ n <= span(record[p])
  BY <1>1, <1>2 DEF WriteRecord, span
<1>4. /\ WalInv'
      /\ bytes' = IF fd[p] = "log" THEN bytes \o SubSeq(encodeRecord(record[p]), 1, n) ELSE bytes
  BY <1>3, WriteWal
<1>5. CASE fd[p] = "log"
  <2>1. SubSeq(encodeRecord(r), 1, n) = encodeRecord(r)
    <3>1. n <= span(r)
      BY <1>2
    <3> QED
      BY <1>2, <3>1, PieceBytes
  <2>2. PICK b \in Seq(Byte) : b = bytes
    BY DEF WalInv
  <2>3. PICK u : u = bytes'
    OBVIOUS
  <2>4. u = b \o encodeRecord(r)
    BY <1>1, <1>4, <1>5, <2>1, <2>2, <2>3
  <2>5. WholeOf(u) = Append(WholeOf(b), r)
    BY <2>4, WholeAppended
  <2>6. readIn(u) # Throws <=> readIn(b) # Throws
    BY <2>4, ReadAppended
  <2>7. Step(b, u)
    BY <1>1, <2>5, <2>6 DEF Step
  <2> QED
    BY <1>4, <2>2, <2>3, <2>7
<1>6. CASE fd[p] # "log"
  BY <1>4, <1>6 DEF Step
<1> QED
  BY <1>5, <1>6

\* A record that is cut short.
LEMMA WriteCutWal ==
  ASSUME WalInv, NEW p \in Writers, WriteCut(p)
  PROVE  WalInv' /\ Step(bytes, bytes')
<1>1. PICK r \in Recs : r = record[p]
  BY RecordTypes
<1>2. PICK m \in Nat : m = span(r) /\ m >= 1
  BY EncodeRecord
<1>3. PICK n \in 0 .. m - 1 : Write(p, n)
  <2>1. HeaderSize + record[p].size - 1 = m - 1
    <3>1. HeaderSize \in Nat /\ r.size \in Nat /\ m = HeaderSize + r.size
      BY <1>2, WalFileAssumption DEF span, Recs
    <3>2. HeaderSize + r.size - 1 = m - 1
      BY <3>1
    <3> QED
      BY <1>1, <3>2
  <2>2. PICK n \in 0 .. HeaderSize + record[p].size - 1 : Write(p, n)
    BY DEF WriteCut
  <2>3. n \in 0 .. m - 1
    BY <2>1
  <2> QED
    BY <2>2, <2>3
<1>4. fd[p] # "none" /\ n \in Nat /\ n <= span(record[p]) /\ n < span(r)
  BY <1>1, <1>2 DEF WriteCut
<1>5. /\ WalInv'
      /\ bytes' = IF fd[p] = "log" THEN bytes \o SubSeq(encodeRecord(record[p]), 1, n) ELSE bytes
  BY <1>3, <1>4, WriteWal
<1>6. PICK b \in Seq(Byte) : b = bytes
  BY DEF WalInv
<1>7. PICK u : u = bytes'
  OBVIOUS
<1>8. CASE fd[p] = "log" /\ n # 0
  <2>1. u = b \o SubSeq(encodeRecord(r), 1, n)
    BY <1>1, <1>5, <1>6, <1>7, <1>8
  <2>2. WholeOf(u) = WholeOf(b) /\ readIn(u) = Throws
    BY <1>4, <1>8, <2>1, PieceTorn
  <2> QED
    BY <1>5, <1>6, <1>7, <2>2 DEF Step
<1>9. CASE fd[p] = "log" /\ n = 0
  <2>1. SubSeq(encodeRecord(r), 1, n) = <<>>
    BY <1>2, <1>4, <1>9, PieceBytes
  <2>2. b \o <<>> = b
    BY ConcatNothing
  <2>3. u = b
    BY <1>1, <1>5, <1>6, <1>7, <1>9, <2>1, <2>2
  <2> QED
    BY <1>5, <1>6, <1>7, <2>3 DEF Step
<1>10. CASE fd[p] # "log"
  BY <1>5, <1>10 DEF Step
<1> QED
  BY <1>8, <1>9, <1>10

\* WalInv is inductive, and every step is one of Step.
LEMMA NextWal == WalInv /\ [WalNext]_walVars => WalInv' /\ Step(bytes, bytes')
<1> SUFFICES ASSUME WalInv, [WalNext]_walVars
             PROVE  WalInv' /\ Step(bytes, bytes')
  OBVIOUS
<1>1. ASSUME NEW p \in Writers, OpenLog(p) PROVE WalInv' /\ Step(bytes, bytes')
  BY <1>1, OpenLogWal DEF Step
<1>2. ASSUME NEW p \in Writers, WriteRecord(p) PROVE WalInv' /\ Step(bytes, bytes')
  BY <1>2, WriteRecordWal
<1>3. ASSUME NEW p \in Writers, WriteCut(p) PROVE WalInv' /\ Step(bytes, bytes')
  BY <1>3, WriteCutWal
<1>4. CASE ReplaceWith
  BY <1>4, ReplaceWal DEF Step
<1>5. CASE AppendGarbage
  <2>1. WalInv' /\ bytes' = bytes \o <<Garbage>>
    BY <1>5, GarbageWal
  <2>2. PICK b \in Seq(Byte) : b = bytes
    BY DEF WalInv
  <2>3. PICK u : u = bytes'
    OBVIOUS
  <2>4. WholeOf(u) = WholeOf(b) /\ readIn(u) = Throws
    BY <2>1, <2>2, <2>3, GarbageTorn
  <2> QED
    BY <2>1, <2>2, <2>3, <2>4 DEF Step
<1>6. CASE UNCHANGED walVars
  <2>1. UNCHANGED <<bytes, fd, record, appended>>
    BY <1>6 DEF walVars
  <2>2. WalInv'
    BY <2>1 DEF WalInv, WalTypeOK, Garbage
  <2> QED
    BY <2>1, <2>2 DEF Step
<1> QED
  BY <1>1, <1>2, <1>3, <1>4, <1>5, <1>6 DEF WalNext

-----------------------------------------------------------------------------
(***************************************************************************)
(* The theorems.                                                           *)
(***************************************************************************)
\* Every state satisfies WalInv.
THEOREM WalInvariance == WalSpec => []WalInv
  BY InitWal, NextWal, PTL DEF WalSpec

\* Every variable holds what the processes expect.
THEOREM WalTypes == WalSpec => []WalTypeOK
<1>1. WalInv => WalTypeOK
  BY DEF WalInv
<1> QED
  BY <1>1, WalInvariance, PTL

\* WalLog::readAll returns all records in the order in which they were appended,
\* and throws exactly when the file holds anything else.
THEOREM ReadsBack == WalSpec => []LogReadsBack
<1>1. WalInv => LogReadsBack
  <2> SUFFICES ASSUME WalInv PROVE LogReadsBack
    OBVIOUS
  <2>1. PICK b \in Seq(Byte) : b = bytes
    BY DEF WalInv
  <2>2. readIn(b) = IF encodeAll(WholeOf(b)) = b THEN WholeOf(b) ELSE Throws
    BY ReadBack
  <2> QED
    BY <2>1, <2>2, SameOperators DEF LogReadsBack
<1> QED
  BY <1>1, WalInvariance, PTL

\* WalLog::append, MetadataCompactor::compact: no append takes an earlier record
\* away, and a log that a cut record has made unreadable stays so until it is
\* replaced.
THEOREM ImplementsLog == WalSpec => IsLog
<1>1. WalInit => Abstract!Init
  <2> SUFFICES ASSUME WalInit PROVE Abstract!Init
    OBVIOUS
  <2>1. PICK b \in Seq(Byte) : b = <<>> /\ Len(b) = 0 /\ b = bytes
    <3>1. <<>> \in Seq(Byte) /\ Len(<<>>) = 0
      OBVIOUS
    <3> QED
      BY <3>1 DEF WalInit
  <2> DEFINE e == [k \in 0 .. 0 |-> 0]
  <2>2. e \in [0 .. 0 -> Nat] /\ e[0] = 0
    OBVIOUS
  <2>3. PICK rs \in Seq(Recs) : rs = <<>> /\ Len(rs) = 0
    <3>1. <<>> \in Seq(Recs) /\ Len(<<>>) = 0
      OBVIOUS
    <3> QED
      BY <3>1
  <2>4. \A k : k \notin 1 .. 0
    OBVIOUS
  <2> HIDE DEF e
  <2>5. TilesFrom(b, 0, rs, e)
    BY <2>1, <2>2, <2>3, <2>4 DEF TilesFrom
  <2>6. WholeOf(b) = <<>>
    BY <2>3, <2>5, TilesWhole
  <2>7. readIn(b) # Throws
    BY <2>5, ReadBack
  <2> QED
    BY <2>1, <2>6, <2>7, SameOperators DEF Abstract!Init
<1>2. WalInv /\ [WalNext]_walVars => [Abstract!Next]_<<Whole, readAll # Throws>>
  <2> SUFFICES ASSUME Step(bytes, bytes') PROVE [Abstract!Next]_<<Whole, readAll # Throws>>
    BY NextWal
  <2>1. PICK w, x : w = Whole /\ x = Whole' /\ w = WholeOf(bytes) /\ x = WholeOf(bytes')
    BY SameAfter
  <2>2. readAll = readIn(bytes) /\ readAll' = readIn(bytes')
    BY SameAfter
  <2>3. CASE Whole' = Whole /\ (readAll' # Throws <=> readAll # Throws)
    <3>1. (readAll' # Throws) = (readAll # Throws)
      BY <2>3
    <3> QED
      BY <2>3, <3>1
  <2>4. CASE \E r \in [id : 1 .. MaxRecords, size : Sizes] :
               Whole' = Append(Whole, r) /\ (readAll' # Throws <=> readAll # Throws)
    <3>1. Abstract!Add
      BY <2>4 DEF Abstract!Add
    <3> QED
      BY <3>1 DEF Abstract!Next
  <2>5. CASE Whole' = Whole /\ readAll' = Throws
    <3>1. Abstract!Tear
      BY <2>5 DEF Abstract!Tear
    <3> QED
      BY <3>1 DEF Abstract!Next
  <2>6. CASE Whole' = Compacted /\ readAll' # Throws
    <3>1. Abstract!Compact
      BY <2>6 DEF Abstract!Compact
    <3> QED
      BY <3>1 DEF Abstract!Next
  <2>7. \/ Whole' = Whole /\ (readAll' # Throws <=> readAll # Throws)
        \/ \E r \in [id : 1 .. MaxRecords, size : Sizes] :
             Whole' = Append(Whole, r) /\ (readAll' # Throws <=> readAll # Throws)
        \/ Whole' = Whole /\ readAll' = Throws
        \/ Whole' = Compacted /\ readAll' # Throws
    BY <2>1, <2>2 DEF Step
  <2> QED
    BY <2>3, <2>4, <2>5, <2>6, <2>7
<1> QED
  BY <1>1, <1>2, WalInvariance, PTL DEF WalSpec, IsLog, Abstract!Spec
=============================================================================

--------------------------- MODULE DataSourceProofs ---------------------------
(***************************************************************************)
(* The data sources for any file, any number of clients and chunks of any  *)
(* length: requests are read in the order of the file, each is what was    *)
(* written there for as long as it is in flight, objects and buffers have  *)
(* one owner, and the load is spread evenly.                               *)
(***************************************************************************)
EXTENDS DataSource, SequenceTheorems, TLAPS

-----------------------------------------------------------------------------
(* The inductive invariant.                                                *)

N == Len(Bodies)

(* The place in the file of the next byte, and the request that is read or *)
(* is the next to be read; N + 1 stands for the end of the file.           *)
At == offset - Len(unprocessed)
Current == IF source = "file" THEN (read % N) + 1 ELSE read + 1

(* The text of request k, and the digits of its size in it.                *)
Text(k) == SubSeq(File, Offset[k] + 1, Offset[k + 1])
Splits(k, d) ==
  LET digits == SubSeq(Text(k), 1, d)
  IN IsDecimal(digits, Len(Bodies[k])) /\ Text(k) = digits \o <<NL>> \o Bodies[k] \o <<NL>>
Width(k) == CHOOSE d \in 1 .. Len(Text(k)) : Splits(k, d)
SizeLine == [k \in 1 .. N |-> SubSeq(Text(k), 1, Width(k))]
BodyAt(k) == Offset[k] + Len(SizeLine[k]) + 1

(* The value of the first m digits of the size of request k.               *)
Counts(k, v) ==
  /\ v[0] = 0 /\ v[Len(SizeLine[k])] = Len(Bodies[k])
  /\ \A m \in 1 .. Len(SizeLine[k]) : v[m] = 10 * v[m - 1] + SizeLine[k][m]
SizeOf == [k \in 1 .. N |->
             CHOOSE v \in [0 .. Len(SizeLine[k]) -> 0 .. Len(Bodies[k])] : Counts(k, v)]

(* The reader's buffer has the bytes of the file before offset.            *)
Chunk ==
  /\ Len(unprocessed) <= offset
  /\ \A j \in 1 .. Len(unprocessed) : unprocessed[j] = File[At + j]

(* What has been read of the current request is what is before At.         *)
Between == phase \in {"none", "start"} => At = Offset[Current]
InSize ==
  phase = "size" =>
    /\ mem[buf] = << >>
    /\ \/ Current = N + 1 /\ At = Len(File) /\ acc = 0
       \/ /\ Current \in 1 .. N /\ At - Offset[Current] \in 0 .. Len(SizeLine[Current])
          /\ acc = SizeOf[Current][At - Offset[Current]]
InBody ==
  phase = "body" =>
    /\ Current \in 1 .. N /\ acc = Len(Bodies[Current]) /\ Len(mem[buf]) <= acc
    /\ At = BodyAt(Current) + Len(mem[buf])
    /\ \A j \in 1 .. Len(mem[buf]) : mem[buf][j] = Bodies[Current][j]
Behind ==
  /\ phase \in {"skip", "read"} => Current \in 1 .. N /\ mem[buf] = Bodies[Current]
  /\ phase = "skip" => \/ At \in {Offset[Current + 1] - 1, Offset[Current + 1]}
                       \/ source = "file" /\ Current = N /\ At = 0
  /\ phase = "read" => At = IF source = "file" /\ Current = N THEN 0 ELSE Offset[Current + 1]
  /\ phase = "eof" => At = Len(File)

Cursor == Between /\ InSize /\ InBody /\ Behind

Filling == phase \in {"size", "body", "skip", "read"}

(* FileDataSource: the client that has the lock reads.                     *)
FileTurns ==
  source = "file" =>
    /\ phase = "none" \/ Filling
    /\ phase = "none" <=> lock = "none"
    /\ \A c \in Clients : pc[c] \in {"idle", "lock", "read"} /\ (pc[c] = "read" <=> lock = c)

(* InmemDataSource: Init reads, and nobody fetches before it is done; each *)
(* request has a buffer that stays.                                        *)
InmemTurns ==
  source = "inmem" =>
    /\ lock = "none" /\ bytesPool = << >> /\ read \in 0 .. N
    /\ phase \in {"none", "eof"} => read = N
    /\ \A c \in Clients : pc[c] \in {"init", "idle", "next"} /\ (pc[c] = "init" <=> phase # "none")
    /\ Len(datas) = read /\ \A k \in 1 .. read : mem[datas[k]] = Bodies[k]
    /\ Filling => buf \notin Range(datas)

(* The places an object can be in exclude each other.                      *)
Owned ==
  /\ ObjectsOwned
  /\ \A c \in Clients : /\ cur[c] # 0 <=> pc[c] \in {"lock", "read", "next"}
                        /\ cur[c] \notin flight[c] /\ releasing[c] \notin flight[c]
                        /\ cur[c] # 0 => cur[c] # releasing[c]

(* The buffer that is being filled, the free ones, and those in flight.    *)
BuffersOwned ==
  /\ IsInjective(bytesPool)
  /\ Filling => buf \in Buffers \ Range(bytesPool)
  /\ \A c \in Clients : \A o \in flight[c] :
       /\ bytes[o] \in Buffers \ Range(bytesPool) /\ want[o] \in DOMAIN Bodies
       /\ Filling => bytes[o] # buf
  /\ source = "file" =>
       \A c, d \in Clients : \A o \in flight[c], p \in flight[d] : bytes[o] = bytes[p] => o = p

(* Whole turns of the file, and the requests of the turn under way.        *)
Ahead(k) == IF source = "file" THEN k <= read % N ELSE 2 <= k /\ k <= (i % N) + 1
Turns == IF source = "file" THEN taken[N] ELSE taken[1]
Spread == \A k \in 1 .. N : taken[k] = IF Ahead(k) THEN Turns + 1 ELSE Turns

IInv == /\ TypeOK /\ Chunk /\ Cursor /\ FileTurns /\ InmemTurns /\ Owned /\ BuffersOwned
        /\ RequestsIntact /\ Spread

-----------------------------------------------------------------------------
(* Lemmas on numbers and sequences.                                        *)

(* The next turn of a counter modulo m.                                    *)
LEMMA ModStep ==
  ASSUME NEW m \in Nat \ {0}, NEW a \in Nat
  PROVE  /\ a % m \in 0 .. m - 1
         /\ (a + 1) % m = IF (a % m) + 1 = m THEN 0 ELSE (a % m) + 1
<1>1. /\ a % m \in 0 .. m - 1 /\ a \div m \in Int /\ a = m * (a \div m) + (a % m)
      /\ (a + 1) % m \in 0 .. m - 1 /\ (a + 1) \div m \in Int
      /\ a + 1 = m * ((a + 1) \div m) + ((a + 1) % m)
  OBVIOUS
<1>2. \A q, p \in Int, r, t \in 0 .. m - 1 : m * q + r = m * p + t => r = t
  <2> SUFFICES ASSUME NEW q \in Int, NEW p \in Int, NEW r \in 0 .. m - 1, NEW t \in 0 .. m - 1,
                      m * q + r = m * p + t
               PROVE  r = t
    OBVIOUS
  <2>1. CASE q = p
    BY <2>1
  <2>2. CASE q < p
    <3>1. m * (q + 1) <= m * p
      BY <2>2
    <3> QED
      BY <3>1
  <2>3. CASE p < q
    <3>1. m * (p + 1) <= m * q
      BY <2>3
    <3> QED
      BY <3>1
  <2> QED
    BY <2>1, <2>2, <2>3
<1> DEFINE q == a \div m
           p == (a + 1) \div m
<1>3. CASE (a % m) + 1 = m
  <2>1. a + 1 = m * (q + 1) + 0
    BY <1>1, <1>3
  <2>2. /\ q + 1 \in Int /\ p \in Int /\ 0 \in 0 .. m - 1 /\ (a + 1) % m \in 0 .. m - 1
        /\ m * (q + 1) + 0 = m * p + ((a + 1) % m)
    BY <1>1, <2>1
  <2> HIDE DEF q, p
  <2>3. 0 = (a + 1) % m
    BY <1>2, <2>2, Zenon
  <2> QED
    BY <1>3, <2>3
<1>4. CASE (a % m) + 1 # m
  <2>1. a + 1 = m * q + ((a % m) + 1) /\ (a % m) + 1 \in 0 .. m - 1
    BY <1>1, <1>4
  <2> QED
    BY <1>1, <1>2, <1>4, <2>1
<1> QED
  BY <1>1, <1>3, <1>4

LEMMA ModSmall ==
  ASSUME NEW m \in Nat \ {0}, NEW a \in 0 .. m - 1
  PROVE  a % m = a
  OBVIOUS

(* The elements of a concatenation, by the part they come from.            *)
LEMMA ConcatParts ==
  ASSUME NEW S, NEW s \in Seq(S), NEW t \in Seq(S)
  PROVE  /\ s \o t \in Seq(S) /\ Len(s \o t) = Len(s) + Len(t)
         /\ \A j \in 1 .. Len(s) : (s \o t)[j] = s[j]
         /\ \A j \in 1 .. Len(t) : (s \o t)[Len(s) + j] = t[j]
<1> DEFINE c == s \o t
<1>1. /\ c \in Seq(S) /\ Len(c) = Len(s) + Len(t)
      /\ \A j \in 1 .. Len(s) + Len(t) : c[j] = IF j <= Len(s) THEN s[j] ELSE t[j - Len(s)]
  BY ConcatProperties
<1>2. Len(s) \in Nat /\ Len(t) \in Nat
  BY LenProperties
<1> HIDE DEF c
<1>3. ASSUME NEW j \in 1 .. Len(s) PROVE c[j] = s[j]
  BY <1>1, <1>2
<1>4. ASSUME NEW j \in 1 .. Len(t) PROVE c[Len(s) + j] = t[j]
  BY <1>1, <1>2
<1> QED
  BY <1>1, <1>3, <1>4 DEF c

(* Taking the top of a stack in which nothing is twice.                    *)
LEMMA Pop ==
  ASSUME NEW S, NEW s \in Seq(S), s # << >>, IsInjective(s)
  PROVE  /\ Front(s) \in Seq(S) /\ IsInjective(Front(s)) /\ Last(s) \in S
         /\ Last(s) \in Range(s) /\ Range(Front(s)) = Range(s) \ {Last(s)}
<1>1. Len(s) \in Nat \ {0} /\ DOMAIN s = 1 .. Len(s) /\ \A k \in 1 .. Len(s) : s[k] \in S
  BY EmptySeq, LenProperties
<1>2. /\ Front(s) \in Seq(S) /\ Len(Front(s)) = Len(s) - 1
      /\ \A k \in 1 .. Len(s) - 1 : Front(s)[k] = s[k]
  <2>1. \A k \in 1 .. Len(s) - 1 : s[k] \in S
    BY <1>1
  <2>2. /\ SubSeq(s, 1, Len(s) - 1) \in Seq(S)
        /\ Len(SubSeq(s, 1, Len(s) - 1)) = IF 1 <= Len(s) - 1 THEN Len(s) - 1 - 1 + 1 ELSE 0
        /\ \A k \in 1 .. Len(s) - 1 - 1 + 1 : SubSeq(s, 1, Len(s) - 1)[k] = s[1 + k - 1]
    BY <1>1, <2>1, SubSeqProperties
  <2> QED
    BY <1>1, <2>2 DEF Front
<1>3. DOMAIN Front(s) = 1 .. Len(s) - 1
  BY <1>2, LenProperties
<1>4. Last(s) \in S /\ Last(s) \in Range(s) /\ Last(s) = s[Len(s)]
  BY <1>1 DEF Last, Range
<1>5. IsInjective(Front(s))
  BY <1>1, <1>2, <1>3 DEF IsInjective
<1>6. Range(Front(s)) = Range(s) \ {Last(s)}
  <2>1. ASSUME NEW x \in Range(Front(s)) PROVE x \in Range(s) \ {Last(s)}
    BY <1>1, <1>2, <1>3, <1>4 DEF Range, IsInjective
  <2>2. ASSUME NEW x \in Range(s) \ {Last(s)} PROVE x \in Range(Front(s))
    BY <1>1, <1>2, <1>3, <1>4 DEF Range
  <2> QED
    BY <2>1, <2>2
<1> QED
  BY <1>2, <1>4, <1>5, <1>6

(* Putting something new on it.                                            *)
LEMMA Push ==
  ASSUME NEW S, NEW s \in Seq(S), NEW e \in S
  PROVE  /\ Append(s, e) \in Seq(S) /\ Range(Append(s, e)) = Range(s) \cup {e}
         /\ IsInjective(s) /\ e \notin Range(s) => IsInjective(Append(s, e))
<1> DEFINE A == Append(s, e)
<1>1. /\ Len(s) \in Nat /\ DOMAIN s = 1 .. Len(s) /\ A \in Seq(S) /\ Len(A) = Len(s) + 1
      /\ \A k \in 1 .. Len(s) : A[k] = s[k]
      /\ A[Len(s) + 1] = e
  BY AppendProperties, LenProperties
<1>2. DOMAIN A = 1 .. Len(s) + 1
  BY <1>1, LenProperties
<1> HIDE DEF A
<1>3. Range(A) = Range(s) \cup {e}
  BY <1>1, <1>2 DEF Range
<1>4. IsInjective(s) /\ e \notin Range(s) => IsInjective(A)
  BY <1>1, <1>2 DEF Range, IsInjective
<1> QED
  BY <1>1, <1>3, <1>4 DEF A

-----------------------------------------------------------------------------
(* What the file looks like.                                               *)

LEMMA Ends ==
  /\ N \in Nat \ {0} /\ DOMAIN Bodies = 1 .. N /\ Len(File) \in Nat
  /\ Offset[1] = 0 /\ Offset[N + 1] = Len(File)
  /\ \A k \in 1 .. N + 1 : Offset[k] \in 0 .. Len(File)
<1>1. N \in Nat \ {0} /\ DOMAIN Bodies = 1 .. N
  BY BodiesAssumption, EmptySeq, LenProperties DEF N
<1>2. Len(File) \in Nat
  BY FileAssumption, LenProperties
<1> QED
  BY <1>1, <1>2, FileAssumption DEF N

(* The size of a request in digits.                                        *)
LEMMA Digits ==
  ASSUME NEW k \in 1 .. N
  PROVE  /\ SizeLine[k] \in Seq(0 .. 9) /\ SizeLine[k] # << >>
         /\ Text(k) = SizeLine[k] \o <<NL>> \o Bodies[k] \o <<NL>>
         /\ SizeOf[k][0] = 0 /\ SizeOf[k][Len(SizeLine[k])] = Len(Bodies[k])
         /\ \A m \in 1 .. Len(SizeLine[k]) :
              SizeOf[k][m - 1] \in 0 .. Len(Bodies[k]) /\ SizeOf[k][m] = 10 * SizeOf[k][m - 1] + SizeLine[k][m]
<1>1. \E d \in 1 .. Len(Text(k)) : Splits(k, d)
  BY FileAssumption, Ends DEF WriteNext, Text, Splits
<1>2. Splits(k, Width(k))
  BY <1>1 DEF Width
<1>3. IsDecimal(SizeLine[k], Len(Bodies[k])) /\ Text(k) = SizeLine[k] \o <<NL>> \o Bodies[k] \o <<NL>>
  BY <1>2 DEF Splits, SizeLine
<1>4. SizeLine[k] \in Seq(0 .. 9) /\ SizeLine[k] # << >>
  BY <1>3 DEF IsDecimal
<1>5. \E v \in [0 .. Len(SizeLine[k]) -> 0 .. Len(Bodies[k])] : Counts(k, v)
  BY <1>3 DEF IsDecimal, Counts
<1>6. SizeOf[k] \in [0 .. Len(SizeLine[k]) -> 0 .. Len(Bodies[k])] /\ Counts(k, SizeOf[k])
  BY <1>5 DEF SizeOf
<1>7. Len(SizeLine[k]) \in Nat
  BY <1>4, LenProperties
<1>8. ASSUME NEW m \in 1 .. Len(SizeLine[k])
      PROVE  SizeOf[k][m - 1] \in 0 .. Len(Bodies[k]) /\ SizeOf[k][m] = 10 * SizeOf[k][m - 1] + SizeLine[k][m]
  <2>1. m - 1 \in 0 .. Len(SizeLine[k])
    BY <1>7
  <2> QED
    BY <1>6, <2>1 DEF Counts
<1> QED
  BY <1>3, <1>4, <1>6, <1>8 DEF Counts

(* The parts of a request in the file: digits, the end of the line, the    *)
(* bytes of the request, the end of the line.                              *)
LEMMA Layout ==
  ASSUME NEW k \in 1 .. N
  PROVE  /\ Bodies[k] \in Seq(Nat) /\ Len(Bodies[k]) \in Nat
         /\ Offset[k] \in Nat /\ Offset[k + 1] \in Nat /\ Offset[k + 1] <= Len(File)
         /\ Len(SizeLine[k]) \in Nat /\ Len(SizeLine[k]) >= 1
         /\ SizeOf[k][Len(SizeLine[k])] = Len(Bodies[k])
         /\ Offset[k + 1] = BodyAt(k) + Len(Bodies[k]) + 1
         /\ \A m \in 1 .. Len(SizeLine[k]) :
              SizeLine[k][m] \in 0 .. 9 /\ File[Offset[k] + m] = SizeLine[k][m]
         /\ File[BodyAt(k)] = NL
         /\ \A j \in 1 .. Len(Bodies[k]) : File[BodyAt(k) + j] = Bodies[k][j]
         /\ File[Offset[k + 1]] = NL
<1> DEFINE D == SizeLine[k]
           B == Bodies[k]
           W == Text(k)
           o == Offset[k]
           P == D \o <<NL>>
           Q == P \o B
<1>1. B \in Seq(Nat) /\ Len(B) \in Nat
  <2>1. k \in DOMAIN Bodies
    BY Ends
  <2>2. Bodies[k] \in Seq(Nat)
    BY <2>1, BodiesAssumption, ElementOfSeq, Ends DEF N
  <2> QED
    BY <2>2, LenProperties
<1>b. Len(B) \in Nat
  BY <1>1, LenProperties
<1>2. D \in Seq(0 .. 9) /\ D # << >>
  BY Digits
<1>d. D \in Seq(Nat) /\ Len(D) \in Nat /\ Len(D) >= 1 /\ \A m \in 1 .. Len(D) : D[m] \in 0 .. 9
  <2>1. 0 .. 9 \subseteq Nat
    OBVIOUS
  <2>2. D \in Seq(Nat)
    BY <1>2, <2>1, SeqMonotonic
  <2>3. Len(D) \in Nat /\ Len(D) # 0 /\ \A m \in 1 .. Len(D) : D[m] \in 0 .. 9
    BY <1>2, EmptySeq, LenProperties, ElementOfSeq
  <2> QED
    BY <2>2, <2>3
<1>3. o \in Nat /\ Offset[k + 1] \in Nat /\ Offset[k + 1] <= Len(File)
  BY Ends
<1>4. W = Q \o <<NL>>
  BY Digits
<1>5. Offset[k + 1] = o + Len(W) /\ SubSeq(File, o + 1, Offset[k + 1]) = W
  <2>1. o <= Offset[k + 1]
    BY FileAssumption, Ends
  <2>2. \A j \in o + 1 .. Offset[k + 1] : File[j] \in Nat
    BY <1>3, FileAssumption, ElementOfSeq, Ends
  <2>3. Len(SubSeq(File, o + 1, Offset[k + 1])) =
          IF o + 1 <= Offset[k + 1] THEN Offset[k + 1] - (o + 1) + 1 ELSE 0
    BY <1>3, <2>2, SubSeqProperties
  <2>4. W = SubSeq(File, o + 1, Offset[k + 1])
    BY DEF Text
  <2>5. \A x, y \in Nat : x <= y => y = x + IF x + 1 <= y THEN y - (x + 1) + 1 ELSE 0
    OBVIOUS
  <2> QED
    BY <1>3, <2>1, <2>3, <2>4, <2>5, Zenon
<1>6. <<NL>> \in Seq(Nat) /\ Len(<<NL>>) = 1 /\ <<NL>>[1] = NL
  BY DEF NL
<1> HIDE DEF D, B, W, o
<1>7. /\ P \in Seq(Nat) /\ Len(P) = Len(D) + 1
      /\ \A j \in 1 .. Len(D) : P[j] = D[j]
      /\ P[Len(D) + 1] = NL
  <2>1. /\ P \in Seq(Nat) /\ Len(P) = Len(D) + Len(<<NL>>)
        /\ \A j \in 1 .. Len(D) : P[j] = D[j]
        /\ \A j \in 1 .. Len(<<NL>>) : P[Len(D) + j] = <<NL>>[j]
    BY <1>d, <1>6, ConcatParts
  <2> QED
    BY <2>1, <1>d, <1>6
<1> HIDE DEF P
<1>8. /\ Q \in Seq(Nat) /\ Len(Q) = Len(P) + Len(B)
      /\ \A j \in 1 .. Len(P) : Q[j] = P[j]
      /\ \A j \in 1 .. Len(B) : Q[Len(P) + j] = B[j]
  <2>1. P \in Seq(Nat) /\ B \in Seq(Nat)
    BY <1>1, <1>7
  <2> QED
    BY <2>1, ConcatParts
<1>q. Len(Q) \in Nat
  BY <1>8, LenProperties
<1> HIDE DEF Q
<1>9. /\ Len(W) = Len(Q) + 1
      /\ \A j \in 1 .. Len(Q) : W[j] = Q[j]
      /\ W[Len(Q) + 1] = NL
  <2>1. /\ Len(W) = Len(Q) + Len(<<NL>>)
        /\ \A j \in 1 .. Len(Q) : W[j] = Q[j]
        /\ \A j \in 1 .. Len(<<NL>>) : W[Len(Q) + j] = <<NL>>[j]
    <3>1. Q \in Seq(Nat) /\ <<NL>> \in Seq(Nat)
      BY <1>6, <1>8
    <3> QED
      BY <1>4, <3>1, ConcatParts
  <2> QED
    BY <2>1, <1>6, <1>q
<1>10. \A j \in 1 .. Len(W) : File[o + j] = W[j]
  <2>1. \A j \in o + 1 .. Offset[k + 1] : File[j] \in Nat
    BY <1>3, FileAssumption, ElementOfSeq, Ends
  <2>2. \A j \in 1 .. Offset[k + 1] - (o + 1) + 1 : SubSeq(File, o + 1, Offset[k + 1])[j] = File[o + 1 + j - 1]
    BY <1>3, <2>1, SubSeqProperties
  <2>3. Len(W) \in Nat
    BY <1>b, <1>d, <1>7, <1>8, <1>9
  <2> QED
    BY <1>3, <1>5, <2>2, <2>3
<1>11. BodyAt(k) = o + Len(D) + 1 /\ BodyAt(k) = o + Len(P)
  <2>1. BodyAt(k) = o + Len(D) + 1
    BY DEF BodyAt, o, D
  <2> QED
    BY <2>1, <1>d, <1>3, <1>7
<1>12. Offset[k + 1] = BodyAt(k) + Len(B) + 1
  BY <1>b, <1>d, <1>3, <1>5, <1>7, <1>8, <1>9, <1>11
<1>13. ASSUME NEW m \in 1 .. Len(D) PROVE File[o + m] = D[m]
  <2>1. m \in 1 .. Len(P) /\ m \in 1 .. Len(Q) /\ m \in 1 .. Len(W)
    <3>1. Len(P) = Len(D) + 1 /\ Len(Q) = Len(P) + Len(B) /\ Len(W) = Len(Q) + 1
      BY <1>7, <1>8, <1>9
    <3> QED
      BY <1>b, <1>d, <3>1
  <2>2. P[m] = D[m] /\ Q[m] = P[m] /\ W[m] = Q[m] /\ File[o + m] = W[m]
    BY <1>7, <1>8, <1>9, <1>10, <2>1, Zenon
  <2> QED
    BY <2>2
<1>14. File[BodyAt(k)] = NL
  <2>1. Len(P) \in 1 .. Len(Q) /\ Len(P) \in 1 .. Len(W) /\ Len(P) \in 1 .. Len(P)
    BY <1>b, <1>d, <1>7, <1>8, <1>9
  <2>2. File[o + Len(P)] = P[Len(P)] /\ P[Len(P)] = NL
    BY <2>1, <1>7, <1>8, <1>9, <1>10, Zenon
  <2> QED
    BY <2>2, <1>11
<1>15. ASSUME NEW j \in 1 .. Len(B) PROVE File[BodyAt(k) + j] = B[j]
  <2>1. Len(P) + j \in 1 .. Len(Q) /\ Len(P) + j \in 1 .. Len(W)
    BY <1>b, <1>d, <1>7, <1>8, <1>9
  <2>2. File[o + (Len(P) + j)] = B[j]
    BY <2>1, <1>8, <1>9, <1>10
  <2>3. o + (Len(P) + j) = BodyAt(k) + j
    BY <1>b, <1>d, <1>3, <1>7, <1>11
  <2> QED
    BY <2>2, <2>3
<1>16. File[Offset[k + 1]] = NL
  <2>1. Len(W) \in 1 .. Len(W) /\ Len(W) = Len(Q) + 1
    BY <1>b, <1>d, <1>7, <1>8, <1>9
  <2> QED
    BY <2>1, <1>5, <1>9, <1>10
<1>17. SizeOf[k][Len(D)] = Len(B)
  BY Digits DEF D, B
<1> QED
  BY <1>1, <1>d, <1>3, <1>12, <1>13, <1>14, <1>15, <1>16, <1>17 DEF D, B, o

-----------------------------------------------------------------------------
(* Facts every step uses.                                                  *)

LEMMA Numbers ==
  ASSUME IInv
  PROVE  /\ Len(unprocessed) \in Nat /\ offset \in Nat /\ offset <= Len(File) /\ At \in Nat
         /\ At + Len(unprocessed) = offset
         /\ read \in Nat /\ i \in Nat /\ source \in {"file", "inmem"}
         /\ Current \in 1 .. N + 1 /\ (source = "file" => Current \in 1 .. N)
         /\ Len(mem) \in Nat /\ Buffers = 1 .. Len(mem) /\ Len(bytes) \in Nat
         /\ Objects = 1 .. Len(bytes) /\ DOMAIN want = 1 .. Len(bytes)
<1>1. /\ Len(unprocessed) \in Nat /\ offset \in Nat /\ offset <= Len(File) /\ At \in Nat
      /\ At + Len(unprocessed) = offset
  <2>1. Len(unprocessed) \in Nat /\ offset \in Nat /\ offset <= Len(File) /\ Len(unprocessed) <= offset
    BY LenProperties, Ends DEF IInv, TypeOK, Chunk
  <2> QED
    BY <2>1 DEF At
<1>2. read \in Nat /\ i \in Nat /\ source \in {"file", "inmem"}
  BY NamesAssumption DEF IInv, TypeOK
<1>3. Current \in 1 .. N + 1 /\ (source = "file" => Current \in 1 .. N)
  <2>1. CASE source = "file"
    <3>1. read % N \in 0 .. N - 1
      BY <1>2, Ends, ModStep
    <3> QED
      BY <2>1, <3>1, Ends DEF Current
  <2>2. CASE source = "inmem"
    <3>1. read \in 0 .. N
      BY <2>2 DEF IInv, InmemTurns
    <3> QED
      BY <2>2, <3>1, Ends DEF Current
  <2> QED
    BY <1>2, <2>1, <2>2
<1>4. /\ Len(mem) \in Nat /\ Buffers = 1 .. Len(mem) /\ Len(bytes) \in Nat
      /\ Objects = 1 .. Len(bytes) /\ DOMAIN want = 1 .. Len(bytes)
  BY LenProperties DEF IInv, TypeOK, Buffers, Objects
<1> QED
  BY <1>1, <1>2, <1>3, <1>4

(* ReadNext starts with a buffer that is new or was free, and empty.       *)
LEMMA StartTakes ==
  ASSUME IInv, NEW ph, Start(ph)
  PROVE  /\ phase' = ph /\ acc' = 0
         /\ mem' \in Seq(Seq(Nat)) /\ Len(mem) <= Len(mem') /\ Len(mem') \in Nat
         /\ buf' \in 1 .. Len(mem') /\ mem'[buf'] = << >>
         /\ \A b \in 1 .. Len(mem) : b # buf' => mem'[b] = mem[b]
         /\ bytesPool' \in Seq(1 .. Len(mem')) /\ IsInjective(bytesPool')
         /\ Range(bytesPool') = Range(bytesPool) \ {buf'}
         /\ buf' \in Range(bytesPool) \/ buf' \notin 1 .. Len(mem)
         /\ bytesPool = << >> => bytesPool' = << >> /\ buf' = Len(mem) + 1
<1>0. /\ mem \in Seq(Seq(Nat)) /\ Len(mem) \in Nat /\ bytesPool \in Seq(1 .. Len(mem))
      /\ IsInjective(bytesPool) /\ << >> \in Seq(Nat) /\ Range(bytesPool) \subseteq 1 .. Len(mem)
  <2>1. bytesPool \in Seq(1 .. Len(mem))
    BY Numbers DEF IInv, TypeOK
  <2> QED
    BY <2>1, Numbers, RangeOfSeq, EmptySeq DEF IInv, TypeOK, BuffersOwned
<1>1. CASE bytesPool = << >>
  <2>1. buf' = Len(mem) + 1 /\ mem' = Append(mem, << >>) /\ bytesPool' = bytesPool
    BY <1>1 DEF Start
  <2>2. /\ mem' \in Seq(Seq(Nat)) /\ Len(mem') = Len(mem) + 1 /\ mem'[Len(mem) + 1] = << >>
        /\ \A b \in 1 .. Len(mem) : mem'[b] = mem[b]
    BY <1>0, <2>1, AppendProperties
  <2>3. 1 .. Len(mem) \subseteq 1 .. Len(mem')
    BY <1>0, <2>2
  <2>4. bytesPool' \in Seq(1 .. Len(mem'))
    BY <1>0, <2>1, <2>3, SeqMonotonic
  <2>5. Range(bytesPool') = Range(bytesPool) \ {buf'}
    BY <1>0, <2>1
  <2>6. buf' \in 1 .. Len(mem') /\ Len(mem) <= Len(mem') /\ buf' \notin 1 .. Len(mem)
    BY <1>0, <2>1, <2>2
  <2>7. phase' = ph /\ acc' = 0
    BY DEF Start
  <2>8. Len(mem') \in Nat /\ mem'[buf'] = << >> /\ IsInjective(bytesPool')
    BY <1>0, <2>1, <2>2
  <2> QED
    BY <1>1, <2>1, <2>2, <2>4, <2>5, <2>6, <2>7, <2>8
<1>2. CASE bytesPool # << >>
  <2>1. /\ buf' = Last(bytesPool) /\ mem' = [mem EXCEPT ![buf'] = << >>]
        /\ bytesPool' = Front(bytesPool)
    BY <1>2 DEF Start
  <2>2. /\ buf' \in 1 .. Len(mem) /\ buf' \in Range(bytesPool) /\ bytesPool' \in Seq(1 .. Len(mem))
        /\ IsInjective(bytesPool') /\ Range(bytesPool') = Range(bytesPool) \ {buf'}
    BY <1>0, <1>2, <2>1, Pop
  <2>3. /\ mem' \in Seq(Seq(Nat)) /\ Len(mem') = Len(mem)
        /\ \A b \in 1 .. Len(mem) : mem'[b] = IF b = buf' THEN << >> ELSE mem[b]
    BY <1>0, <2>1, <2>2, ExceptSeq
  <2>4. phase' = ph /\ acc' = 0
    BY DEF Start
  <2>5. /\ Len(mem') \in Nat /\ Len(mem) <= Len(mem') /\ mem'[buf'] = << >>
        /\ \A b \in 1 .. Len(mem) : b # buf' => mem'[b] = mem[b]
    BY <1>0, <2>2, <2>3
  <2> QED
    BY <1>2, <2>2, <2>3, <2>4, <2>5
<1> QED
  BY <1>1, <1>2

-----------------------------------------------------------------------------
(* Reading: Chunk and Cursor.                                              *)

(* How long its parts are.                                                 *)
LEMMA Lengths ==
  ASSUME NEW k \in 1 .. N
  PROVE  /\ Bodies[k] \in Seq(Nat) /\ Len(Bodies[k]) \in Nat
         /\ Len(SizeLine[k]) \in Nat /\ Len(SizeLine[k]) >= 1
         /\ Offset[k] \in Nat /\ Offset[k + 1] \in Nat /\ Offset[k + 1] <= Len(File)
         /\ BodyAt(k) \in Nat /\ BodyAt(k) = Offset[k] + Len(SizeLine[k]) + 1
         /\ Offset[k + 1] = BodyAt(k) + Len(Bodies[k]) + 1
<1>1. /\ Len(SizeLine[k]) \in Nat /\ Len(SizeLine[k]) >= 1 /\ Bodies[k] \in Seq(Nat)
      /\ Offset[k] \in Nat /\ Offset[k + 1] \in Nat /\ Offset[k + 1] <= Len(File)
      /\ Offset[k + 1] = BodyAt(k) + Len(Bodies[k]) + 1
  BY Layout, Zenon
<1>4. Len(Bodies[k]) \in Nat
  BY <1>1, LenProperties
<1>5. BodyAt(k) = Offset[k] + Len(SizeLine[k]) + 1
  BY DEF BodyAt
<1>6. \A x, y \in Nat : x + y + 1 \in Nat
  OBVIOUS
<1>7. BodyAt(k) \in Nat
  BY <1>1, <1>5, <1>6, Zenon
<1> QED
  BY <1>1, <1>4, <1>5, <1>7, Zenon

(* Requests follow each other, and the file ends behind the last.          *)
LEMMA Following ==
  ASSUME NEW k \in 1 .. N
  PROVE  /\ Offset[k + 1] >= Offset[k] + 3
         /\ k = N => Offset[k + 1] = Len(File)
         /\ k # N => Offset[k + 1] < Len(File) /\ File[Offset[k + 1] + 1] # NL
         /\ File[Offset[k] + 1] # NL
<1>1. ASSUME NEW j \in 1 .. N
      PROVE  Offset[j + 1] >= Offset[j] + 3 /\ File[Offset[j] + 1] # NL
  <2>1. /\ Len(SizeLine[j]) \in Nat /\ Len(SizeLine[j]) >= 1 /\ Len(Bodies[j]) \in Nat
        /\ Offset[j] \in Nat /\ Offset[j + 1] = BodyAt(j) + Len(Bodies[j]) + 1
        /\ BodyAt(j) = Offset[j] + Len(SizeLine[j]) + 1
    BY Lengths, Zenon
  <2>2. Offset[j + 1] >= Offset[j] + 3
    BY <2>1
  <2>3. 1 \in 1 .. Len(SizeLine[j])
    BY <2>1
  <2>4. SizeLine[j][1] \in 0 .. 9 /\ File[Offset[j] + 1] = SizeLine[j][1]
    BY <2>3, Layout
  <2> QED
    BY <2>2, <2>4 DEF NL
<1>2. CASE k = N
  BY <1>1, <1>2, Ends
<1>3. CASE k # N
  <2>1. k + 1 \in 1 .. N
    BY <1>3, Ends
  <2>2. /\ Offset[k + 1 + 1] >= Offset[k + 1] + 3 /\ File[Offset[k + 1] + 1] # NL
        /\ Offset[k + 1] \in Nat /\ Offset[k + 1 + 1] \in Nat /\ Offset[k + 1 + 1] <= Len(File)
    BY <1>1, <2>1, Layout
  <2> QED
    BY <1>1, <1>3, <2>2, Ends
<1> QED
  BY <1>2, <1>3

(* A step that moves nothing the reader looks at.                          *)
LEMMA CursorFrame ==
  ASSUME IInv, UNCHANGED <<source, phase, acc, buf, mem, read>>, At' = At
  PROVE  Cursor'
<1>1. Current' = Current
  BY DEF Current
<1> QED
  BY <1>1 DEF IInv, Cursor, Between, InSize, InBody, Behind

LEMMA ChunkFrame ==
  ASSUME IInv, UNCHANGED <<unprocessed, offset>>
  PROVE  Chunk' /\ At' = At
  BY DEF IInv, Chunk, At

LEMMA StartCursor ==
  ASSUME IInv, phase \in {"none", "start"}, Start("size"),
         UNCHANGED <<source, unprocessed, offset, read>>
  PROVE  Chunk' /\ Cursor'
<1>1. phase' = "size" /\ acc' = 0 /\ mem'[buf'] = << >>
  BY StartTakes
<1>2. At' = At /\ Current' = Current /\ Chunk'
  BY ChunkFrame DEF Current
<1>3. At = Offset[Current] /\ Current \in 1 .. N + 1 /\ At \in Nat
  BY Numbers DEF IInv, Cursor, Between
<1>4. CASE Current = N + 1
  BY <1>1, <1>2, <1>3, <1>4, Ends DEF Cursor, Between, InSize, InBody, Behind
<1>5. CASE Current # N + 1
  <2>1. Current \in 1 .. N
    BY <1>3, <1>5, Ends
  <2>2. Len(SizeLine[Current]) \in Nat
    BY <2>1, Layout
  <2>3. At - Offset[Current] = 0 /\ 0 \in 0 .. Len(SizeLine[Current]) /\ SizeOf[Current][0] = 0
    <3>1. SizeOf[Current][0] = 0
      BY <2>1, Digits, Zenon
    <3> QED
      BY <1>3, <2>2, <3>1
  <2>4. SizeLine[Current]' = SizeLine[Current] /\ SizeOf[Current][0]' = SizeOf[Current][0]
    BY <1>2
  <2>5. InSize'
    BY <1>1, <1>2, <2>1, <2>3, <2>4 DEF InSize
  <2> QED
    BY <1>1, <1>2, <2>5 DEF Cursor, Between, InBody, Behind
<1> QED
  BY <1>4, <1>5

(* Inside a request the file does not end.                                 *)
LEMMA NotAtEnd ==
  ASSUME IInv, phase \in {"size", "body", "skip"}, At = Len(File)
  PROVE  /\ phase = "size" => Current = N + 1
         /\ phase # "body"
         /\ phase = "skip" => Current = N
<1>0. At \in Nat /\ Len(File) \in Nat
  BY Numbers, Ends
<1>1. ASSUME phase = "size", Current # N + 1 PROVE FALSE
  <2>1. Current \in 1 .. N /\ At - Offset[Current] \in 0 .. Len(SizeLine[Current])
    BY <1>1 DEF IInv, Cursor, InSize
  <2>2. /\ Offset[Current + 1] = BodyAt(Current) + Len(Bodies[Current]) + 1
        /\ Offset[Current + 1] <= Len(File) /\ Len(Bodies[Current]) \in Nat
        /\ Offset[Current] \in Nat /\ Len(SizeLine[Current]) \in Nat
    BY <2>1, Layout
  <2> QED
    BY <1>0, <2>1, <2>2 DEF BodyAt
<1>2. ASSUME phase = "body" PROVE FALSE
  <2>1. /\ Current \in 1 .. N /\ Len(mem[buf]) <= Len(Bodies[Current])
        /\ At = BodyAt(Current) + Len(mem[buf])
    BY <1>2 DEF IInv, Cursor, InBody
  <2>2. /\ Offset[Current + 1] = BodyAt(Current) + Len(Bodies[Current]) + 1
        /\ Offset[Current + 1] <= Len(File) /\ Len(Bodies[Current]) \in Nat
        /\ Offset[Current] \in Nat /\ Len(SizeLine[Current]) \in Nat
    BY <2>1, Layout
  <2>3. Len(mem[buf]) \in Nat
    <3>1. buf \in 1 .. Len(mem)
      BY <1>2, Numbers DEF IInv, BuffersOwned, Filling
    <3>2. mem[buf] \in Seq(Nat)
      BY <3>1, ElementOfSeq DEF IInv, TypeOK
    <3> QED
      BY <3>2, LenProperties
  <2>4. BodyAt(Current) \in Nat
    BY <2>2 DEF BodyAt
  <2>5. At < Offset[Current + 1] /\ Offset[Current + 1] \in Nat /\ Offset[Current + 1] <= Len(File)
    BY <2>1, <2>2, <2>3, <2>4
  <2> QED
    BY <1>0, <2>5
<1>3. ASSUME phase = "skip" PROVE Current = N
  <2>1. /\ Current \in 1 .. N
        /\ \/ At \in {Offset[Current + 1] - 1, Offset[Current + 1]}
           \/ Current = N
    BY <1>3 DEF IInv, Cursor, Behind
  <2>2. Offset[Current + 1] \in Nat /\ Offset[Current + 1] <= Len(File)
    BY <2>1, Layout
  <2>3. Current # N => Offset[Current + 1] < Len(File)
    BY <2>1, Following
  <2> QED
    BY <1>0, <2>1, <2>2, <2>3
<1> QED
  BY <1>1, <1>2, <1>3

(* The reader takes a byte.                                                *)
LEMMA TakeByte ==
  ASSUME IInv, unprocessed # << >>
  PROVE  /\ Head(unprocessed) = File[At + 1] /\ At < Len(File) /\ At \in Nat
         /\ unprocessed' = Tail(unprocessed) /\ offset' = offset => Chunk' /\ At' = At + 1
<1>1. /\ unprocessed \in Seq(Nat) /\ Len(unprocessed) \in Nat /\ offset \in Nat
      /\ offset <= Len(File) /\ At \in Nat /\ At + Len(unprocessed) = offset
      /\ Len(File) \in Nat
  BY Numbers, Ends DEF IInv, TypeOK
<1>2. Len(unprocessed) >= 1 /\ Head(unprocessed) = unprocessed[1]
  BY <1>1, EmptySeq, HeadTailProperties
<1>3. \A j \in 1 .. Len(unprocessed) : unprocessed[j] = File[At + j]
  BY DEF IInv, Chunk
<1>4. Head(unprocessed) = File[At + 1] /\ At < Len(File)
  BY <1>1, <1>2, <1>3
<1>5. ASSUME unprocessed' = Tail(unprocessed), offset' = offset PROVE Chunk' /\ At' = At + 1
  <2>1. /\ Len(unprocessed') = Len(unprocessed) - 1
        /\ \A j \in 1 .. Len(unprocessed') : unprocessed'[j] = unprocessed[j + 1]
    BY <1>1, <1>2, <1>5, HeadTailProperties
  <2>2. At' = At + 1
    BY <1>1, <1>5, <2>1 DEF At
  <2>3. \A j \in 1 .. Len(unprocessed') : unprocessed'[j] = File[At' + j]
    BY <1>1, <1>2, <1>3, <2>1, <2>2
  <2>4. Len(unprocessed') <= offset'
    BY <1>1, <1>2, <1>5, <2>1
  <2> QED
    BY <2>2, <2>3, <2>4 DEF Chunk
<1> QED
  BY <1>1, <1>4, <1>5

LEMMA FillCursor ==
  ASSUME IInv, Fill
  PROVE  Chunk' /\ Cursor'
<1>1. /\ unprocessed = << >> /\ phase \in {"size", "body", "skip"}
      /\ UNCHANGED <<source, acc, buf, mem, read>> /\ Current' = Current
  BY DEF Fill, Reading, Current
<1>2. /\ Len(unprocessed) = 0 /\ offset \in Nat /\ offset <= Len(File) /\ At = offset
      /\ Len(File) \in Nat /\ source \in {"file", "inmem"}
      /\ (source = "file" => Current \in 1 .. N) /\ N \in Nat \ {0}
  BY <1>1, Numbers, Ends, EmptySeq DEF At
<1>3. CASE offset < Len(File)
  <2>1. PICK n \in 1 .. BufSize : /\ offset + n <= Len(File) /\ offset' = offset + n
                                  /\ unprocessed' = SubSeq(File, offset + 1, offset + n)
    BY <1>3 DEF Fill
  <2>2. n \in Nat \ {0}
    BY <2>1, BoundsAssumption
  <2>3. \A j \in offset + 1 .. offset + n : File[j] \in Nat
    BY <1>2, <2>1, <2>2, FileAssumption, ElementOfSeq
  <2>4. /\ Len(unprocessed') = n
        /\ \A j \in 1 .. n : unprocessed'[j] = File[offset + j]
    <3>1. /\ Len(unprocessed') = IF offset + 1 <= offset + n THEN offset + n - (offset + 1) + 1 ELSE 0
          /\ \A j \in 1 .. offset + n - (offset + 1) + 1 : unprocessed'[j] = File[offset + 1 + j - 1]
      BY <1>2, <2>1, <2>2, <2>3, SubSeqProperties
    <3> QED
      BY <1>2, <2>2, <3>1
  <2>5. At' = At
    BY <1>2, <2>1, <2>2, <2>4 DEF At
  <2>6. Chunk'
    BY <1>2, <2>1, <2>2, <2>4, <2>5 DEF Chunk
  <2>7. phase' = phase
    BY <1>3 DEF Fill
  <2> QED
    BY <1>1, <2>5, <2>6, <2>7, CursorFrame
<1>4. CASE ~ (offset < Len(File)) /\ source = "file"
  <2>1. offset' = 0 /\ phase' = phase /\ unprocessed' = unprocessed
    BY <1>4 DEF Fill, Rewind
  <2>2. At = Len(File)
    BY <1>2, <1>4
  <2>3. phase = "skip" /\ Current = N
    <3>1. Current # N + 1
      BY <1>2, <1>4
    <3> QED
      BY <1>1, <2>2, <3>1, NotAtEnd
  <2>4. At' = 0 /\ Len(unprocessed') = 0
    <3>1. Len(unprocessed') = 0
      BY <1>2, <2>1
    <3>2. At' = offset' - Len(unprocessed')
      BY DEF At
    <3> QED
      BY <2>1, <3>1, <3>2
  <2>5. Chunk'
    BY <2>1, <2>4 DEF Chunk
  <2>6. mem[buf] = Bodies[Current]
    BY <2>3 DEF IInv, Cursor, Behind
  <2>7. Cursor'
    BY <1>1, <1>2, <1>4, <2>1, <2>3, <2>4, <2>6 DEF Cursor, Between, InSize, InBody, Behind
  <2> QED
    BY <2>5, <2>7
<1>5. CASE ~ (offset < Len(File)) /\ source = "inmem"
  <2>1. /\ phase' = (IF phase = "skip" THEN "read" ELSE "eof")
        /\ UNCHANGED <<unprocessed, offset>>
    BY <1>5 DEF Fill
  <2>2. At = Len(File) /\ At' = At /\ Chunk'
    BY <1>2, <1>5, <2>1, ChunkFrame
  <2>3. CASE phase = "skip"
    <3>1. Current = N /\ mem[buf] = Bodies[Current]
      BY <1>1, <2>2, <2>3, NotAtEnd DEF IInv, Cursor, Behind
    <3>2. phase' = "read" /\ At' = Offset[Current + 1]
      BY <2>1, <2>2, <2>3, <3>1, Ends
    <3> QED
      BY <1>1, <1>2, <1>5, <2>2, <3>1, <3>2 DEF Cursor, Between, InSize, InBody, Behind
  <2>4. CASE phase # "skip"
    BY <1>1, <2>1, <2>2, <2>4 DEF Cursor, Between, InSize, InBody, Behind
  <2> QED
    BY <2>3, <2>4
<1> QED
  BY <1>2, <1>3, <1>4, <1>5

LEMMA FillSizeCursor ==
  ASSUME IInv, FillSize
  PROVE  Chunk' /\ Cursor'
<1> DEFINE k == Current
           m == At - Offset[k]
           D == SizeLine[k]
<1>1. /\ phase = "size" /\ unprocessed # << >> /\ unprocessed' = Tail(unprocessed)
      /\ UNCHANGED <<source, buf, offset, mem, read>> /\ Current' = Current
  BY DEF FillSize, Current
<1>2. /\ Head(unprocessed) = File[At + 1] /\ At < Len(File) /\ At \in Nat
      /\ Chunk' /\ At' = At + 1
  BY <1>1, TakeByte
<1>3. /\ k \in 1 .. N /\ m \in 0 .. Len(D) /\ acc = SizeOf[k][m] /\ mem[buf] = << >>
  BY <1>1, <1>2 DEF IInv, Cursor, InSize
<1>4. /\ Bodies[k] \in Seq(Nat) /\ Len(Bodies[k]) \in Nat
      /\ Len(D) \in Nat /\ Len(D) >= 1
      /\ Offset[k] \in Nat /\ BodyAt(k) \in Nat /\ BodyAt(k) = Offset[k] + Len(D) + 1
  BY <1>3, Lengths, Zenon
<1>5. CASE m = Len(D)
  <2>1. At + 1 = BodyAt(k)
    BY <1>2, <1>4, <1>5
  <2>2. File[BodyAt(k)] = NL /\ SizeOf[k][Len(D)] = Len(Bodies[k])
    BY <1>3, Layout, Zenon
  <2>3. phase' = "body" /\ acc' = acc
    BY <1>2, <2>1, <2>2 DEF FillSize
  <2>4. acc' = Len(Bodies[k])
    BY <1>3, <1>5, <2>2, <2>3
  <2>5. mem'[buf'] = << >> /\ Len(mem'[buf']) = 0 /\ At' = BodyAt(k) + 0
    BY <1>1, <1>2, <1>3, <1>4, <2>1, EmptySeq
  <2>6. BodyAt(k)' = BodyAt(k)
    BY <1>1 DEF BodyAt
  <2> HIDE DEF D, m
  <2>7. InBody'
    BY <1>1, <1>3, <1>4, <2>4, <2>5, <2>6 DEF InBody, BodyAt
  <2> QED
    BY <1>2, <2>3, <2>7 DEF Cursor, Between, InSize, Behind
<1>6. CASE m # Len(D)
  <2>1. /\ m + 1 \in 1 .. Len(D) /\ Offset[k] + (m + 1) = At + 1 /\ At + 1 - Offset[k] = m + 1
        /\ m \in Nat /\ m + 1 \in 0 .. Len(D)
    <3>1. \A a, o, d \in Nat : a - o \in 0 .. d /\ a - o # d =>
            /\ a - o + 1 \in 1 .. d /\ o + (a - o + 1) = a + 1 /\ a + 1 - o = a - o + 1
            /\ a - o \in Nat /\ a - o + 1 \in 0 .. d
      OBVIOUS
    <3> QED
      BY <1>2, <1>3, <1>4, <1>6, <3>1, Zenon
  <2>2. D[m + 1] \in 0 .. 9 /\ File[Offset[k] + (m + 1)] = D[m + 1]
    BY <1>3, <2>1, Layout, Zenon
  <2>3. phase' = "size" /\ acc' = 10 * acc + D[m + 1]
    <3>1. Head(unprocessed) = D[m + 1]
      BY <1>2, <2>1, <2>2
    <3>2. Head(unprocessed) # NL
      BY <2>2, <3>1 DEF NL
    <3> QED
      BY <1>1, <3>1, <3>2 DEF FillSize, AddDigit
  <2>4. acc' = SizeOf[k][m + 1]
    <3>1. SizeOf[k][m + 1] = 10 * SizeOf[k][(m + 1) - 1] + D[m + 1]
      BY <1>3, <2>1, Digits, Zenon
    <3>2. (m + 1) - 1 = m
      BY <2>1
    <3> QED
      BY <1>3, <2>3, <3>1, <3>2, Zenon
  <2>5. At' - Offset[k] = m + 1 /\ At' - Offset[k] \in 0 .. Len(D) /\ mem'[buf'] = << >>
    <3> HIDE DEF m, D, k
    <3>a. At' = At + 1
      BY <1>2
    <3>b. At + 1 - Offset[k] = m + 1
      BY <2>1
    <3>c. At \in Nat /\ Offset[k] \in Nat /\ m \in Nat
      BY <1>2, <1>4, <2>1
    <3>1. At' - Offset[k] = m + 1
      BY <3>a, <3>b, <3>c
    <3> QED
      BY <1>1, <1>3, <2>1, <3>1
  <2>6. acc' = SizeOf[k][At' - Offset[k]]
    BY <2>4, <2>5
  <2> HIDE DEF m
  <2>7. InSize'
    BY <1>1, <1>3, <2>5, <2>6 DEF InSize
  <2> QED
    BY <1>2, <2>3, <2>7 DEF Cursor, Between, InBody, Behind
<1> QED
  BY <1>5, <1>6

(* A prefix and the rest of a sequence.                                    *)
LEMMA Cut ==
  ASSUME NEW S, NEW s \in Seq(S), NEW n \in Nat, n <= Len(s)
  PROVE  /\ SubSeq(s, 1, n) \in Seq(S) /\ Len(SubSeq(s, 1, n)) = n
         /\ \A j \in 1 .. n : SubSeq(s, 1, n)[j] = s[j]
         /\ SubSeq(s, n + 1, Len(s)) \in Seq(S) /\ Len(SubSeq(s, n + 1, Len(s))) = Len(s) - n
         /\ \A j \in 1 .. Len(s) - n : SubSeq(s, n + 1, Len(s))[j] = s[n + j]
<1>1. Len(s) \in Nat /\ \A j \in 1 .. Len(s) : s[j] \in S
  BY LenProperties, ElementOfSeq
<1>2. (\A j \in 1 .. n : s[j] \in S) /\ \A j \in n + 1 .. Len(s) : s[j] \in S
  BY <1>1
<1>3. /\ SubSeq(s, 1, n) \in Seq(S) /\ Len(SubSeq(s, 1, n)) = IF 1 <= n THEN n - 1 + 1 ELSE 0
      /\ \A j \in 1 .. n - 1 + 1 : SubSeq(s, 1, n)[j] = s[1 + j - 1]
  BY <1>2, SubSeqProperties
<1>4. /\ SubSeq(s, n + 1, Len(s)) \in Seq(S)
      /\ Len(SubSeq(s, n + 1, Len(s))) = IF n + 1 <= Len(s) THEN Len(s) - (n + 1) + 1 ELSE 0
      /\ \A j \in 1 .. Len(s) - (n + 1) + 1 : SubSeq(s, n + 1, Len(s))[j] = s[n + 1 + j - 1]
  BY <1>1, <1>2, SubSeqProperties
<1> QED
  BY <1>1, <1>3, <1>4

(* What CopyBody does, in terms of what it copies.                         *)
LEMMA CopyTakes ==
  ASSUME IInv, CopyBody
  PROVE  \E n \in Nat :
           /\ Len(mem[buf]) + n <= Len(Bodies[Current]) /\ n <= Len(unprocessed)
           /\ buf \in 1 .. Len(mem) /\ mem[buf] \in Seq(Nat) /\ unprocessed \in Seq(Nat)
           /\ mem' = [mem EXCEPT ![buf] = mem[buf] \o SubSeq(unprocessed, 1, n)]
           /\ unprocessed' = SubSeq(unprocessed, n + 1, Len(unprocessed))
           /\ phase' = IF Len(mem[buf]) + n = Len(Bodies[Current]) THEN "skip" ELSE "body"
<1> DEFINE m == mem[buf]
           left == acc - Len(m)
           n == IF left < Len(unprocessed) THEN left ELSE Len(unprocessed)
<1>1. phase = "body"
  BY DEF CopyBody
<1>2. buf \in 1 .. Len(mem) /\ unprocessed \in Seq(Nat) /\ Len(unprocessed) \in Nat
  BY <1>1, Numbers DEF IInv, BuffersOwned, Filling, TypeOK
<1>3. m \in Seq(Nat) /\ Len(m) \in Nat
  BY <1>2, ElementOfSeq, LenProperties DEF IInv, TypeOK
<1>4. acc = Len(Bodies[Current]) /\ Len(m) <= acc /\ acc \in Nat
  BY <1>1 DEF IInv, Cursor, InBody, TypeOK
<1>5. n \in Nat /\ n <= Len(unprocessed) /\ Len(m) + n <= acc /\ (left = n <=> Len(m) + n = acc)
  <2>1. \A a, b, u \in Nat : b <= a =>
          LET d == a - b
              e == IF d < u THEN d ELSE u
          IN e \in Nat /\ e <= u /\ b + e <= a /\ (d = e <=> b + e = a)
    OBVIOUS
  <2> QED
    BY <1>2, <1>3, <1>4, <2>1, Zenon
<1>6. /\ mem' = [mem EXCEPT ![buf] = mem[buf] \o SubSeq(unprocessed, 1, n)]
      /\ unprocessed' = SubSeq(unprocessed, n + 1, Len(unprocessed))
      /\ phase' = IF left = n THEN "skip" ELSE "body"
  BY DEF CopyBody
<1> HIDE DEF left, n
<1> QED
  BY <1>2, <1>3, <1>4, <1>5, <1>6

(* The bytes after a part of request k, put behind that part.              *)
LEMMA Copied ==
  ASSUME NEW k \in 1 .. N, NEW m \in Seq(Nat), NEW c \in Seq(Nat),
         Len(m) + Len(c) <= Len(Bodies[k]),
         \A j \in 1 .. Len(m) : m[j] = Bodies[k][j],
         \A j \in 1 .. Len(c) : c[j] = File[BodyAt(k) + Len(m) + j]
  PROVE  /\ m \o c \in Seq(Nat) /\ Len(m \o c) = Len(m) + Len(c)
         /\ \A j \in 1 .. Len(m \o c) : (m \o c)[j] = Bodies[k][j]
         /\ Len(m) + Len(c) = Len(Bodies[k]) => m \o c = Bodies[k]
<1> DEFINE new == m \o c
<1>1. /\ new \in Seq(Nat) /\ Len(new) = Len(m) + Len(c)
      /\ \A j \in 1 .. Len(m) : new[j] = m[j]
      /\ \A j \in 1 .. Len(c) : new[Len(m) + j] = c[j]
  BY ConcatParts
<1>2. Len(m) \in Nat /\ Len(c) \in Nat
  BY LenProperties
<1>3. Bodies[k] \in Seq(Nat) /\ Len(Bodies[k]) \in Nat /\ BodyAt(k) \in Nat
  BY Lengths, Zenon
<1>4. \A j \in 1 .. Len(Bodies[k]) : File[BodyAt(k) + j] = Bodies[k][j]
  BY Layout, Zenon
<1> HIDE DEF new
<1>5. ASSUME NEW j \in 1 .. Len(new) PROVE new[j] = Bodies[k][j]
  <2>1. CASE j \in 1 .. Len(m)
    BY <1>1, <2>1
  <2>2. CASE j \notin 1 .. Len(m)
    <3>1. PICK h \in 1 .. Len(c) : j = Len(m) + h
      <4>1. j - Len(m) \in 1 .. Len(c) /\ j = Len(m) + (j - Len(m))
        BY <1>1, <1>2, <2>2
      <4> QED
        BY <4>1
    <3>2. j \in 1 .. Len(Bodies[k]) /\ BodyAt(k) + Len(m) + h = BodyAt(k) + j
      <4>1. h \in 1 .. Len(c) /\ j = Len(m) + h
        BY <3>1
      <4>2. h \in Nat /\ h >= 1 /\ h <= Len(c)
        BY <1>2, <4>1
      <4>3. j \in 1 .. Len(Bodies[k])
        BY <1>2, <1>3, <4>1, <4>2
      <4> QED
        BY <1>2, <1>3, <4>1, <4>2, <4>3
    <3> QED
      BY <1>1, <1>4, <3>1, <3>2
  <2> QED
    BY <2>1, <2>2
<1>6. ASSUME Len(m) + Len(c) = Len(Bodies[k]) PROVE new = Bodies[k]
  BY <1>1, <1>3, <1>5, <1>6, SeqEqual
<1> QED
  BY <1>1, <1>5, <1>6 DEF new

LEMMA CopyCursor ==
  ASSUME IInv, CopyBody
  PROVE  Chunk' /\ Cursor'
<1> DEFINE k == Current
           m == mem[buf]
<1>1. PICK n \in Nat :
           /\ Len(m) + n <= Len(Bodies[k]) /\ n <= Len(unprocessed)
           /\ buf \in 1 .. Len(mem) /\ m \in Seq(Nat) /\ unprocessed \in Seq(Nat)
           /\ mem' = [mem EXCEPT ![buf] = mem[buf] \o SubSeq(unprocessed, 1, n)]
           /\ unprocessed' = SubSeq(unprocessed, n + 1, Len(unprocessed))
           /\ phase' = IF Len(m) + n = Len(Bodies[k]) THEN "skip" ELSE "body"
  BY CopyTakes
<1>2. /\ phase = "body" /\ UNCHANGED <<source, acc, buf, offset, read>> /\ Current' = Current
  BY DEF CopyBody, Current
<1>3. /\ k \in 1 .. N /\ acc = Len(Bodies[k]) /\ At = BodyAt(k) + Len(m)
      /\ \A j \in 1 .. Len(m) : m[j] = Bodies[k][j]
  BY <1>2 DEF IInv, Cursor, InBody
<1>4. /\ Bodies[k] \in Seq(Nat) /\ Len(Bodies[k]) \in Nat /\ BodyAt(k) \in Nat
      /\ Offset[k + 1] = BodyAt(k) + Len(Bodies[k]) + 1
  BY <1>3, Lengths, Zenon
<1>5. /\ Len(unprocessed) \in Nat /\ offset \in Nat /\ At \in Nat /\ At + Len(unprocessed) = offset
      /\ Len(m) \in Nat
  BY <1>1, Numbers, LenProperties
<1>a. n \in Nat /\ Len(m) + n <= Len(Bodies[k]) /\ n <= Len(unprocessed)
  BY <1>1
<1> DEFINE c == SubSeq(unprocessed, 1, n)
           new == m \o c
<1>6. /\ c \in Seq(Nat) /\ Len(c) = n /\ \A j \in 1 .. n : c[j] = unprocessed[j]
      /\ Len(unprocessed') = Len(unprocessed) - n
      /\ \A j \in 1 .. Len(unprocessed) - n : unprocessed'[j] = unprocessed[n + j]
  BY <1>1, Cut
<1>7. mem'[buf'] = new
  <2>1. mem' = [mem EXCEPT ![buf] = new] /\ buf \in DOMAIN mem /\ buf' = buf
    BY <1>1, <1>2, LenProperties DEF IInv, TypeOK
  <2> QED
    BY <2>1
<1>8. \A j \in 1 .. Len(unprocessed) : unprocessed[j] = File[At + j]
  BY DEF IInv, Chunk
<1>m. m \in Seq(Nat)
  BY <1>1
<1> HIDE DEF c, k, m
<1>9. \A j \in 1 .. Len(c) : c[j] = File[BodyAt(k) + Len(m) + j]
  <2>1. \A x, u \in Nat : x <= u => \A j \in 1 .. x : j \in 1 .. u
    OBVIOUS
  <2>2. \A j \in 1 .. n : c[j] = unprocessed[j] /\ j \in 1 .. Len(unprocessed)
    BY <1>5, <1>6, <1>a, <2>1, Zenon
  <2> QED
    BY <1>3, <1>6, <1>8, <2>2, Zenon
<1>11. /\ Len(new) = Len(m) + n /\ \A j \in 1 .. Len(new) : new[j] = Bodies[k][j]
       /\ Len(m) + n = Len(Bodies[k]) => new = Bodies[k]
  BY <1>3, <1>6, <1>9, <1>a, <1>m, Copied
<1> HIDE DEF new
<1>10. At' = At + n /\ Chunk'
  <2>1. At' = offset' - Len(unprocessed')
    BY DEF At
  <2>2. At' = At + n /\ Len(unprocessed') <= offset'
    <3>1. offset' = offset /\ Len(unprocessed') = Len(unprocessed) - n
      BY <1>2, <1>6
    <3> QED
      BY <1>a, <1>5, <2>1, <3>1
  <2>4. ASSUME NEW j \in 1 .. Len(unprocessed') PROVE unprocessed'[j] = File[At' + j]
    <3>1. j \in 1 .. Len(unprocessed) - n
      BY <1>6
    <3>2. n + j \in 1 .. Len(unprocessed) /\ At + (n + j) = At' + j
      BY <1>a, <1>5, <2>2, <3>1
    <3> QED
      BY <1>6, <1>8, <3>1, <3>2
  <2> QED
    BY <2>2, <2>4 DEF Chunk
<1>12. k' = k /\ BodyAt(k)' = BodyAt(k)
  BY <1>2 DEF BodyAt, k
<1>13. CASE Len(m) + n = Len(Bodies[k])
  <2>1. new = Bodies[k]
    BY <1>11, <1>13
  <2>2. phase' = "skip"
    BY <1>1, <1>13
  <2>3. At' = Offset[k + 1] - 1
    <3>1. At' = At + n /\ At = BodyAt(k) + Len(m)
      BY <1>3, <1>10
    <3>2. BodyAt(k) \in Nat /\ Offset[k + 1] = BodyAt(k) + Len(Bodies[k]) + 1
      BY <1>4
    <3>3. At' = BodyAt(k) + Len(m) + n /\ Len(m) + n = Len(Bodies[k]) /\ n \in Nat /\ Len(m) \in Nat
      BY <1>a, <1>5, <1>13, <3>1
    <3> QED
      BY <3>2, <3>3
  <2>4. Behind'
    BY <1>2, <1>3, <1>7, <2>1, <2>2, <2>3 DEF Behind, k
  <2> QED
    BY <1>10, <2>2, <2>4 DEF Cursor, Between, InSize, InBody
<1>14. CASE Len(m) + n # Len(Bodies[k])
  <2>1. phase' = "body"
    BY <1>1, <1>14
  <2>2. At' = BodyAt(k) + Len(new) /\ Len(new) <= acc
    BY <1>a, <1>3, <1>4, <1>5, <1>10, <1>11
  <2>3. InBody'
    BY <1>2, <1>3, <1>7, <1>11, <1>12, <2>2 DEF InBody, k, BodyAt
  <2> QED
    BY <1>10, <2>1, <2>3 DEF Cursor, Between, InSize, Behind
<1> QED
  BY <1>13, <1>14

LEMMA SkipCursor ==
  ASSUME IInv, SkipLines
  PROVE  Chunk' /\ Cursor'
<1> DEFINE k == Current
<1>1. /\ phase = "skip" /\ unprocessed # << >>
      /\ UNCHANGED <<source, acc, buf, offset, mem, read>> /\ Current' = Current
  BY DEF SkipLines, Current
<1>2. Head(unprocessed) = File[At + 1] /\ At < Len(File) /\ At \in Nat
  BY <1>1, TakeByte
<1>3. /\ k \in 1 .. N /\ mem[buf] = Bodies[k]
      /\ \/ At \in {Offset[k + 1] - 1, Offset[k + 1]}
         \/ source = "file" /\ k = N /\ At = 0
  BY <1>1 DEF IInv, Cursor, Behind
<1>4. Offset[k + 1] \in Nat /\ Offset[1] = 0 /\ 1 \in 1 .. N
  <2>1. Offset[k + 1] \in Nat
    BY <1>3, Lengths, Zenon
  <2> QED
    BY <2>1, Ends
<1>5. ASSUME At = Offset[k + 1] - 1 PROVE Chunk' /\ Cursor'
  <2>1. At + 1 = Offset[k + 1]
    BY <1>2, <1>4, <1>5
  <2>2. File[Offset[k + 1]] = NL
    BY <1>3, Layout, Zenon
  <2>3. unprocessed' = Tail(unprocessed) /\ phase' = "skip"
    BY <1>1, <1>2, <2>1, <2>2 DEF SkipLines
  <2>4. Chunk' /\ At' = Offset[k + 1]
    BY <1>1, <2>1, <2>3, TakeByte
  <2> QED
    BY <1>1, <1>3, <2>3, <2>4 DEF Cursor, Between, InSize, InBody, Behind
<1>6. ASSUME File[At + 1] # NL, At = IF source = "file" /\ k = N THEN 0 ELSE Offset[k + 1]
      PROVE  Chunk' /\ Cursor'
  <2>1. unprocessed' = unprocessed /\ phase' = "read"
    BY <1>1, <1>2, <1>6 DEF SkipLines
  <2>2. Chunk' /\ At' = At
    BY <1>1, <2>1, ChunkFrame
  <2> QED
    BY <1>1, <1>3, <1>6, <2>1, <2>2 DEF Cursor, Between, InSize, InBody, Behind
<1>7. ASSUME At = Offset[k + 1] PROVE Chunk' /\ Cursor'
  <2>1. k # N /\ File[Offset[k + 1] + 1] # NL
    BY <1>2, <1>3, <1>4, <1>7, Following
  <2> QED
    BY <1>6, <1>7, <2>1
<1>8. ASSUME source = "file" /\ k = N /\ At = 0 PROVE Chunk' /\ Cursor'
  <2>1. File[Offset[1] + 1] # NL
    BY <1>4, Following
  <2> QED
    BY <1>4, <1>6, <1>8, <2>1
<1> QED
  BY <1>3, <1>5, <1>7, <1>8

(* A request is handed out, and the next one begins.                       *)
LEMMA ReadCursor ==
  ASSUME IInv, phase = "read", phase' \in {"none", "start"}, read' = read + 1,
         UNCHANGED <<source, unprocessed, offset>>
  PROVE  Chunk' /\ Cursor'
<1>1. Chunk' /\ At' = At
  BY ChunkFrame
<1>2. /\ Current \in 1 .. N
      /\ At = IF source = "file" /\ Current = N THEN 0 ELSE Offset[Current + 1]
  BY DEF IInv, Cursor, Behind
<1>3. read \in Nat /\ N \in Nat \ {0} /\ Offset[1] = 0 /\ source \in {"file", "inmem"}
  BY Numbers, Ends
<1>4. At = Offset[Current']
  <2>1. CASE source = "file"
    <3>1. Current = (read % N) + 1 /\ Current' = ((read + 1) % N) + 1
      BY <2>1 DEF Current
    <3>2. /\ read % N \in 0 .. N - 1
          /\ (read + 1) % N = IF (read % N) + 1 = N THEN 0 ELSE (read % N) + 1
      BY <1>3, ModStep, Zenon
    <3>3. Current' = IF Current = N THEN 1 ELSE Current + 1
      BY <1>3, <3>1, <3>2
    <3> QED
      BY <1>2, <1>3, <2>1, <3>3
  <2>2. CASE source = "inmem"
    <3>1. Current = read + 1 /\ Current' = read + 1 + 1
      BY <2>2 DEF Current
    <3> QED
      BY <1>2, <2>2, <3>1
  <2> QED
    BY <1>3, <2>1, <2>2
<1> QED
  BY <1>1, <1>4 DEF Cursor, Between, InSize, InBody, Behind

LEMMA DoneCursor ==
  ASSUME IInv, InitDone
  PROVE  Chunk' /\ Cursor'
<1>1. phase = "eof" /\ phase' = "none" /\ UNCHANGED <<source, unprocessed, offset, read>>
  BY DEF InitDone
<1>2. source = "inmem" /\ read = N
  <2>1. source = "inmem"
    BY <1>1, Numbers DEF IInv, FileTurns, Filling
  <2> QED
    BY <1>1, <2>1 DEF IInv, InmemTurns
<1>3. Current' = N + 1 /\ At' = At /\ Chunk' /\ At = Len(File)
  BY <1>1, <1>2, ChunkFrame DEF Current, IInv, Cursor, Behind
<1>4. At' = Offset[Current']
  BY <1>3, Ends
<1> QED
  BY <1>1, <1>3, <1>4 DEF Cursor, Between, InSize, InBody, Behind

LEMMA CursorStep ==
  ASSUME IInv, [Next]_vars
  PROVE  Chunk' /\ Cursor'
<1>1. ASSUME UNCHANGED <<source, readVars, mem, read>> PROVE Chunk' /\ Cursor'
  <2>1. UNCHANGED <<source, phase, acc, buf, unprocessed, offset, mem, read>>
    BY <1>1 DEF readVars
  <2>2. Chunk' /\ At' = At
    BY <2>1, ChunkFrame
  <2> QED
    BY <2>1, <2>2, CursorFrame
<1>2. CASE ReadNext
  BY <1>2, FillCursor, FillSizeCursor, CopyCursor, SkipCursor DEF ReadNext
<1>3. CASE InitReads
  BY <1>3, StartCursor DEF InitReads
<1>4. CASE InitAppends
  BY <1>4, ReadCursor DEF InitAppends
<1>5. CASE InitDone
  BY <1>5, DoneCursor
<1>6. ASSUME NEW c \in Clients, Fetch(c) \/ Release(c) PROVE Chunk' /\ Cursor'
  <2>1. CASE Acquire(c)
    BY <1>1, <2>1 DEF Acquire
  <2>2. CASE Lock(c)
    <3>1. lock = "none" /\ pc[c] = "lock" /\ Start("size")
          /\ UNCHANGED <<source, unprocessed, offset, read>>
      BY <2>2 DEF Lock
    <3>2. source = "file"
      <4>1. source = "inmem" => pc[c] \in {"init", "idle", "next"}
        BY DEF IInv, InmemTurns
      <4> QED
        BY <3>1, <4>1, Numbers
    <3>3. phase = "none"
      BY <3>1, <3>2 DEF IInv, FileTurns
    <3> QED
      BY <3>1, <3>3, StartCursor
  <2>3. CASE Unlock(c)
    BY <2>3, ReadCursor DEF Unlock
  <2>4. CASE NextData(c)
    BY <1>1, <2>4 DEF NextData
  <2>5. CASE ReleaseBytes(c)
    BY <1>1, <2>5 DEF ReleaseBytes
  <2>6. CASE ReleaseObject(c)
    BY <1>1, <2>6 DEF ReleaseObject
  <2> QED
    BY <1>6, <2>1, <2>2, <2>3, <2>4, <2>5, <2>6 DEF Fetch, Release
<1>7. CASE UNCHANGED vars
  BY <1>1, <1>7 DEF vars
<1> QED
  BY <1>2, <1>3, <1>4, <1>5, <1>6, <1>7 DEF Next, InmemInit

-----------------------------------------------------------------------------
(* What the actions do, for the parts of the invariant on types and        *)
(* ownership.                                                              *)

(* ReadNext writes into its own buffer.                                    *)
LEMMA ReaderStep ==
  ASSUME IInv, ReadNext
  PROVE  /\ Filling /\ phase' \in {"size", "body", "skip", "read", "eof"}
         /\ phase' = "eof" => source = "inmem" /\ Current = N + 1
         /\ acc' \in Nat /\ offset' \in 0 .. Len(File)
         /\ unprocessed' \in Seq(Nat) /\ Len(unprocessed') <= BufSize
         /\ mem' \in Seq(Seq(Nat)) /\ Len(mem') = Len(mem)
         /\ \A b \in 1 .. Len(mem) : b # buf => mem'[b] = mem[b]
         /\ UNCHANGED <<source, pc, cur, lock, buf, pool, bytesPool, bytes, i, datas, flight,
                        releasing, read, want, taken>>
<1>0. /\ unprocessed \in Seq(Nat) /\ Len(unprocessed) \in Nat /\ Len(unprocessed) <= BufSize
      /\ offset \in 0 .. Len(File) /\ acc \in Nat /\ mem \in Seq(Seq(Nat)) /\ BufSize \in Nat
      /\ offset \in Nat /\ Len(File) \in Nat /\ source \in {"file", "inmem"}
  BY Numbers, Ends, BoundsAssumption DEF IInv, TypeOK
<1>1. CASE Fill
  <2>1. /\ UNCHANGED <<source, pc, cur, lock, acc, buf, pool, bytesPool, mem, bytes, i, datas,
                       flight, releasing, read, want, taken>>
        /\ phase \in {"size", "body", "skip"} /\ unprocessed = << >>
    BY <1>1 DEF Fill, poolVars, Reading
  <2>2. CASE offset < Len(File)
    <3>1. PICK n \in 1 .. BufSize : /\ offset + n <= Len(File) /\ offset' = offset + n
                                    /\ unprocessed' = SubSeq(File, offset + 1, offset + n)
      BY <1>1, <2>2 DEF Fill
    <3>2. n \in Nat /\ n >= 1 /\ n <= BufSize
      BY <1>0, <3>1
    <3>3. \A j \in offset + 1 .. offset + n : File[j] \in Nat
      <4>1. \A j \in offset + 1 .. offset + n : j \in 1 .. Len(File)
        BY <1>0, <3>1, <3>2
      <4>2. \A j \in 1 .. Len(File) : File[j] \in Nat
        BY FileAssumption, ElementOfSeq
      <4> QED
        BY <4>1, <4>2, Zenon
    <3>4. /\ unprocessed' \in Seq(Nat)
          /\ Len(unprocessed') = IF offset + 1 <= offset + n THEN offset + n - (offset + 1) + 1 ELSE 0
      BY <1>0, <3>1, <3>2, <3>3, SubSeqProperties
    <3>5. Len(unprocessed') <= BufSize
      BY <1>0, <3>2, <3>4
    <3>6. offset' \in 0 .. Len(File)
      BY <1>0, <3>1, <3>2
    <3>7. phase' = phase
      BY <1>1, <2>2 DEF Fill
    <3> QED
      BY <1>0, <2>1, <3>4, <3>5, <3>6, <3>7 DEF Filling
  <2>3. CASE ~ (offset < Len(File)) /\ source = "file"
    <3>1. offset' = 0 /\ phase' = phase /\ unprocessed' = unprocessed
      BY <1>1, <2>3 DEF Fill, Rewind
    <3> QED
      BY <1>0, <2>1, <3>1 DEF Filling
  <2>4. CASE ~ (offset < Len(File)) /\ source = "inmem"
    <3>1. /\ phase' = (IF phase = "skip" THEN "read" ELSE "eof")
          /\ UNCHANGED <<unprocessed, offset>>
      BY <1>1, <2>4 DEF Fill
    <3>2. At = Len(File)
      <4>1. Len(unprocessed) = 0 /\ offset = Len(File)
        BY <1>0, <2>1, <2>4, EmptySeq
      <4> QED
        BY <1>0, <4>1 DEF At
    <3>3. phase' = "eof" => Current = N + 1
      BY <2>1, <3>1, <3>2, NotAtEnd
    <3> QED
      BY <1>0, <2>1, <2>4, <3>1, <3>3 DEF Filling
  <2> QED
    BY <1>0, <2>2, <2>3, <2>4
<1>2. CASE FillSize
  <2>1. /\ UNCHANGED <<source, pc, cur, lock, offset, buf, pool, bytesPool, mem, bytes, i, datas,
                       flight, releasing, read, want, taken>>
        /\ phase = "size" /\ unprocessed # << >> /\ unprocessed' = Tail(unprocessed)
        /\ phase' \in {"size", "body"}
    BY <1>2 DEF FillSize, poolVars
  <2>2. /\ Head(unprocessed) \in Nat /\ unprocessed' \in Seq(Nat)
        /\ Len(unprocessed') = Len(unprocessed) - 1
    BY <1>0, <2>1, HeadTailProperties
  <2>3. acc' \in Nat
    BY <1>0, <1>2, <2>2 DEF FillSize, AddDigit
  <2>4. Len(unprocessed') <= BufSize
    BY <1>0, <2>2
  <2> QED
    BY <1>0, <2>1, <2>2, <2>3, <2>4 DEF Filling
<1>3. CASE CopyBody
  <2>1. /\ UNCHANGED <<source, pc, cur, lock, acc, offset, buf, pool, bytesPool, bytes, i, datas,
                       flight, releasing, read, want, taken>>
        /\ phase = "body"
    BY <1>3 DEF CopyBody, poolVars
  <2>2. PICK n \in Nat :
           /\ n <= Len(unprocessed)
           /\ buf \in 1 .. Len(mem) /\ mem[buf] \in Seq(Nat)
           /\ mem' = [mem EXCEPT ![buf] = mem[buf] \o SubSeq(unprocessed, 1, n)]
           /\ unprocessed' = SubSeq(unprocessed, n + 1, Len(unprocessed))
           /\ phase' \in {"skip", "body"}
    <3>1. PICK n \in Nat :
           /\ n <= Len(unprocessed)
           /\ buf \in 1 .. Len(mem) /\ mem[buf] \in Seq(Nat)
           /\ mem' = [mem EXCEPT ![buf] = mem[buf] \o SubSeq(unprocessed, 1, n)]
           /\ unprocessed' = SubSeq(unprocessed, n + 1, Len(unprocessed))
           /\ phase' = IF Len(mem[buf]) + n = Len(Bodies[Current]) THEN "skip" ELSE "body"
      BY <1>3, CopyTakes
    <3>2. phase' \in {"skip", "body"}
      BY <3>1
    <3> QED
      BY <3>1, <3>2
  <2>3. /\ SubSeq(unprocessed, 1, n) \in Seq(Nat) /\ unprocessed' \in Seq(Nat)
        /\ Len(unprocessed') = Len(unprocessed) - n
    BY <1>0, <2>2, Cut
  <2>4. mem[buf] \o SubSeq(unprocessed, 1, n) \in Seq(Nat)
    BY <2>2, <2>3, ConcatParts
  <2>5. /\ mem' \in Seq(Seq(Nat)) /\ Len(mem') = Len(mem)
        /\ \A b \in 1 .. Len(mem) : b # buf => mem'[b] = mem[b]
    BY <1>0, <2>2, <2>4, ExceptSeq
  <2>6. Len(unprocessed') <= BufSize
    <3>1. n \in Nat
      BY <2>2
    <3> QED
      BY <1>0, <2>3, <3>1
  <2>7. phase' \in {"skip", "body"}
    BY <2>2
  <2> QED
    BY <1>0, <2>1, <2>3, <2>5, <2>6, <2>7 DEF Filling
<1>4. CASE SkipLines
  <2>1. /\ UNCHANGED <<source, pc, cur, lock, acc, offset, buf, pool, bytesPool, mem, bytes, i,
                       datas, flight, releasing, read, want, taken>>
        /\ phase = "skip" /\ unprocessed # << >>
        /\ unprocessed' = Tail(unprocessed) \/ unprocessed' = unprocessed
        /\ phase' \in {"skip", "read"}
    BY <1>4 DEF SkipLines, poolVars
  <2>2. Tail(unprocessed) \in Seq(Nat) /\ Len(Tail(unprocessed)) = Len(unprocessed) - 1
    BY <1>0, <2>1, HeadTailProperties
  <2>3. unprocessed' \in Seq(Nat) /\ Len(unprocessed') <= BufSize
    <3>1. Len(Tail(unprocessed)) <= BufSize
      BY <1>0, <2>2
    <3>2. unprocessed' = Tail(unprocessed) \/ unprocessed' = unprocessed
      BY <2>1
    <3> QED
      BY <1>0, <2>2, <3>1, <3>2
  <2> QED
    BY <1>0, <2>1, <2>3 DEF Filling
<1> QED
  BY <1>1, <1>2, <1>3, <1>4 DEF ReadNext

(* Fetch takes an object that nobody has.                                  *)
LEMMA AcquireTakes ==
  ASSUME IInv, NEW c \in Clients, Acquire(c)
  PROVE  \E o \in 1 .. Len(bytes') :
           /\ cur' = [cur EXCEPT ![c] = o]
           /\ pool' \in Seq(1 .. Len(bytes')) /\ IsInjective(pool') /\ Range(pool') = Range(pool) \ {o}
           /\ o \in Range(pool) \/ o \notin 1 .. Len(bytes)
           /\ bytes' \in Seq({0} \cup Buffers) /\ Len(bytes) <= Len(bytes') /\ Len(bytes') \in Nat
           /\ want' \in Seq({0} \cup DOMAIN Bodies) /\ Len(want') = Len(bytes')
           /\ \A p \in 1 .. Len(bytes) : bytes'[p] = bytes[p] /\ want'[p] = want[p]
<1>0. /\ bytes \in Seq({0} \cup Buffers) /\ want \in Seq({0} \cup DOMAIN Bodies)
      /\ Len(want) = Len(bytes) /\ Len(bytes) \in Nat /\ pool \in Seq(1 .. Len(bytes))
      /\ IsInjective(pool)
  BY Numbers DEF IInv, TypeOK, Owned, ObjectsOwned
<1>1. CASE pool = << >>
  <2>1. /\ bytes' = Append(bytes, 0) /\ want' = Append(want, 0) /\ pool' = pool
        /\ cur' = [cur EXCEPT ![c] = Len(bytes) + 1]
    BY <1>1 DEF Acquire
  <2>2. /\ bytes' \in Seq({0} \cup Buffers) /\ Len(bytes') = Len(bytes) + 1
        /\ \A p \in 1 .. Len(bytes) : bytes'[p] = bytes[p]
    BY <1>0, <2>1, AppendProperties
  <2>3. /\ want' \in Seq({0} \cup DOMAIN Bodies) /\ Len(want') = Len(bytes) + 1
        /\ \A p \in 1 .. Len(bytes) : want'[p] = want[p]
    BY <1>0, <2>1, AppendProperties
  <2>4. 1 .. Len(bytes) \subseteq 1 .. Len(bytes')
    BY <1>0, <2>2
  <2>5. pool' \in Seq(1 .. Len(bytes'))
    BY <1>0, <2>1, <2>4, SeqMonotonic
  <2>6. Len(bytes) + 1 \in 1 .. Len(bytes') /\ Len(bytes) + 1 \notin 1 .. Len(bytes)
    BY <1>0, <2>2
  <2>7. Range(pool') = Range(pool) \ {Len(bytes) + 1}
    BY <1>0, <2>1, <2>6, RangeOfSeq
  <2>8. Len(bytes) <= Len(bytes') /\ Len(bytes') \in Nat
    BY <1>0, <2>2
  <2> QED
    BY <1>0, <2>1, <2>2, <2>3, <2>5, <2>6, <2>7, <2>8
<1>2. CASE pool # << >>
  <2>1. /\ bytes' = bytes /\ want' = want /\ pool' = Front(pool)
        /\ cur' = [cur EXCEPT ![c] = Last(pool)]
    BY <1>2 DEF Acquire
  <2>2. /\ Last(pool) \in 1 .. Len(bytes) /\ Last(pool) \in Range(pool)
        /\ pool' \in Seq(1 .. Len(bytes)) /\ IsInjective(pool')
        /\ Range(pool') = Range(pool) \ {Last(pool)}
    BY <1>0, <1>2, <2>1, Pop
  <2>3. Len(bytes) <= Len(bytes') /\ Len(bytes') = Len(bytes) /\ Len(want') = Len(bytes')
    BY <1>0, <2>1
  <2>4. /\ bytes' \in Seq({0} \cup Buffers) /\ want' \in Seq({0} \cup DOMAIN Bodies)
        /\ \A p \in 1 .. Len(bytes) : bytes'[p] = bytes[p] /\ want'[p] = want[p]
    BY <1>0, <2>1
  <2>5. Last(pool) \in 1 .. Len(bytes') /\ pool' \in Seq(1 .. Len(bytes'))
    BY <2>2, <2>3
  <2>6. Len(bytes') \in Nat
    BY <1>0, <2>3
  <2>7. cur' = [cur EXCEPT ![c] = Last(pool)]
    BY <2>1
  <2> QED
    BY <2>2, <2>3, <2>4, <2>5, <2>6, <2>7, Zenon
<1> QED
  BY <1>1, <1>2

(* The request that InmemDataSource gives out.                             *)
LEMMA NextDataGives ==
  ASSUME IInv, NEW c \in Clients, NextData(c)
  PROVE  LET k == ((i + 1) % N) + 1
         IN /\ source = "inmem" /\ phase = "none" /\ k \in 1 .. N /\ datas[k] \in Buffers
            /\ mem[datas[k]] = Bodies[k] /\ Fetched(c, datas[k], k)
<1> DEFINE k == ((i + 1) % N) + 1
<1>1. source = "inmem" /\ phase = "none"
  <2>1. pc[c] = "next"
    BY DEF NextData
  <2>2. source # "file"
    BY <2>1 DEF IInv, FileTurns
  <2> QED
    BY <2>1, <2>2, Numbers DEF IInv, InmemTurns
<1>2. Len(datas) = N /\ \A j \in 1 .. N : mem[datas[j]] = Bodies[j]
  BY <1>1 DEF IInv, InmemTurns
<1>3. Fetched(c, datas[k], k)
  BY <1>2 DEF NextData
<1>4. k \in 1 .. N
  <2>1. i + 1 \in Nat /\ N \in Nat \ {0}
    BY Numbers, Ends
  <2>2. (i + 1) % N \in 0 .. N - 1
    BY <2>1, ModStep
  <2> QED
    BY <2>1, <2>2
<1>5. datas[k] \in Buffers
  BY <1>2, <1>4, ElementOfSeq DEF IInv, TypeOK
<1> QED
  BY <1>1, <1>2, <1>3, <1>4, <1>5

LEMMA UnlockGives ==
  ASSUME IInv, NEW c \in Clients, Unlock(c)
  PROVE  LET k == (read % N) + 1
         IN /\ source = "file" /\ phase = "read" /\ phase' = "none" /\ k \in 1 .. N
            /\ k = Current /\ buf \in Buffers /\ mem[buf] = Bodies[k] /\ Fetched(c, buf, k)
<1>1. pc[c] = "read" /\ phase = "read" /\ phase' = "none" /\ Fetched(c, buf, (read % N) + 1)
  BY DEF Unlock, N
<1>2. source = "file"
  <2>1. source # "inmem"
    BY <1>1 DEF IInv, InmemTurns
  <2> QED
    BY <2>1, Numbers
<1>3. Current = (read % N) + 1 /\ Current \in 1 .. N /\ mem[buf] = Bodies[Current]
  BY <1>1, <1>2 DEF Current, IInv, Cursor, Behind
<1>4. buf \in Buffers
  BY <1>1 DEF IInv, BuffersOwned, Filling
<1> QED
  BY <1>1, <1>2, <1>3, <1>4

(* The object becomes that of the request, and is in flight.               *)
LEMMA FetchedPuts ==
  ASSUME IInv, NEW c \in Clients, cur[c] # 0, NEW b \in Buffers, NEW k \in 1 .. N, Fetched(c, b, k)
  PROVE  /\ cur[c] \in 1 .. Len(bytes)
         /\ bytes' \in Seq({0} \cup Buffers) /\ Len(bytes') = Len(bytes)
         /\ want' \in Seq({0} \cup DOMAIN Bodies) /\ Len(want') = Len(bytes)
         /\ bytes'[cur[c]] = b /\ want'[cur[c]] = k
         /\ \A p \in 1 .. Len(bytes) : p # cur[c] => bytes'[p] = bytes[p] /\ want'[p] = want[p]
<1>0. /\ bytes \in Seq({0} \cup Buffers) /\ want \in Seq({0} \cup DOMAIN Bodies)
      /\ Len(want) = Len(bytes) /\ Len(bytes) \in Nat
  BY Numbers DEF IInv, TypeOK
<1>1. cur[c] \in 1 .. Len(bytes)
  BY Numbers DEF IInv, TypeOK
<1>2. bytes' = [bytes EXCEPT ![cur[c]] = b] /\ want' = [want EXCEPT ![cur[c]] = k]
  BY DEF Fetched
<1>3. k \in {0} \cup DOMAIN Bodies /\ b \in {0} \cup Buffers
  BY Ends
<1>4. /\ bytes' \in Seq({0} \cup Buffers) /\ Len(bytes') = Len(bytes)
      /\ \A p \in 1 .. Len(bytes) : bytes'[p] = IF p = cur[c] THEN b ELSE bytes[p]
  BY <1>0, <1>1, <1>2, <1>3, ExceptSeq
<1>5. /\ want' \in Seq({0} \cup DOMAIN Bodies) /\ Len(want') = Len(bytes)
      /\ \A p \in 1 .. Len(bytes) : want'[p] = IF p = cur[c] THEN k ELSE want[p]
  BY <1>0, <1>1, <1>2, <1>3, ExceptSeq
<1> QED
  BY <1>1, <1>4, <1>5

-----------------------------------------------------------------------------
(* Types.                                                                  *)

ReadTypes ==
  /\ phase \in {"none", "start", "size", "body", "skip", "read", "eof"} /\ acc \in Nat
  /\ unprocessed \in Seq(Nat) /\ Len(unprocessed) <= BufSize /\ offset \in 0 .. Len(File)
BufferTypes ==
  /\ mem \in Seq(Seq(Nat)) /\ buf \in {0} \cup Buffers /\ bytesPool \in Seq(Buffers)
  /\ bytes \in Seq({0} \cup Buffers) /\ datas \in Seq(Buffers)
ObjectTypes ==
  /\ cur \in [Clients -> {0} \cup Objects] /\ pool \in Seq(Objects)
  /\ flight \in [Clients -> SUBSET Objects] /\ releasing \in [Clients -> {0} \cup Objects]
  /\ want \in Seq({0} \cup DOMAIN Bodies) /\ Len(want) = Len(bytes)
OtherTypes ==
  /\ source \in Sources /\ pc \in [Clients -> {"init", "idle", "lock", "read", "next"}]
  /\ lock \in {"none"} \cup Clients /\ taken \in [DOMAIN Bodies -> Nat] /\ i \in Nat /\ read \in Nat

LEMMA TypeParts == TypeOK <=> ReadTypes /\ BufferTypes /\ ObjectTypes /\ OtherTypes
  BY DEF TypeOK, ReadTypes, BufferTypes, ObjectTypes, OtherTypes

(* More buffers, or more objects.                                          *)
LEMMA MoreBuffers ==
  ASSUME IInv, mem' \in Seq(Seq(Nat)), Len(mem) <= Len(mem'), UNCHANGED <<bytes, datas>>,
         bytesPool' \in Seq(1 .. Len(mem')), buf' \in {0} \cup 1 .. Len(mem')
  PROVE  BufferTypes'
<1>1. Len(mem') \in Nat /\ DOMAIN mem' = 1 .. Len(mem')
  BY LenProperties
<1>2. Buffers' = 1 .. Len(mem') /\ Buffers \subseteq Buffers'
  BY <1>1, Numbers DEF Buffers
<1>3. {0} \cup Buffers \subseteq {0} \cup Buffers'
  BY <1>2
<1>4. bytes \in Seq({0} \cup Buffers) /\ datas \in Seq(Buffers)
  BY DEF IInv, TypeOK
<1>5. bytes' \in Seq({0} \cup Buffers') /\ datas' \in Seq(Buffers')
  BY <1>2, <1>3, <1>4, SeqMonotonic
<1> QED
  BY <1>2, <1>5 DEF BufferTypes

LEMMA MoreObjects ==
  ASSUME IInv, bytes' \in Seq({0} \cup Buffers), Len(bytes) <= Len(bytes'),
         UNCHANGED <<mem, buf, bytesPool, datas>>,
         cur' \in [Clients -> {0} \cup 1 .. Len(bytes')], pool' \in Seq(1 .. Len(bytes')),
         flight' \in [Clients -> SUBSET (1 .. Len(bytes'))],
         releasing' \in [Clients -> {0} \cup 1 .. Len(bytes')],
         want' \in Seq({0} \cup DOMAIN Bodies), Len(want') = Len(bytes')
  PROVE  BufferTypes' /\ ObjectTypes'
<1>1. Objects' = 1 .. Len(bytes') /\ Buffers' = Buffers
  BY LenProperties DEF Objects, Buffers
<1> QED
  BY <1>1 DEF BufferTypes, ObjectTypes, IInv, TypeOK

LEMMA TypeFetched ==
  ASSUME IInv, NEW c \in Clients, cur[c] # 0, NEW b \in Buffers, NEW k \in 1 .. N, Fetched(c, b, k),
         UNCHANGED <<mem, buf, bytesPool, datas, pool, releasing>>
  PROVE  /\ BufferTypes' /\ ObjectTypes'
         /\ pc' \in [Clients -> {"init", "idle", "lock", "read", "next"}]
         /\ taken' \in [DOMAIN Bodies -> Nat]
<1> DEFINE O == 1 .. Len(bytes)
<1>1. /\ cur[c] \in O /\ bytes' \in Seq({0} \cup Buffers) /\ Len(bytes') = Len(bytes)
      /\ want' \in Seq({0} \cup DOMAIN Bodies) /\ Len(want') = Len(bytes)
  BY FetchedPuts
<1>2. /\ cur \in [Clients -> {0} \cup O] /\ pool \in Seq(O) /\ flight \in [Clients -> SUBSET O]
      /\ releasing \in [Clients -> {0} \cup O] /\ Len(bytes) \in Nat
      /\ pc \in [Clients -> {"init", "idle", "lock", "read", "next"}]
      /\ taken \in [DOMAIN Bodies -> Nat] /\ k \in DOMAIN Bodies
  BY Numbers, Ends DEF IInv, TypeOK
<1>3. /\ taken' = [taken EXCEPT ![k] = @ + 1]
      /\ flight' = [flight EXCEPT ![c] = @ \cup {cur[c]}] /\ cur' = [cur EXCEPT ![c] = 0]
      /\ pc' = [pc EXCEPT ![c] = "idle"]
  BY DEF Fetched
<1> HIDE DEF O
<1>4. taken' \in [DOMAIN Bodies -> Nat]
  BY <1>2, <1>3
<1>5. pc' \in [Clients -> {"init", "idle", "lock", "read", "next"}]
  BY <1>2, <1>3
<1>6. cur' \in [Clients -> {0} \cup O] /\ flight' \in [Clients -> SUBSET O]
  BY <1>1, <1>2, <1>3
<1>7. 1 .. Len(bytes') = O /\ Len(bytes) <= Len(bytes')
  BY <1>1, <1>2 DEF O
<1>8. BufferTypes' /\ ObjectTypes'
  BY <1>1, <1>2, <1>6, <1>7, MoreObjects
<1> QED
  BY <1>4, <1>5, <1>8

(* Who fetches has an object.                                              *)
LEMMA HasObject ==
  ASSUME IInv, NEW c \in Clients, pc[c] \in {"lock", "read", "next"}
  PROVE  cur[c] # 0
  BY DEF IInv, Owned

LEMMA TypeStep ==
  ASSUME IInv, [Next]_vars
  PROVE  TypeOK'
<1>0. ReadTypes /\ BufferTypes /\ ObjectTypes /\ OtherTypes
  BY TypeParts DEF IInv
<1>p. ASSUME ReadTypes', BufferTypes', ObjectTypes', OtherTypes' PROVE TypeOK'
  BY <1>p DEF TypeOK, ReadTypes, BufferTypes, ObjectTypes, OtherTypes
<1>r. ASSUME UNCHANGED readVars PROVE ReadTypes'
  BY <1>r, <1>0 DEF readVars, ReadTypes
<1>b. ASSUME UNCHANGED <<mem, buf, bytesPool, bytes, datas>> PROVE BufferTypes'
  BY <1>b, <1>0 DEF BufferTypes, Buffers
<1>o. ASSUME UNCHANGED <<cur, pool, flight, releasing, want, bytes>> PROVE ObjectTypes'
  BY <1>o, <1>0 DEF ObjectTypes, Objects
<1>t. ASSUME UNCHANGED <<source, pc, lock, taken, i, read>> PROVE OtherTypes'
  BY <1>t, <1>0 DEF OtherTypes
<1>1. CASE ReadNext
  <2>1. ReadTypes'
    BY <1>1, ReaderStep DEF ReadTypes
  <2>2. /\ mem' \in Seq(Seq(Nat)) /\ Len(mem') = Len(mem)
        /\ UNCHANGED <<source, pc, cur, lock, buf, pool, bytesPool, bytes, i, datas, flight,
                       releasing, read, want, taken>>
    BY <1>1, ReaderStep
  <2>3. BufferTypes'
    <3>1. Len(mem) <= Len(mem') /\ Buffers = 1 .. Len(mem')
      BY <2>2, Numbers
    <3> QED
      BY <1>0, <2>2, <3>1, MoreBuffers DEF BufferTypes
  <2>4. ObjectTypes' /\ OtherTypes'
    BY <2>2, <1>o, <1>t
  <2> QED
    BY <2>1, <2>3, <2>4, <1>p
<1>2. ASSUME Start("size"), UNCHANGED <<unprocessed, offset, bytes, datas>> PROVE ReadTypes' /\ BufferTypes'
  <2>1. /\ phase' = "size" /\ acc' = 0 /\ mem' \in Seq(Seq(Nat)) /\ Len(mem) <= Len(mem')
        /\ buf' \in 1 .. Len(mem') /\ bytesPool' \in Seq(1 .. Len(mem'))
    BY <1>2, StartTakes
  <2> QED
    BY <1>0, <1>2, <2>1, MoreBuffers DEF ReadTypes
<1>3. CASE InitReads
  <2>1. ReadTypes' /\ BufferTypes'
    BY <1>2, <1>3 DEF InitReads
  <2>2. ObjectTypes' /\ OtherTypes'
    BY <1>3, <1>o, <1>t DEF InitReads
  <2> QED
    BY <2>1, <2>2, <1>p
<1>4. CASE InitAppends
  <2>1. buf \in Buffers /\ datas' = Append(datas, buf)
    BY <1>4 DEF InitAppends, IInv, BuffersOwned, Filling
  <2>2. datas' \in Seq(Buffers)
    BY <1>0, <2>1, AppendProperties DEF BufferTypes
  <2>3. BufferTypes'
    BY <1>0, <1>4, <2>2 DEF InitAppends, poolVars, BufferTypes, Buffers
  <2>4. ReadTypes' /\ OtherTypes'
    BY <1>0, <1>4 DEF InitAppends, ReadTypes, OtherTypes
  <2>5. ObjectTypes'
    BY <1>4, <1>o DEF InitAppends, poolVars
  <2> QED
    BY <2>3, <2>4, <2>5, <1>p
<1>5. CASE InitDone
  <2>1. ReadTypes' /\ OtherTypes'
    BY <1>0, <1>5 DEF InitDone, ReadTypes, OtherTypes
  <2>2. BufferTypes' /\ ObjectTypes'
    BY <1>5, <1>b, <1>o DEF InitDone, poolVars
  <2> QED
    BY <2>1, <2>2, <1>p
<1>6. ASSUME NEW c \in Clients, Fetch(c) \/ Release(c) PROVE TypeOK'
  <2>1. CASE Acquire(c)
    <3>1. PICK o \in 1 .. Len(bytes') :
           /\ cur' = [cur EXCEPT ![c] = o] /\ pool' \in Seq(1 .. Len(bytes'))
           /\ bytes' \in Seq({0} \cup Buffers) /\ Len(bytes) <= Len(bytes') /\ Len(bytes') \in Nat
           /\ want' \in Seq({0} \cup DOMAIN Bodies) /\ Len(want') = Len(bytes')
      BY <2>1, AcquireTakes
    <3>2. 1 .. Len(bytes) \subseteq 1 .. Len(bytes') /\ Objects = 1 .. Len(bytes)
      BY <3>1, Numbers
    <3>3. UNCHANGED <<mem, buf, bytesPool, datas, flight, releasing>> /\ UNCHANGED readVars
      BY <2>1 DEF Acquire, readVars
    <3>4. cur' \in [Clients -> {0} \cup 1 .. Len(bytes')]
      BY <1>0, <3>1, <3>2 DEF ObjectTypes
    <3>5. /\ flight' \in [Clients -> SUBSET (1 .. Len(bytes'))]
          /\ releasing' \in [Clients -> {0} \cup 1 .. Len(bytes')]
      BY <1>0, <3>2, <3>3 DEF ObjectTypes
    <3>6. BufferTypes' /\ ObjectTypes'
      BY <3>1, <3>3, <3>4, <3>5, MoreObjects
    <3>7. OtherTypes'
      BY <1>0, <2>1 DEF Acquire, OtherTypes
    <3> QED
      BY <1>r, <3>3, <3>6, <3>7, <1>p
  <2>2. CASE Lock(c)
    <3>1. ReadTypes' /\ BufferTypes'
      BY <1>2, <2>2 DEF Lock
    <3>2. OtherTypes'
      BY <1>0, <2>2 DEF Lock, OtherTypes
    <3>3. ObjectTypes'
      BY <2>2, <1>o DEF Lock
    <3> QED
      BY <3>1, <3>2, <3>3, <1>p
  <2>3. CASE Unlock(c)
    <3>1. (read % N) + 1 \in 1 .. N /\ buf \in Buffers /\ Fetched(c, buf, (read % N) + 1)
      BY <2>3, UnlockGives
    <3>2. /\ pc[c] = "read" /\ read' = read + 1 /\ lock' = "none" /\ phase' = "none"
          /\ UNCHANGED <<source, acc, buf, unprocessed, offset, pool, bytesPool, mem, i, datas,
                         releasing>>
      BY <2>3 DEF Unlock, poolVars
    <3>3. cur[c] # 0
      BY <3>2, HasObject
    <3>4. /\ BufferTypes' /\ ObjectTypes'
          /\ pc' \in [Clients -> {"init", "idle", "lock", "read", "next"}]
          /\ taken' \in [DOMAIN Bodies -> Nat]
      BY <3>1, <3>2, <3>3, TypeFetched
    <3>5. ReadTypes' /\ OtherTypes'
      BY <1>0, <3>2, <3>4 DEF ReadTypes, OtherTypes
    <3> QED
      BY <3>4, <3>5, <1>p
  <2>4. CASE NextData(c)
    <3> DEFINE k == ((i + 1) % N) + 1
    <3>1. k \in 1 .. N /\ datas[k] \in Buffers /\ Fetched(c, datas[k], k)
      BY <2>4, NextDataGives
    <3>2. /\ pc[c] = "next" /\ i' = i + 1 /\ UNCHANGED readVars
          /\ UNCHANGED <<source, lock, buf, pool, bytesPool, mem, datas, read, releasing>>
      BY <2>4 DEF NextData, poolVars, readVars
    <3> HIDE DEF k
    <3>3. cur[c] # 0
      BY <3>2, HasObject
    <3>4. /\ BufferTypes' /\ ObjectTypes'
          /\ pc' \in [Clients -> {"init", "idle", "lock", "read", "next"}]
          /\ taken' \in [DOMAIN Bodies -> Nat]
      BY <3>1, <3>2, <3>3, TypeFetched
    <3>5. OtherTypes'
      BY <1>0, <3>2, <3>4 DEF OtherTypes
    <3> QED
      BY <1>r, <3>2, <3>4, <3>5, <1>p
  <2>5. CASE ReleaseBytes(c)
    <3>1. PICK o \in flight[c] :
            /\ releasing' = [releasing EXCEPT ![c] = o]
            /\ bytesPool' = IF source = "file" THEN Append(bytesPool, bytes[o]) ELSE bytesPool
            /\ flight' = [flight EXCEPT ![c] = @ \ {o}]
      BY <2>5 DEF ReleaseBytes
    <3>2. /\ UNCHANGED <<source, pc, cur, lock, pool, mem, buf, bytes, i, datas, read, want, taken>>
          /\ UNCHANGED readVars
      BY <2>5 DEF ReleaseBytes, readVars
    <3>3. bytes[o] \in Buffers /\ o \in Objects
      BY <1>0, <3>1 DEF IInv, BuffersOwned, ObjectTypes
    <3>4. bytesPool' \in Seq(Buffers)
      BY <1>0, <3>1, <3>3, AppendProperties DEF BufferTypes
    <3>5. BufferTypes'
      BY <1>0, <3>2, <3>4 DEF BufferTypes, Buffers
    <3>6. ObjectTypes'
      BY <1>0, <3>1, <3>2, <3>3 DEF ObjectTypes, Objects
    <3> QED
      BY <1>r, <1>t, <3>2, <3>5, <3>6, <1>p
  <2>6. CASE ReleaseObject(c)
    <3>1. releasing[c] \in Objects
      BY <1>0, <2>6 DEF ReleaseObject, ObjectTypes
    <3>2. pool' \in Seq(Objects)
      BY <1>0, <2>6, <3>1, AppendProperties DEF ReleaseObject, ObjectTypes
    <3>3. ObjectTypes'
      BY <1>0, <2>6, <3>2 DEF ReleaseObject, ObjectTypes, Objects
    <3>4. ReadTypes' /\ BufferTypes' /\ OtherTypes'
      BY <2>6, <1>r, <1>b, <1>t DEF ReleaseObject, readVars
    <3> QED
      BY <3>3, <3>4, <1>p
  <2> QED
    BY <1>6, <2>1, <2>2, <2>3, <2>4, <2>5, <2>6 DEF Fetch, Release
<1>7. CASE UNCHANGED vars
  <2>1. ReadTypes' /\ BufferTypes' /\ ObjectTypes' /\ OtherTypes'
    BY <1>7, <1>r, <1>b, <1>o, <1>t DEF vars, readVars, poolVars
  <2> QED
    BY <2>1, <1>p
<1> QED
  BY <1>1, <1>3, <1>4, <1>5, <1>6, <1>7 DEF Next, InmemInit

-----------------------------------------------------------------------------
(* Whose turn it is.                                                       *)

LEMMA WhichSource ==
  ASSUME IInv
  PROVE  /\ phase \in {"start", "eof"} => source = "inmem"
         /\ \A c \in Clients : /\ pc[c] \in {"lock", "read"} => source = "file"
                               /\ pc[c] \in {"init", "next"} => source = "inmem"
  BY Numbers DEF IInv, FileTurns, InmemTurns, Filling

LEMMA FileTurnsStep ==
  ASSUME IInv, [Next]_vars
  PROVE  FileTurns'
<1>a. CASE source = "inmem"
  <2>1. source' = source
    BY DEF Next, ReadNext, Fill, FillSize, CopyBody, SkipLines, InmemInit, InitReads, InitAppends,
           InitDone, Fetch, Acquire, Lock, Unlock, NextData, Release, ReleaseBytes, ReleaseObject, vars
  <2> QED
    BY <1>a, <2>1 DEF FileTurns
<1>b. CASE source = "file"
  <2>1. /\ phase = "none" \/ Filling
        /\ phase = "none" <=> lock = "none"
        /\ \A d \in Clients : pc[d] \in {"idle", "lock", "read"} /\ (pc[d] = "read" <=> lock = d)
        /\ pc \in [Clients -> {"init", "idle", "lock", "read", "next"}] /\ "none" \notin Clients
    BY <1>b, NamesAssumption DEF IInv, FileTurns, TypeOK
  <2>2. CASE ReadNext
    <3>1. Filling /\ phase' \in {"size", "body", "skip", "read"} /\ UNCHANGED <<lock, pc>>
      BY <1>b, <2>2, ReaderStep
    <3> QED
      BY <2>1, <3>1 DEF Filling, FileTurns
  <2>3. CASE InitReads
    BY <2>1, <2>3 DEF InitReads, Filling
  <2>4. CASE InitAppends
    BY <1>b, <2>4 DEF InitAppends
  <2>5. CASE InitDone
    BY <2>1, <2>5 DEF InitDone, Filling
  <2>6. ASSUME NEW c \in Clients, Fetch(c) \/ Release(c) PROVE FileTurns'
    <3>1. CASE Acquire(c)
      <4>1. /\ pc[c] = "idle" /\ pc' = [pc EXCEPT ![c] = "lock"] /\ UNCHANGED <<lock, phase>>
        BY <1>b, <3>1 DEF Acquire, readVars
      <4> QED
        BY <2>1, <4>1 DEF Filling, FileTurns
    <3>2. CASE Lock(c)
      <4>1. lock = "none" /\ lock' = c /\ pc' = [pc EXCEPT ![c] = "read"] /\ phase' = "size"
        BY <3>2 DEF Lock, Start
      <4> QED
        BY <2>1, <4>1 DEF Filling, FileTurns
    <3>3. CASE Unlock(c)
      <4>1. lock = c /\ lock' = "none" /\ pc' = [pc EXCEPT ![c] = "idle"] /\ phase' = "none"
        BY <3>3 DEF Unlock, Fetched
      <4> QED
        BY <2>1, <4>1 DEF Filling, FileTurns
    <3>4. CASE NextData(c)
      BY <2>1, <3>4 DEF NextData
    <3>5. CASE Release(c)
      <4>1. UNCHANGED <<lock, phase, pc>>
        BY <3>5 DEF Release, ReleaseBytes, ReleaseObject, readVars
      <4> QED
        BY <2>1, <4>1 DEF Filling, FileTurns
    <3> QED
      BY <2>6, <3>1, <3>2, <3>3, <3>4, <3>5 DEF Fetch
  <2>7. CASE UNCHANGED vars
    BY <2>1, <2>7 DEF vars, readVars, Filling, FileTurns
  <2> QED
    BY <2>2, <2>3, <2>4, <2>5, <2>6, <2>7 DEF Next, InmemInit
<1> QED
  BY <1>a, <1>b, Numbers

(* The requests read so far stay in their buffers.                         *)
LEMMA DataStay ==
  ASSUME IInv, source = "inmem", Filling \/ phase = "start",
         \A b \in 1 .. Len(mem) : b # buf' => mem'[b] = mem[b], buf' \notin Range(datas)
  PROVE  \A k \in 1 .. read : mem'[datas[k]] = Bodies[k]
<1>1. /\ Len(datas) = read /\ datas \in Seq(Buffers) /\ Buffers = 1 .. Len(mem)
      /\ \A k \in 1 .. read : mem[datas[k]] = Bodies[k]
  BY Numbers DEF IInv, InmemTurns, TypeOK
<1>2. ASSUME NEW k \in 1 .. read PROVE mem'[datas[k]] = Bodies[k]
  <2>1. datas[k] \in 1 .. Len(mem) /\ datas[k] \in Range(datas)
    BY <1>1, ElementOfSeq, LenProperties DEF Range
  <2> QED
    BY <1>1, <2>1
<1> QED
  BY <1>2

LEMMA InmemTurnsStep ==
  ASSUME IInv, [Next]_vars
  PROVE  InmemTurns'
<1>s. source' = source
  BY DEF Next, ReadNext, Fill, FillSize, CopyBody, SkipLines, InmemInit, InitReads, InitAppends,
         InitDone, Fetch, Acquire, Lock, Unlock, NextData, Release, ReleaseBytes, ReleaseObject, vars
<1>a. CASE source = "file"
  BY <1>a, <1>s DEF InmemTurns
<1>b. CASE source = "inmem"
  <2>1. /\ lock = "none" /\ bytesPool = << >> /\ read \in 0 .. N
        /\ phase \in {"none", "eof"} => read = N
        /\ \A d \in Clients : pc[d] \in {"init", "idle", "next"} /\ (pc[d] = "init" <=> phase # "none")
        /\ Len(datas) = read /\ \A k \in 1 .. read : mem[datas[k]] = Bodies[k]
        /\ Filling => buf \notin Range(datas)
        /\ pc \in [Clients -> {"init", "idle", "lock", "read", "next"}]
    BY <1>b DEF IInv, InmemTurns, TypeOK
  <2>n. N \in Nat \ {0} /\ read \in Nat
    BY Ends, Numbers
  <2>2. CASE ReadNext
    <3>1. /\ Filling /\ phase' \in {"size", "body", "skip", "read", "eof"}
          /\ phase' = "eof" => Current = N + 1
          /\ UNCHANGED <<lock, pc, bytesPool, read, datas, buf>>
          /\ \A b \in 1 .. Len(mem) : b # buf => mem'[b] = mem[b]
      BY <2>2, ReaderStep
    <3>2. \A k \in 1 .. read : mem'[datas[k]] = Bodies[k]
      BY <1>b, <2>1, <3>1, DataStay
    <3>3. phase' = "eof" => read = N
      <4>1. Current = read + 1
        BY <1>b DEF Current
      <4> QED
        BY <2>n, <3>1, <4>1
    <3> QED
      BY <2>1, <3>1, <3>2, <3>3 DEF Filling, InmemTurns
  <2>3. CASE InitReads
    <3>1. phase = "start" /\ Start("size") /\ UNCHANGED <<lock, pc, read, datas>>
      BY <2>3 DEF InitReads
    <3>2. /\ phase' = "size" /\ bytesPool' = << >> /\ buf' = Len(mem) + 1
          /\ \A b \in 1 .. Len(mem) : b # buf' => mem'[b] = mem[b]
      BY <2>1, <3>1, StartTakes
    <3>3. buf' \notin Range(datas)
      <4>1. Range(datas) \subseteq 1 .. Len(mem) /\ Len(mem) \in Nat
        BY Numbers, RangeOfSeq DEF IInv, TypeOK
      <4> QED
        BY <3>2, <4>1
    <3>4. \A k \in 1 .. read : mem'[datas[k]] = Bodies[k]
      BY <1>b, <3>1, <3>2, <3>3, DataStay
    <3> QED
      BY <2>1, <3>1, <3>2, <3>3, <3>4 DEF Filling, InmemTurns
  <2>4. CASE InitAppends
    <3>1. /\ phase = "read" /\ phase' = "start" /\ datas' = Append(datas, buf) /\ read' = read + 1
          /\ UNCHANGED <<lock, pc, bytesPool, mem>>
      BY <2>4 DEF InitAppends, poolVars
    <3>2. Current = read + 1 /\ Current \in 1 .. N /\ mem[buf] = Bodies[Current]
      BY <1>b, <3>1 DEF Current, IInv, Cursor, Behind
    <3>3. buf \in Buffers /\ datas \in Seq(Buffers)
      BY <3>1 DEF IInv, TypeOK, BuffersOwned, Filling
    <3>4. /\ Len(datas') = read + 1 /\ datas'[read + 1] = buf
          /\ \A k \in 1 .. read : datas'[k] = datas[k]
      BY <2>1, <3>1, <3>3, AppendProperties
    <3>5. read' \in 0 .. N
      BY <2>n, <3>1, <3>2
    <3>6. ASSUME NEW k \in 1 .. read + 1 PROVE mem[datas'[k]] = Bodies[k]
      BY <2>1, <2>n, <3>2, <3>4
    <3> QED
      BY <2>1, <3>1, <3>4, <3>5, <3>6 DEF Filling, InmemTurns
  <2>5. CASE InitDone
    <3>1. /\ phase = "eof" /\ phase' = "none" /\ pc' = [c \in Clients |-> "idle"]
          /\ UNCHANGED <<lock, bytesPool, mem, read, datas>>
      BY <2>5 DEF InitDone, poolVars
    <3> QED
      BY <2>1, <3>1 DEF Filling, InmemTurns
  <2>6. ASSUME UNCHANGED <<lock, bytesPool, read, phase, datas, mem, buf>>,
               \/ pc' = pc
               \/ \E c \in Clients : \E p \in {"idle", "next"} :
                    pc[c] # "init" /\ pc' = [pc EXCEPT ![c] = p]
        PROVE  InmemTurns'
    <3>1. \A d \in Clients : pc'[d] \in {"init", "idle", "next"} /\ (pc'[d] = "init" <=> phase # "none")
      BY <2>1, <2>6
    <3> QED
      BY <2>1, <2>6, <3>1 DEF Filling, InmemTurns
  <2>7. ASSUME NEW c \in Clients, Fetch(c) \/ Release(c) PROVE InmemTurns'
    <3>1. CASE Acquire(c)
      <4>1. /\ pc[c] = "idle" /\ pc' = [pc EXCEPT ![c] = "next"]
            /\ UNCHANGED <<lock, bytesPool, read, phase, datas, mem, buf>>
        BY <1>b, <3>1 DEF Acquire, readVars
      <4> QED
        BY <2>6, <4>1
    <3>2. CASE Lock(c)
      BY <2>1, <3>2 DEF Lock
    <3>3. CASE Unlock(c)
      BY <2>1, <3>3 DEF Unlock
    <3>4. CASE NextData(c)
      <4>1. /\ pc[c] = "next" /\ pc' = [pc EXCEPT ![c] = "idle"]
            /\ UNCHANGED <<lock, bytesPool, read, phase, datas, mem, buf>>
        BY <3>4 DEF NextData, Fetched, readVars, poolVars
      <4> QED
        BY <2>6, <4>1
    <3>5. CASE Release(c)
      <4>1. UNCHANGED <<lock, bytesPool, read, phase, datas, mem, buf, pc>>
        BY <1>b, <3>5 DEF Release, ReleaseBytes, ReleaseObject, readVars
      <4> QED
        BY <2>6, <4>1
    <3> QED
      BY <2>7, <3>1, <3>2, <3>3, <3>4, <3>5 DEF Fetch
  <2>8. CASE UNCHANGED vars
    BY <2>6, <2>8 DEF vars, readVars, poolVars
  <2> QED
    BY <2>2, <2>3, <2>4, <2>5, <2>7, <2>8 DEF Next, InmemInit
<1> QED
  BY <1>a, <1>b, Numbers

-----------------------------------------------------------------------------
(* Who has which object.                                                   *)

Has(c, o) == o \in flight[c] \/ (o # 0 /\ o \in {cur[c], releasing[c]})
Free(o) == o \in Range(pool)

LEMMA HasAlone ==
  ASSUME IInv
  PROVE  /\ \A c \in Clients : \A o : Has(c, o) => o \in 1 .. Len(bytes) /\ ~ Free(o)
         /\ \A c, d \in Clients : \A o : Has(c, o) /\ Has(d, o) => c = d
<1>1. /\ cur \in [Clients -> {0} \cup 1 .. Len(bytes)] /\ flight \in [Clients -> SUBSET (1 .. Len(bytes))]
      /\ releasing \in [Clients -> {0} \cup 1 .. Len(bytes)]
  BY Numbers DEF IInv, TypeOK
<1>2. ObjectsOwned
  BY DEF IInv, Owned
<1>3. \A c \in Clients : \A o : Has(c, o) => o \in 1 .. Len(bytes)
  BY <1>1 DEF Has
<1>4. \A c \in Clients : \A o : Has(c, o) => ~ Free(o)
  BY <1>2 DEF ObjectsOwned, Has, Free
<1>5. \A c, d \in Clients : \A o : Has(c, o) /\ Has(d, o) => c = d
  BY <1>2 DEF ObjectsOwned, Has
<1> QED
  BY <1>3, <1>4, <1>5

LEMMA OwnedStep ==
  ASSUME IInv, [Next]_vars
  PROVE  Owned'
<1>p. ASSUME IsInjective(pool'),
             \A c \in Clients : \A o : Has(c, o)' => o \notin Range(pool'),
             \A c, d \in Clients : \A o : Has(c, o)' /\ Has(d, o)' => c = d
      PROVE  ObjectsOwned'
  BY <1>p DEF ObjectsOwned, Has
<1>0. /\ IsInjective(pool)
      /\ \A d \in Clients : /\ cur[d] # 0 <=> pc[d] \in {"lock", "read", "next"}
                            /\ cur[d] \notin flight[d] /\ releasing[d] \notin flight[d]
                            /\ cur[d] # 0 => cur[d] # releasing[d]
      /\ cur \in [Clients -> {0} \cup 1 .. Len(bytes)] /\ flight \in [Clients -> SUBSET (1 .. Len(bytes))]
      /\ releasing \in [Clients -> {0} \cup 1 .. Len(bytes)] /\ pool \in Seq(1 .. Len(bytes))
      /\ pc \in [Clients -> {"init", "idle", "lock", "read", "next"}] /\ Len(bytes) \in Nat
      /\ 0 \notin 1 .. Len(bytes)
  <2>1. /\ IsInjective(pool)
        /\ \A d \in Clients : /\ cur[d] # 0 <=> pc[d] \in {"lock", "read", "next"}
                              /\ cur[d] \notin flight[d] /\ releasing[d] \notin flight[d]
                              /\ cur[d] # 0 => cur[d] # releasing[d]
    BY DEF IInv, Owned, ObjectsOwned
  <2>2. /\ cur \in [Clients -> {0} \cup 1 .. Len(bytes)]
        /\ flight \in [Clients -> SUBSET (1 .. Len(bytes))]
        /\ releasing \in [Clients -> {0} \cup 1 .. Len(bytes)] /\ pool \in Seq(1 .. Len(bytes))
        /\ pc \in [Clients -> {"init", "idle", "lock", "read", "next"}] /\ Len(bytes) \in Nat
    BY Numbers DEF IInv, TypeOK
  <2> QED
    BY <2>1, <2>2
<1>1. ASSUME UNCHANGED <<pool, cur, flight, releasing>>,
             \A d \in Clients : pc'[d] \in {"lock", "read", "next"} <=> pc[d] \in {"lock", "read", "next"}
      PROVE  Owned'
  <2>1. ObjectsOwned
    BY DEF IInv, Owned
  <2>2. ObjectsOwned'
    BY <1>1, <2>1 DEF ObjectsOwned
  <2> QED
    BY <1>0, <1>1, <2>2 DEF Owned
<1>2. CASE ReadNext
  BY <1>1, <1>2, ReaderStep
<1>3. CASE InitReads
  BY <1>1, <1>3 DEF InitReads
<1>4. CASE InitAppends
  BY <1>1, <1>4 DEF InitAppends, poolVars
<1>5. CASE InitDone
  <2>1. source = "inmem" /\ phase # "none" /\ pc' = [c \in Clients |-> "idle"]
        /\ UNCHANGED <<pool, cur, flight, releasing>>
    BY <1>5, WhichSource DEF InitDone, poolVars
  <2>2. \A d \in Clients : pc[d] = "init"
    BY <2>1 DEF IInv, InmemTurns
  <2> QED
    BY <1>1, <2>1, <2>2
<1>6. ASSUME NEW c \in Clients, cur[c] # 0, NEW b, NEW k, Fetched(c, b, k), UNCHANGED <<pool, releasing>>
      PROVE  Owned'
  <2>1. /\ flight' = [flight EXCEPT ![c] = @ \cup {cur[c]}] /\ cur' = [cur EXCEPT ![c] = 0]
        /\ pc' = [pc EXCEPT ![c] = "idle"]
    BY <1>6 DEF Fetched
  <2>2. \A d \in Clients : \A o : Has(d, o)' => Has(d, o)
    BY <1>0, <1>6, <2>1 DEF Has
  <2>3. ObjectsOwned'
    BY <1>p, <1>0, <1>6, <2>2, HasAlone DEF Free
  <2>4. \A d \in Clients : /\ cur'[d] # 0 <=> pc'[d] \in {"lock", "read", "next"}
                           /\ cur'[d] \notin flight'[d] /\ releasing'[d] \notin flight'[d]
                           /\ cur'[d] # 0 => cur'[d] # releasing'[d]
    <3> SUFFICES ASSUME NEW d \in Clients
                 PROVE  /\ cur'[d] # 0 <=> pc'[d] \in {"lock", "read", "next"}
                        /\ cur'[d] \notin flight'[d] /\ releasing'[d] \notin flight'[d]
                        /\ cur'[d] # 0 => cur'[d] # releasing'[d]
      OBVIOUS
    <3>1. CASE d = c
      BY <1>0, <1>6, <2>1, <3>1
    <3>2. CASE d # c
      BY <1>0, <1>6, <2>1, <3>2
    <3> QED
      BY <3>1, <3>2
  <2> QED
    BY <2>3, <2>4 DEF Owned
<1>7. ASSUME NEW c \in Clients, Fetch(c) \/ Release(c) PROVE Owned'
  <2>1. CASE Acquire(c)
    <3>1. PICK o \in 1 .. Len(bytes') :
           /\ cur' = [cur EXCEPT ![c] = o]
           /\ IsInjective(pool') /\ Range(pool') = Range(pool) \ {o}
           /\ o \in Range(pool) \/ o \notin 1 .. Len(bytes)
           /\ Len(bytes') \in Nat
      BY <2>1, AcquireTakes
    <3>2. pc[c] = "idle" /\ pc'[c] \in {"lock", "next"} /\ UNCHANGED <<flight, releasing>>
          /\ \A d \in Clients \ {c} : pc'[d] = pc[d]
      BY <1>0, <2>1 DEF Acquire
    <3>3. \A d \in Clients : ~ Has(d, o)
      BY <3>1, HasAlone DEF Free
    <3>4. o # 0
      BY <3>1
    <3>5. \A d \in Clients : \A p : Has(d, p)' => Has(d, p) \/ (d = c /\ p = o)
      BY <1>0, <3>1, <3>2 DEF Has
    <3>6. \A d \in Clients : \A p : Has(d, p)' => p \notin Range(pool')
      BY <3>1, <3>5, HasAlone DEF Free
    <3>7. \A d, e \in Clients : \A p : Has(d, p)' /\ Has(e, p)' => d = e
      BY <3>3, <3>5, HasAlone
    <3>8. ObjectsOwned'
      BY <1>p, <3>1, <3>6, <3>7
    <3>9. o \notin flight[c] /\ o # releasing[c]
      BY <3>3, <3>4 DEF Has
    <3>10. ASSUME NEW d \in Clients
           PROVE  /\ cur'[d] # 0 <=> pc'[d] \in {"lock", "read", "next"}
                  /\ cur'[d] \notin flight'[d] /\ releasing'[d] \notin flight'[d]
                  /\ cur'[d] # 0 => cur'[d] # releasing'[d]
      <4>1. CASE d = c
        BY <1>0, <3>1, <3>2, <3>4, <3>9, <4>1
      <4>2. CASE d # c
        BY <1>0, <3>1, <3>2, <4>2
      <4> QED
        BY <4>1, <4>2
    <3> QED
      BY <3>8, <3>10 DEF Owned
  <2>2. CASE Lock(c)
    <3>1. pc[c] = "lock" /\ pc' = [pc EXCEPT ![c] = "read"] /\ UNCHANGED <<pool, cur, flight, releasing>>
      BY <2>2 DEF Lock
    <3> QED
      BY <1>0, <1>1, <3>1
  <2>3. CASE Unlock(c)
    <3>1. pc[c] = "read" /\ Fetched(c, buf, (read % Len(Bodies)) + 1) /\ UNCHANGED <<pool, releasing>>
      BY <2>3 DEF Unlock, poolVars
    <3>2. cur[c] # 0
      BY <3>1, HasObject
    <3> QED
      BY <1>6, <3>1, <3>2, Zenon
  <2>4. CASE NextData(c)
    <3>1. PICK b, k : Fetched(c, b, k)
      BY <2>4 DEF NextData
    <3>2. pc[c] = "next" /\ UNCHANGED <<pool, releasing>>
      BY <2>4 DEF NextData, poolVars
    <3>3. cur[c] # 0
      BY <3>2, HasObject
    <3> QED
      BY <1>6, <3>1, <3>2, <3>3, Zenon
  <2>5. CASE ReleaseBytes(c)
    <3>1. PICK o \in flight[c] : /\ releasing' = [releasing EXCEPT ![c] = o]
                                 /\ flight' = [flight EXCEPT ![c] = @ \ {o}]
      BY <2>5 DEF ReleaseBytes
    <3>2. releasing[c] = 0 /\ UNCHANGED <<pc, cur, pool>>
      BY <2>5 DEF ReleaseBytes
    <3>3. o \in 1 .. Len(bytes)
      BY <1>0, <3>1
    <3>4. \A d \in Clients : \A p : Has(d, p)' => Has(d, p)
      BY <1>0, <3>1, <3>2 DEF Has
    <3>5. ObjectsOwned'
      BY <1>p, <1>0, <3>2, <3>4, HasAlone DEF Free
    <3>6. ASSUME NEW d \in Clients
          PROVE  /\ cur'[d] # 0 <=> pc'[d] \in {"lock", "read", "next"}
                 /\ cur'[d] \notin flight'[d] /\ releasing'[d] \notin flight'[d]
                 /\ cur'[d] # 0 => cur'[d] # releasing'[d]
      <4>1. CASE d = c
        BY <1>0, <3>1, <3>2, <4>1
      <4>2. CASE d # c
        BY <1>0, <3>1, <3>2, <4>2
      <4> QED
        BY <4>1, <4>2
    <3> QED
      BY <3>5, <3>6 DEF Owned
  <2>6. CASE ReleaseObject(c)
    <3>0. PICK o : o = releasing[c]
      OBVIOUS
    <3>1. /\ o # 0 /\ pool' = Append(pool, o) /\ releasing' = [releasing EXCEPT ![c] = 0]
          /\ UNCHANGED <<pc, cur, flight>>
      BY <2>6, <3>0 DEF ReleaseObject
    <3>2. o \in 1 .. Len(bytes) /\ Has(c, o) /\ o \notin Range(pool)
      <4>1. Has(c, o)
        BY <3>0, <3>1 DEF Has
      <4> QED
        BY <4>1, HasAlone DEF Free
    <3>3. IsInjective(pool') /\ Range(pool') = Range(pool) \cup {o}
      BY <1>0, <3>1, <3>2, Push
    <3>4. \A d \in Clients : \A p : Has(d, p)' => Has(d, p)
      BY <1>0, <3>1 DEF Has
    <3>5. ~ Has(c, o)'
      BY <1>0, <3>0, <3>1 DEF Has
    <3>6. \A d \in Clients : \A p : Has(d, p)' => p \notin Range(pool')
      <4> SUFFICES ASSUME NEW d \in Clients, NEW p, Has(d, p)' PROVE p \notin Range(pool')
        OBVIOUS
      <4>1. Has(d, p)
        BY <3>4
      <4>2. p \notin Range(pool)
        BY <4>1, HasAlone DEF Free
      <4>3. p # o
        BY <3>2, <3>5, <4>1, HasAlone
      <4> QED
        BY <3>3, <4>2, <4>3
    <3>7. \A d, e \in Clients : \A p : Has(d, p)' /\ Has(e, p)' => d = e
      BY <3>4, HasAlone
    <3>8. ObjectsOwned'
      BY <1>p, <3>3, <3>6, <3>7
    <3>9. ASSUME NEW d \in Clients
          PROVE  /\ cur'[d] # 0 <=> pc'[d] \in {"lock", "read", "next"}
                 /\ cur'[d] \notin flight'[d] /\ releasing'[d] \notin flight'[d]
                 /\ cur'[d] # 0 => cur'[d] # releasing'[d]
      <4>1. CASE d = c
        BY <1>0, <3>1, <4>1
      <4>2. CASE d # c
        BY <1>0, <3>1, <4>2
      <4> QED
        BY <4>1, <4>2
    <3> QED
      BY <3>8, <3>9 DEF Owned
  <2> QED
    BY <1>7, <2>1, <2>2, <2>3, <2>4, <2>5, <2>6 DEF Fetch, Release
<1>8. CASE UNCHANGED vars
  BY <1>1, <1>8 DEF vars, poolVars
<1> QED
  BY <1>2, <1>3, <1>4, <1>5, <1>7, <1>8 DEF Next, InmemInit

-----------------------------------------------------------------------------
(* Who has which buffer, and what is in it.                                *)

(* A step of the reader: it writes into the buffer it has, or takes one    *)
(* that no request in flight has.                                          *)
LEMMA BuffersReader ==
  ASSUME IInv, UNCHANGED <<source, bytes, want, flight>>,
         Len(mem) <= Len(mem'), mem' \in Seq(Seq(Nat)),
         \A b \in 1 .. Len(mem) : b # buf' => mem'[b] = mem[b],
         IsInjective(bytesPool'), Range(bytesPool') \subseteq Range(bytesPool),
         Filling' => buf' \in 1 .. Len(mem') /\ buf' \notin Range(bytesPool'),
         \A c \in Clients : \A o \in flight[c] : bytes[o] # buf'
  PROVE  BuffersOwned' /\ RequestsIntact'
<1>1. Buffers = 1 .. Len(mem) /\ Buffers' = 1 .. Len(mem') /\ Len(mem) \in Nat /\ Len(mem') \in Nat
  BY Numbers, LenProperties DEF Buffers
<1>2. Buffers \subseteq Buffers'
  BY <1>1
<1>3. ASSUME NEW c \in Clients, NEW o \in flight[c]
      PROVE  /\ bytes[o] \in Buffers' \ Range(bytesPool') /\ want[o] \in DOMAIN Bodies
             /\ mem'[bytes[o]] = Bodies[want[o]]
  <2>1. bytes[o] \in Buffers \ Range(bytesPool) /\ want[o] \in DOMAIN Bodies
    BY DEF IInv, BuffersOwned
  <2>2. mem[bytes[o]] = Bodies[want[o]]
    BY DEF IInv, RequestsIntact
  <2>3. bytes[o] # buf'
    OBVIOUS
  <2>4. mem'[bytes[o]] = mem[bytes[o]]
    BY <1>1, <2>1, <2>3
  <2> QED
    BY <1>2, <2>1, <2>2, <2>4
<1>4. source = "file" =>
        \A c, d \in Clients : \A o \in flight[c], p \in flight[d] : bytes[o] = bytes[p] => o = p
  BY DEF IInv, BuffersOwned
<1>5. RequestsIntact'
  BY <1>3 DEF RequestsIntact
<1>6. BuffersOwned'
  BY <1>1, <1>3, <1>4 DEF BuffersOwned
<1> QED
  BY <1>5, <1>6

LEMMA BuffersStart ==
  ASSUME IInv, NEW ph, Start(ph), UNCHANGED <<source, bytes, want, flight>>
  PROVE  BuffersOwned' /\ RequestsIntact'
<1>1. /\ mem' \in Seq(Seq(Nat)) /\ Len(mem) <= Len(mem') /\ buf' \in 1 .. Len(mem')
      /\ \A b \in 1 .. Len(mem) : b # buf' => mem'[b] = mem[b]
      /\ IsInjective(bytesPool') /\ Range(bytesPool') = Range(bytesPool) \ {buf'}
      /\ buf' \in Range(bytesPool) \/ buf' \notin 1 .. Len(mem)
  BY StartTakes
<1>2. ASSUME NEW c \in Clients, NEW o \in flight[c] PROVE bytes[o] # buf'
  <2>1. bytes[o] \in 1 .. Len(mem) /\ bytes[o] \notin Range(bytesPool)
    BY Numbers DEF IInv, BuffersOwned
  <2> QED
    BY <1>1, <2>1
<1> QED
  BY <1>1, <1>2, BuffersReader

(* The rest of the step of Fetch that returns.                             *)
LEMMA BuffersFetched ==
  ASSUME IInv, NEW c \in Clients, cur[c] # 0, NEW b \in Buffers, NEW k \in 1 .. N, Fetched(c, b, k),
         UNCHANGED <<source, mem, bytesPool>>, ~ Filling', mem[b] = Bodies[k],
         b \notin Range(bytesPool),
         source = "file" => \A d \in Clients : \A o \in flight[d] : bytes[o] # b
  PROVE  BuffersOwned' /\ RequestsIntact'
<1> DEFINE q == cur[c]
<1>1. /\ q \in 1 .. Len(bytes) /\ bytes'[q] = b /\ want'[q] = k
      /\ \A p \in 1 .. Len(bytes) : p # q => bytes'[p] = bytes[p] /\ want'[p] = want[p]
  BY FetchedPuts
<1>2. flight' = [flight EXCEPT ![c] = @ \cup {q}] /\ flight \in [Clients -> SUBSET (1 .. Len(bytes))]
  BY Numbers DEF Fetched, IInv, TypeOK
<1>3. \A d \in Clients : q \notin flight[d]
  BY HasAlone DEF Has, IInv, Owned
<1>4. Buffers' = Buffers /\ k \in DOMAIN Bodies
  BY Ends DEF Buffers
<1> HIDE DEF q
<1>5. ASSUME NEW d \in Clients, NEW o \in flight'[d]
      PROVE  \/ o = q /\ bytes'[o] = b /\ want'[o] = k
             \/ o \in flight[d] /\ o # q /\ bytes'[o] = bytes[o] /\ want'[o] = want[o]
  <2>1. o = q \/ o \in flight[d]
    BY <1>2
  <2>2. o \in flight[d] => o \in 1 .. Len(bytes) /\ o # q
    BY <1>2, <1>3
  <2> QED
    BY <1>1, <2>1, <2>2
<1>6. \A d \in Clients : \A o \in flight[d] :
        /\ bytes[o] \in Buffers \ Range(bytesPool) /\ want[o] \in DOMAIN Bodies
        /\ mem[bytes[o]] = Bodies[want[o]]
  BY DEF IInv, BuffersOwned, RequestsIntact
<1>7. \A d \in Clients : \A o \in flight'[d] :
        /\ bytes'[o] \in Buffers' \ Range(bytesPool') /\ want'[o] \in DOMAIN Bodies
        /\ mem'[bytes'[o]] = Bodies[want'[o]]
  BY <1>4, <1>5, <1>6
<1>8. source = "file" =>
        \A d, e \in Clients : \A o \in flight'[d], p \in flight'[e] : bytes'[o] = bytes'[p] => o = p
  <2>1. source = "file" =>
          \A d, e \in Clients : \A o \in flight[d], p \in flight[e] : bytes[o] = bytes[p] => o = p
    BY DEF IInv, BuffersOwned
  <2> SUFFICES ASSUME source = "file", NEW d \in Clients, NEW e \in Clients, NEW o \in flight'[d],
                      NEW p \in flight'[e], bytes'[o] = bytes'[p]
               PROVE  o = p
    OBVIOUS
  <2> QED
    BY <1>5, <2>1
<1>9. IsInjective(bytesPool')
  BY DEF IInv, BuffersOwned
<1> QED
  BY <1>7, <1>8, <1>9 DEF BuffersOwned, RequestsIntact

LEMMA BuffersStep ==
  ASSUME IInv, [Next]_vars
  PROVE  BuffersOwned' /\ RequestsIntact'
<1>0. BuffersOwned /\ RequestsIntact /\ Buffers = 1 .. Len(mem)
  BY Numbers DEF IInv
<1>1. ASSUME UNCHANGED <<source, mem, bytesPool, buf, bytes, want, flight>>, Filling' => Filling
      PROVE  BuffersOwned' /\ RequestsIntact'
  BY <1>0, <1>1 DEF BuffersOwned, RequestsIntact, Buffers
<1>2. CASE ReadNext
  <2>1. /\ Filling /\ mem' \in Seq(Seq(Nat)) /\ Len(mem') = Len(mem)
        /\ \A b \in 1 .. Len(mem) : b # buf => mem'[b] = mem[b]
        /\ UNCHANGED <<source, buf, bytesPool, bytes, flight, want>>
    BY <1>2, ReaderStep
  <2>2. /\ buf \in 1 .. Len(mem) /\ buf \notin Range(bytesPool) /\ IsInjective(bytesPool)
        /\ \A c \in Clients : \A o \in flight[c] : bytes[o] # buf
    BY <1>0, <2>1 DEF BuffersOwned
  <2>3. Len(mem) <= Len(mem')
    BY <2>1, Numbers
  <2> QED
    BY <2>1, <2>2, <2>3, BuffersReader
<1>3. CASE InitReads
  BY <1>3, BuffersStart DEF InitReads
<1>4. CASE InitAppends
  BY <1>1, <1>4 DEF InitAppends, poolVars, Filling
<1>5. CASE InitDone
  BY <1>1, <1>5 DEF InitDone, poolVars, Filling
<1>6. ASSUME NEW c \in Clients, Fetch(c) \/ Release(c) PROVE BuffersOwned' /\ RequestsIntact'
  <2>1. CASE Acquire(c)
    <3>1. \A p \in 1 .. Len(bytes) : bytes'[p] = bytes[p] /\ want'[p] = want[p]
      BY <2>1, AcquireTakes
    <3>2. UNCHANGED <<source, mem, bytesPool, buf, phase, flight>>
      BY <2>1 DEF Acquire, readVars
    <3>3. \A d \in Clients : \A o \in flight[d] : bytes'[o] = bytes[o] /\ want'[o] = want[o]
      <4>1. \A d \in Clients : flight[d] \subseteq 1 .. Len(bytes)
        BY Numbers DEF IInv, TypeOK
      <4> QED
        BY <3>1, <4>1
    <3> QED
      BY <1>0, <3>2, <3>3 DEF BuffersOwned, RequestsIntact, Buffers, Filling
  <2>2. CASE Lock(c)
    BY <2>2, BuffersStart DEF Lock
  <2>3. CASE Unlock(c)
    <3>1. /\ (read % N) + 1 \in 1 .. N /\ buf \in Buffers /\ Fetched(c, buf, (read % N) + 1)
          /\ mem[buf] = Bodies[(read % N) + 1] /\ phase = "read" /\ phase' = "none"
      BY <2>3, UnlockGives
    <3>2. cur[c] # 0 /\ UNCHANGED <<source, mem, bytesPool>>
      BY <2>3, HasObject DEF Unlock, poolVars
    <3>3. ~ Filling' /\ Filling
      BY <3>1 DEF Filling
    <3>4. buf \notin Range(bytesPool) /\ \A d \in Clients : \A o \in flight[d] : bytes[o] # buf
      BY <1>0, <3>3 DEF BuffersOwned
    <3> QED
      BY <3>1, <3>2, <3>3, <3>4, BuffersFetched
  <2>4. CASE NextData(c)
    <3>0. PICK k : k = ((i + 1) % N) + 1
      OBVIOUS
    <3>1. /\ source = "inmem" /\ phase = "none" /\ k \in 1 .. N /\ datas[k] \in Buffers
          /\ mem[datas[k]] = Bodies[k] /\ Fetched(c, datas[k], k)
      BY <2>4, <3>0, NextDataGives
    <3>2. cur[c] # 0 /\ UNCHANGED <<source, mem, bytesPool, phase>>
      BY <2>4, HasObject DEF NextData, poolVars, readVars
    <3>3. ~ Filling'
      BY <3>1, <3>2 DEF Filling
    <3>4. datas[k] \notin Range(bytesPool)
      <4>1. bytesPool = << >>
        BY <3>1 DEF IInv, InmemTurns
      <4> QED
        BY <4>1 DEF Range
    <3> QED
      BY <3>1, <3>2, <3>3, <3>4, BuffersFetched
  <2>5. CASE ReleaseBytes(c)
    <3>1. PICK o \in flight[c] :
            /\ bytesPool' = IF source = "file" THEN Append(bytesPool, bytes[o]) ELSE bytesPool
            /\ flight' = [flight EXCEPT ![c] = @ \ {o}]
      BY <2>5 DEF ReleaseBytes
    <3>2. UNCHANGED <<source, mem, buf, phase, bytes, want>> /\ flight \in [Clients -> SUBSET Objects]
      BY <2>5 DEF ReleaseBytes, readVars, IInv, TypeOK
    <3>3. \A d \in Clients : \A p \in flight'[d] : p \in flight[d] /\ p # o
      <4>1. \A d \in Clients : d # c => o \notin flight[d]
        BY <3>1, HasAlone DEF Has
      <4> QED
        BY <3>1, <3>2, <4>1
    <3>4. CASE source = "file"
      <4>1. bytesPool' = Append(bytesPool, bytes[o])
        BY <3>1, <3>4
      <4>2. bytes[o] \in Buffers \ Range(bytesPool) /\ (Filling => bytes[o] # buf)
        BY <1>0, <3>1 DEF BuffersOwned
      <4>3. bytesPool \in Seq(Buffers) /\ IsInjective(bytesPool)
        BY DEF IInv, TypeOK, BuffersOwned
      <4>4. IsInjective(bytesPool') /\ Range(bytesPool') = Range(bytesPool) \cup {bytes[o]}
        BY <4>1, <4>2, <4>3, Push
      <4>5. \A d \in Clients : \A p \in flight'[d] : bytes[p] # bytes[o]
        BY <1>0, <3>1, <3>3, <3>4 DEF BuffersOwned
      <4>6. RequestsIntact'
        BY <1>0, <3>2, <3>3 DEF RequestsIntact
      <4>7. BuffersOwned'
        BY <1>0, <3>2, <3>3, <4>2, <4>4, <4>5 DEF BuffersOwned, Buffers, Filling
      <4> QED
        BY <4>6, <4>7
    <3>5. CASE source # "file"
      <4>1. bytesPool' = bytesPool
        BY <3>1, <3>5
      <4> QED
        BY <1>0, <3>2, <3>3, <4>1 DEF BuffersOwned, RequestsIntact, Buffers, Filling
    <3> QED
      BY <3>4, <3>5
  <2>6. CASE ReleaseObject(c)
    BY <1>1, <2>6 DEF ReleaseObject, readVars, Filling
  <2> QED
    BY <1>6, <2>1, <2>2, <2>3, <2>4, <2>5, <2>6 DEF Fetch, Release
<1>7. CASE UNCHANGED vars
  BY <1>1, <1>7 DEF vars, readVars, poolVars, Filling
<1> QED
  BY <1>2, <1>3, <1>4, <1>5, <1>6, <1>7 DEF Next, InmemInit

-----------------------------------------------------------------------------
(* How often each request was taken.                                       *)

LEMMA SpreadStep ==
  ASSUME IInv, [Next]_vars
  PROVE  Spread'
<1>0. /\ Spread /\ taken \in [1 .. N -> Nat] /\ N \in Nat \ {0} /\ read \in Nat /\ i \in Nat
      /\ source \in {"file", "inmem"}
  BY Numbers, Ends DEF IInv, TypeOK
<1>1. ASSUME UNCHANGED <<source, taken>>, source = "file" => read' = read,
             source = "inmem" => i' = i
      PROVE  Spread'
  <2>1. CASE source = "file"
    BY <1>0, <1>1, <2>1 DEF Spread, Ahead, Turns
  <2>2. CASE source = "inmem"
    BY <1>0, <1>1, <2>2 DEF Spread, Ahead, Turns
  <2> QED
    BY <1>0, <2>1, <2>2
<1>2. CASE ReadNext
  BY <1>1, <1>2, ReaderStep
<1>3. CASE InmemInit
  BY <1>1, <1>3 DEF InmemInit, InitReads, InitAppends, InitDone
<1>4. ASSUME NEW c \in Clients, Unlock(c) PROVE Spread'
  <2>1. PICK r : r = read % N
    OBVIOUS
  <2>2. /\ source = "file" /\ source' = "file" /\ r + 1 \in 1 .. N /\ read' = read + 1
        /\ taken' = [taken EXCEPT ![r + 1] = @ + 1]
    BY <1>4, <2>1, UnlockGives DEF Unlock, Fetched
  <2>3. r \in 0 .. N - 1 /\ read' % N = IF r + 1 = N THEN 0 ELSE r + 1
    BY <1>0, <2>1, <2>2, ModStep
  <2>4. PICK T \in Nat : T = taken[N]
    BY <1>0
  <2>5. \A k \in 1 .. N : taken[k] = IF k <= r THEN T + 1 ELSE T
    BY <1>0, <2>1, <2>2, <2>4 DEF Spread, Ahead, Turns
  <2>6. \A k \in 1 .. N : taken'[k] = IF k = r + 1 THEN taken[k] + 1 ELSE taken[k]
    BY <1>0, <2>2
  <2>7. CASE r + 1 = N
    <3>1. read' % N = 0 /\ N \in 1 .. N
      BY <1>0, <2>3, <2>7
    <3>2. \A k \in 1 .. N : taken'[k] = T + 1
      BY <1>0, <2>3, <2>4, <2>5, <2>6, <2>7
    <3>3. \A k \in 1 .. N : ~ (k <= read' % N)
      BY <3>1
    <3> QED
      BY <2>2, <3>1, <3>2, <3>3 DEF Spread, Ahead, Turns
  <2>8. CASE r + 1 # N
    <3>1. read' % N = r + 1 /\ N \in 1 .. N
      BY <1>0, <2>3, <2>8
    <3>2. taken'[N] = T
      BY <2>4, <2>6, <2>8, <3>1
    <3>3. \A k \in 1 .. N : taken'[k] = IF k <= r + 1 THEN T + 1 ELSE T
      BY <1>0, <2>3, <2>4, <2>5, <2>6
    <3> QED
      BY <2>2, <3>1, <3>2, <3>3 DEF Spread, Ahead, Turns
  <2> QED
    BY <2>7, <2>8
<1>5. ASSUME NEW c \in Clients, NextData(c) PROVE Spread'
  <2>1. PICK r : r = i % N
    OBVIOUS
  <2>2. PICK k0 : k0 = ((i + 1) % N) + 1
    OBVIOUS
  <2>3. /\ source = "inmem" /\ source' = "inmem" /\ k0 \in 1 .. N /\ i' = i + 1
        /\ taken' = [taken EXCEPT ![k0] = @ + 1]
    BY <1>5, <2>2, NextDataGives DEF NextData, Fetched
  <2>4. /\ r \in 0 .. N - 1 /\ k0 = (i' % N) + 1
        /\ i' % N = IF r + 1 = N THEN 0 ELSE r + 1
    BY <1>0, <2>1, <2>2, <2>3, ModStep
  <2>5. 1 \in 1 .. N /\ N \in Nat
    BY <1>0
  <2>6. PICK T \in Nat : T = taken[1]
    BY <1>0, <2>5
  <2>7. \A k \in 1 .. N : taken[k] = IF 2 <= k /\ k <= r + 1 THEN T + 1 ELSE T
    BY <1>0, <2>1, <2>3, <2>6 DEF Spread, Ahead, Turns
  <2>8. \A k \in 1 .. N : taken'[k] = IF k = k0 THEN taken[k] + 1 ELSE taken[k]
    BY <1>0, <2>3
  <2>9. CASE r + 1 = N
    <3>1. i' % N = 0 /\ k0 = 1
      BY <2>4, <2>9
    <3>2. \A k \in 1 .. N : taken'[k] = T + 1
      BY <1>0, <2>5, <2>6, <2>7, <2>8, <2>9, <3>1
    <3>3. \A k \in 1 .. N : ~ (2 <= k /\ k <= (i' % N) + 1)
      BY <3>1
    <3> QED
      BY <2>3, <2>5, <3>2, <3>3 DEF Spread, Ahead, Turns
  <2>10. CASE r + 1 # N
    <3>1. i' % N = r + 1 /\ k0 = r + 2 /\ r \in Nat
      BY <2>4, <2>5, <2>10
    <3>2. taken'[1] = T
      BY <2>5, <2>6, <2>8, <3>1
    <3>3. \A k \in 1 .. N : taken'[k] = IF 2 <= k /\ k <= r + 1 + 1 THEN T + 1 ELSE T
      BY <2>5, <2>6, <2>7, <2>8, <3>1
    <3> QED
      BY <2>3, <3>1, <3>2, <3>3 DEF Spread, Ahead, Turns
  <2> QED
    BY <2>9, <2>10
<1>6. ASSUME NEW c \in Clients, Acquire(c) \/ Lock(c) \/ Release(c) PROVE Spread'
  BY <1>1, <1>6 DEF Acquire, Lock, Release, ReleaseBytes, ReleaseObject
<1>7. CASE UNCHANGED vars
  BY <1>1, <1>7 DEF vars
<1> QED
  BY <1>2, <1>3, <1>4, <1>5, <1>6, <1>7 DEF Next, Fetch

-----------------------------------------------------------------------------
(* The theorems.                                                           *)

LEMMA InitIInv == Init => IInv
<1> SUFFICES ASSUME Init PROVE IInv
  OBVIOUS
<1>0. /\ N \in Nat \ {0} /\ DOMAIN Bodies = 1 .. N /\ Len(File) \in Nat /\ Offset[1] = 0
      /\ source \in {"file", "inmem"} /\ BufSize \in Nat
  BY Ends, NamesAssumption, BoundsAssumption DEF Init
<1>1. Len(<< >>) = 0 /\ \A S : << >> \in Seq(S)
  BY EmptySeq
<1>2. Range(<< >>) = {} /\ IsInjective(<< >>)
  BY DEF Range, IsInjective
<1>3. TypeOK
  <2>1. ReadTypes
    BY <1>0, <1>1 DEF Init, ReadTypes
  <2>2. BufferTypes
    BY <1>1 DEF Init, BufferTypes
  <2>3. ObjectTypes
    BY <1>1 DEF Init, ObjectTypes
  <2>4. OtherTypes
    BY DEF Init, OtherTypes
  <2> QED
    BY <2>1, <2>2, <2>3, <2>4, TypeParts
<1>4. At = 0 /\ Chunk
  <2>1. offset = 0 /\ Len(unprocessed) = 0
    BY <1>1 DEF Init
  <2>2. At = offset - Len(unprocessed)
    BY DEF At
  <2>3. At = 0
    BY <2>1, <2>2
  <2>4. Chunk
    BY <2>1 DEF Chunk
  <2> QED
    BY <2>3, <2>4
<1>5. Current = 1
  <2>1. 0 % N = 0
    BY <1>0, ModSmall
  <2> QED
    BY <2>1 DEF Init, Current
<1>6. Cursor
  BY <1>0, <1>4, <1>5 DEF Init, Cursor, Between, InSize, InBody, Behind
<1>7. FileTurns
  BY NamesAssumption DEF Init, FileTurns
<1>8. InmemTurns
  BY <1>0, <1>1 DEF Init, InmemTurns, Filling
<1>9. Owned
  BY <1>2 DEF Init, Owned, ObjectsOwned
<1>10. BuffersOwned /\ RequestsIntact
  BY <1>2 DEF Init, BuffersOwned, RequestsIntact, Filling
<1>11. Spread
  <2>1. 0 % N = 0
    BY <1>0, ModSmall
  <2>2. \A k \in 1 .. N : taken[k] = 0
    BY <1>0 DEF Init
  <2>3. \A k \in 1 .. N : ~ Ahead(k)
    BY <2>1 DEF Init, Ahead
  <2>4. Turns = 0
    BY <1>0, <2>2 DEF Turns
  <2> QED
    BY <2>2, <2>3, <2>4 DEF Spread
<1> QED
  BY <1>3, <1>4, <1>6, <1>7, <1>8, <1>9, <1>10, <1>11 DEF IInv

LEMMA StepIInv == IInv /\ [Next]_vars => IInv'
  BY TypeStep, CursorStep, FileTurnsStep, InmemTurnsStep, OwnedStep, BuffersStep, SpreadStep DEF IInv

LEMMA Invariance == Spec => []IInv
  BY InitIInv, StepIInv, PTL DEF Spec

(* State variables have their types, a request object has one owner at a   *)
(* time and is not in the pool while it has one, and no request of the     *)
(* file is fetched two times more than another: for every file, every      *)
(* number of clients and every way of cutting the file into chunks.        *)
THEOREM SourceSafe == Spec => []Inv
<1>1. IInv => Inv
  <2> SUFFICES ASSUME IInv PROVE Inv
    OBVIOUS
  <2>1. TypeOK /\ ObjectsOwned
    BY DEF IInv, Owned
  <2>2. EvenlySpread
    <3>1. Spread /\ DOMAIN Bodies = 1 .. N /\ N \in Nat \ {0} /\ taken \in [1 .. N -> Nat]
      BY Ends DEF IInv, TypeOK
    <3>2. Turns \in Nat
      BY <3>1 DEF Turns
    <3>3. \A k \in 1 .. N : taken[k] = Turns \/ taken[k] = Turns + 1
      BY <3>1 DEF Spread
    <3> HIDE DEF Turns
    <3> QED
      BY <3>1, <3>2, <3>3 DEF EvenlySpread
  <2> QED
    BY <2>1, <2>2 DEF Inv
<1> QED
  BY <1>1, Invariance, PTL

(* ReadNext returns the requests of the file in their order, again and     *)
(* again, whatever chunks the file comes in and wherever it is rewound.    *)
THEOREM OrderSafe == Spec => []ReadInOrder
<1>1. IInv => ReadInOrder
  <2> SUFFICES ASSUME IInv, phase = "read" PROVE mem[buf] = Bodies[(read % N) + 1]
    BY DEF ReadInOrder, N
  <2>1. Current \in 1 .. N /\ mem[buf] = Bodies[Current] /\ read \in Nat /\ N \in Nat \ {0}
        /\ source \in {"file", "inmem"}
    BY Numbers, Ends DEF IInv, Cursor, Behind
  <2>2. CASE source = "file"
    BY <2>1, <2>2 DEF Current
  <2>3. CASE source = "inmem"
    <3>1. Current = read + 1
      BY <2>3 DEF Current
    <3>2. read \in 0 .. N - 1
      BY <2>1, <3>1
    <3>3. read % N = read
      BY <2>1, <3>2, ModSmall
    <3> QED
      BY <2>1, <3>1, <3>3
  <2> QED
    BY <2>1, <2>2, <2>3
<1> QED
  BY <1>1, Invariance, PTL

(* The buffer behind a request in flight holds that request until it is    *)
(* released, although buffers are taken and given back all the time.       *)
THEOREM IntactSafe == Spec => []RequestsIntact
<1>1. IInv => RequestsIntact
  BY DEF IInv
<1> QED
  BY <1>1, Invariance, PTL
=============================================================================

--------------------------- MODULE Framing_proofs ---------------------------
(***************************************************************************)
(* Module Framing for all sizes of texts and answers, any login.txt and    *)
(* reads of the PC that merge messages or not: the texts of posts arrive,  *)
(* the receive stays inside the buffer of its caller, and the payload and  *)
(* the PC implement module Rpc.                                            *)
(*                                                                         *)
(* Upto adds up the lengths of the first messages recursively.  What is    *)
(* needed of it is that the sums grow (BytesGrow), by least counterexample:*)
(* then the messages that a read covers are the first ones (Downward), and *)
(* a read moves the window on the stream to a place inside the first       *)
(* message that is left (ConsumeStep).                                     *)
(***************************************************************************)
EXTENDS Framing, TLAPS, FiniteSetTheorems, SequenceTheorems

-----------------------------------------------------------------------------
(* Numbers.                                                                *)

(* A set of numbers that is not empty has a least one.                     *)
LEMMA LeastOf ==
  ASSUME NEW S \in SUBSET Nat, S # {}
  PROVE  \E x \in S : \A y \in S : x <= y
<1>1. PICK x \in S : \A y \in S : <<y, x>> \notin OpToRel(<, Nat)
  BY NatLessThanWellFounded, WFMin
<1>2. \A y \in S : x <= y
  <2> SUFFICES ASSUME NEW y \in S, y < x PROVE FALSE
    OBVIOUS
  <2>1. <<y, x>> \in OpToRel(<, Nat)
    BY Zenon DEF OpToRel
  <2> QED
    BY <1>1, <2>1
<1> QED
  BY <1>2

(* The minimum of module FiniteSetsExt, of two numbers.                   *)
LEMMA MinOfTwo ==
  ASSUME NEW a \in Int, NEW b \in Int
  PROVE  Min({a, b}) = IF a <= b THEN a ELSE b
<1>1. PICK m : m = IF a <= b THEN a ELSE b
  OBVIOUS
<1>2. m \in {a, b} /\ \A y \in {a, b} : m <= y
  BY <1>1
<1>3. \A x \in {a, b} : (\A y \in {a, b} : x <= y) => x = m
  BY <1>1
<1>4. Min({a, b}) = m
  BY <1>2, <1>3 DEF Min
<1> QED
  BY <1>1, <1>4

(* The numbers up to some number, with each all those below it.            *)
LEMMA Downward ==
  ASSUME NEW N \in Nat, NEW Below \in SUBSET (1 .. N),
         \A x \in Below, y \in 1 .. N : y <= x => y \in Below
  PROVE  /\ Below = 1 .. Cardinality(Below)
         /\ Cardinality(Below) \in 0 .. N
<1> DEFINE S == {j \in 0 .. N : j + 1 \notin Below}
<1>1. N \in S
  OBVIOUS
<1>2. S \in SUBSET Nat /\ S # {}
  BY <1>1
<1>3. PICK K \in S : \A j \in S : K <= j
  BY <1>2, LeastOf
<1>4. K \in 0 .. N /\ K + 1 \notin Below
  BY <1>3
<1>5. ASSUME NEW x \in Below PROVE x \in 1 .. K
  <2>1. x <= K
    <3> SUFFICES ASSUME K + 1 <= x PROVE FALSE
      BY <1>4
    <3>1. K + 1 \in 1 .. N
      BY <1>4
    <3> QED
      BY <1>4, <3>1
  <2> QED
    BY <1>4, <2>1
<1>6. ASSUME NEW x \in 1 .. K PROVE x \in Below
  <2>1. x - 1 \in 0 .. N /\ ~(K <= x - 1)
    BY <1>4
  <2>2. x - 1 \notin S
    BY <1>3, <2>1
  <2>3. (x - 1) + 1 \in Below
    BY <2>1, <2>2
  <2> QED
    BY <2>3
<1>7. Below = 1 .. K
  BY <1>5, <1>6
<1>8. Cardinality(1 .. K) = K
  <2>1. Cardinality(1 .. K) = IF 1 > K THEN 0 ELSE K - 1 + 1
    BY <1>4, FS_Interval
  <2> QED
    BY <1>4, <2>1
<1> QED
  BY <1>4, <1>7, <1>8

-----------------------------------------------------------------------------
(* The stream.                                                             *)

InStream == [msg : Message, size : TextSizes \cup {0}, sent : 0 .. SEND_BUFFER]

(* f counts the bytes of the first k messages.                             *)
Counts(f, k) ==
  f = [i \in 0 .. k |-> IF i = 0 THEN 0 ELSE f[i - 1] + HEADER + stream[i].sent]

(* There is such a function, and any two of them agree.                   *)
LEMMA CountsExist ==
  ASSUME stream \in Seq(InStream), NEW k \in 0 .. Len(stream)
  PROVE  \E f : Counts(f, k)
<1> DEFINE S == {j \in 0 .. Len(stream) : ~ \E f : Counts(f, j)}
<1>1. S = {}
  <2> SUFFICES ASSUME S # {} PROVE FALSE
    OBVIOUS
  <2>1. Len(stream) \in Nat
    OBVIOUS
  <2>2. S \in SUBSET Nat
    BY <2>1
  <2>3. PICK j \in S : \A y \in S : j <= y
    BY <2>2, LeastOf
  <2>4. j \in 0 .. Len(stream) /\ ~ \E f : Counts(f, j)
    BY <2>3
  <2>5. CASE j = 0
    <3>1. PICK f : f = [i \in 0 .. 0 |-> 0]
      OBVIOUS
    <3>2. Counts(f, 0)
      BY <3>1 DEF Counts
    <3> QED
      BY <2>4, <2>5, <3>2
  <2>6. CASE j # 0
    <3>1. j - 1 \in 0 .. Len(stream) /\ ~(j <= j - 1)
      BY <2>1, <2>4, <2>6
    <3>2. PICK g : Counts(g, j - 1)
      BY <2>3, <3>1
    <3>3. PICK f : f = [i \in 0 .. j |-> IF i = 0 THEN 0
                                       ELSE g[i - 1] + HEADER + stream[i].sent]
      OBVIOUS
    <3>4. \A i \in 0 .. j - 1 : g[i] = f[i]
      BY <2>1, <2>4, <3>2, <3>3 DEF Counts
    <3>5. \A i \in 0 .. j : i # 0 => f[i - 1] = g[i - 1]
      BY <2>1, <2>4, <3>4
    <3>6. Counts(f, j)
      BY <3>3, <3>5 DEF Counts
    <3> QED
      BY <2>4, <3>6
  <2> QED
    BY <2>5, <2>6
<1> QED
  BY <1>1

LEMMA CountsAgree ==
  ASSUME stream \in Seq(InStream), NEW k \in 0 .. Len(stream), NEW m \in k .. Len(stream),
         NEW f, Counts(f, k), NEW g, Counts(g, m), NEW i \in 0 .. k
  PROVE  f[i] = g[i]
<1> DEFINE S == {j \in 0 .. k : f[j] # g[j]}
<1>1. S = {}
  <2> SUFFICES ASSUME S # {} PROVE FALSE
    OBVIOUS
  <2>1. Len(stream) \in Nat
    OBVIOUS
  <2>2. S \in SUBSET Nat
    BY <2>1
  <2>3. PICK j \in S : \A y \in S : j <= y
    BY <2>2, LeastOf
  <2>4. j \in 0 .. k /\ f[j] # g[j]
    BY <2>3
  <2>5. j # 0
    BY <2>1, <2>4 DEF Counts
  <2>6. j - 1 \in 0 .. k /\ ~(j <= j - 1)
    BY <2>1, <2>4, <2>5
  <2>7. f[j - 1] = g[j - 1]
    BY <2>3, <2>6
  <2>8. f[j] = f[j - 1] + HEADER + stream[j].sent
    BY <2>4, <2>5 DEF Counts
  <2>9. j \in 0 .. m
    BY <2>1, <2>4
  <2>10. g[j] = g[j - 1] + HEADER + stream[j].sent
    BY <2>5, <2>9 DEF Counts
  <2> QED
    BY <2>4, <2>7, <2>8, <2>10
<1> QED
  BY <1>1

(* Bytes[k] is the place in the stream where its k-th message ends.        *)
Bytes == CHOOSE f : Counts(f, Len(stream))

(* What Upto counts, in terms of the ends of the messages.                 *)
LEMMA UptoBytes ==
  ASSUME stream \in Seq(InStream), NEW k \in 0 .. Len(stream)
  PROVE  Upto(k) = Bytes[k] - off
<1> DEFINE F == CHOOSE f : Counts(f, k)
<1>1. Upto(k) = F[k] - off
  BY DEF Upto, Counts
<1>2. Len(stream) \in Nat
  OBVIOUS
<1>3. Counts(F, k)
  BY CountsExist
<1>4. Counts(Bytes, Len(stream))
  BY <1>2, CountsExist DEF Bytes
<1> HIDE DEF F
<1>5. F[k] = Bytes[k]
  BY <1>2, <1>3, <1>4, CountsAgree
<1> QED
  BY <1>1, <1>5

LEMMA BytesStep ==
  ASSUME stream \in Seq(InStream)
  PROVE  /\ Bytes[0] = 0
         /\ \A i \in 1 .. Len(stream) : Bytes[i] = Bytes[i - 1] + HEADER + stream[i].sent
<1>1. Len(stream) \in Nat
  OBVIOUS
<1>2. Counts(Bytes, Len(stream))
  BY <1>1, CountsExist DEF Bytes
<1>3. Bytes[0] = 0
  BY <1>1, <1>2 DEF Counts
<1>4. ASSUME NEW i \in 1 .. Len(stream)
      PROVE  Bytes[i] = Bytes[i - 1] + HEADER + stream[i].sent
  <2>1. i \in 0 .. Len(stream) /\ i # 0
    BY <1>1
  <2> QED
    BY <1>2, <2>1 DEF Counts
<1> QED
  BY <1>3, <1>4

LEMMA SentType ==
  ASSUME stream \in Seq(InStream), NEW i \in 1 .. Len(stream)
  PROVE  stream[i] \in InStream /\ stream[i].sent \in Nat /\ stream[i].sent <= SEND_BUFFER
<1>1. stream[i] \in InStream
  BY ElementOfSeq
<1>2. stream[i].sent \in 0 .. SEND_BUFFER
  BY <1>1 DEF InStream
<1>3. SEND_BUFFER \in Nat
  BY DEF SEND_BUFFER
<1> QED
  BY <1>1, <1>2, <1>3

LEMMA BytesNat ==
  ASSUME stream \in Seq(InStream), NEW k \in 0 .. Len(stream)
  PROVE  Bytes[k] \in Nat
<1> DEFINE S == {j \in 0 .. Len(stream) : Bytes[j] \notin Nat}
<1>1. S = {}
  <2> SUFFICES ASSUME S # {} PROVE FALSE
    OBVIOUS
  <2>1. Len(stream) \in Nat
    OBVIOUS
  <2>2. S \in SUBSET Nat
    BY <2>1
  <2>3. PICK j \in S : \A y \in S : j <= y
    BY <2>2, LeastOf
  <2>4. j \in 0 .. Len(stream) /\ Bytes[j] \notin Nat
    BY <2>3
  <2>5. j \in 1 .. Len(stream)
    BY <2>1, <2>4, BytesStep
  <2>6. j - 1 \in 0 .. Len(stream) /\ ~(j <= j - 1)
    BY <2>1, <2>5
  <2>7. Bytes[j - 1] \in Nat
    BY <2>3, <2>6
  <2>8. Bytes[j] = Bytes[j - 1] + HEADER + stream[j].sent /\ stream[j].sent \in Nat
    BY <2>5, BytesStep, SentType
  <2> QED
    BY <2>4, <2>7, <2>8 DEF HEADER
<1> QED
  BY <1>1

(* The end of a message comes at least a header later than the end of any  *)
(* before it.                                                              *)
LEMMA BytesGrow ==
  ASSUME stream \in Seq(InStream), NEW i \in 0 .. Len(stream), NEW k \in 0 .. Len(stream),
         i <= k
  PROVE  Bytes[i] <= Bytes[k]
<1> DEFINE S == {j \in 0 .. Len(stream) : i <= j /\ ~(Bytes[i] <= Bytes[j])}
<1>1. S = {}
  <2> SUFFICES ASSUME S # {} PROVE FALSE
    OBVIOUS
  <2>1. Len(stream) \in Nat
    OBVIOUS
  <2>2. S \in SUBSET Nat
    BY <2>1
  <2>3. PICK j \in S : \A y \in S : j <= y
    BY <2>2, LeastOf
  <2>4. j \in 0 .. Len(stream) /\ i <= j /\ ~(Bytes[i] <= Bytes[j])
    BY <2>3
  <2>5. Bytes[i] \in Nat /\ Bytes[j] \in Nat
    BY <2>4, BytesNat
  <2>6. i # j
    BY <2>4, <2>5
  <2>7. j \in 1 .. Len(stream) /\ i <= j - 1
    BY <2>1, <2>4, <2>6
  <2>8. j - 1 \in 0 .. Len(stream) /\ ~(j <= j - 1)
    BY <2>1, <2>7
  <2>9. Bytes[i] <= Bytes[j - 1]
    BY <2>3, <2>7, <2>8
  <2>10. Bytes[j - 1] \in Nat
    BY <2>8, BytesNat
  <2>11. Bytes[j] = Bytes[j - 1] + HEADER + stream[j].sent /\ stream[j].sent \in Nat
    BY <2>7, BytesStep, SentType
  <2> QED
    BY <2>4, <2>5, <2>9, <2>10, <2>11 DEF HEADER
<1> QED
  BY <1>1

-----------------------------------------------------------------------------
(* A read.                                                                 *)

(* Of the first message a part is left to read, and of no message nothing. *)
OffInside ==
  IF stream = << >> THEN off = 0 ELSE off < HEADER + stream[1].sent

(* To the end of any message there are bytes left.                         *)
LEMMA UptoPositive ==
  ASSUME stream \in Seq(InStream), off \in Nat, OffInside, NEW k \in 1 .. Len(stream)
  PROVE  /\ Upto(k) \in Nat /\ 0 < Upto(k)
         /\ Upto(k) <= Bytes[Len(stream)] - off
         /\ off = 0 => HEADER + stream[1].sent <= Upto(k)
<1>1. Len(stream) \in Nat /\ 1 \in 1 .. Len(stream) /\ stream # << >>
  OBVIOUS
<1>2. Bytes[1] = HEADER + stream[1].sent /\ stream[1].sent \in Nat
  BY <1>1, BytesStep, SentType DEF HEADER
<1>3. Bytes[1] <= Bytes[k] /\ Bytes[k] <= Bytes[Len(stream)]
  BY <1>1, BytesGrow
<1>4. Bytes[k] \in Nat /\ Bytes[Len(stream)] \in Nat
  BY <1>1, BytesNat
<1>5. Upto(k) = Bytes[k] - off
  BY <1>1, UptoBytes
<1>6. off < Bytes[1] /\ Bytes[1] \in Nat
  BY <1>1, <1>2 DEF OffInside, HEADER
<1> QED
  BY <1>2, <1>3, <1>4, <1>5, <1>6

(* A read returns some bytes, no more than there are; one that starts with *)
(* a message returns all of it or fills the buffer.                        *)
LEMMA ReadNumber ==
  ASSUME stream \in Seq(InStream), stream # << >>, off \in Nat, OffInside,
         merges \in BOOLEAN, NEW n \in ReadSizes
  PROVE  /\ n \in Nat /\ 0 < n /\ n <= ReadRoom
         /\ n <= Bytes[Len(stream)] - off
         /\ off = 0 => n = ReadRoom \/ HEADER + stream[1].sent <= n
<1>1. Len(stream) \in Nat /\ 1 \in 1 .. Len(stream) /\ DOMAIN stream = 1 .. Len(stream)
  OBVIOUS
<1>2. PICK k \in 1 .. Len(stream) : n = Min({ReadRoom, Upto(k)})
  BY <1>1 DEF ReadSizes
<1>3. /\ Upto(k) \in Nat /\ 0 < Upto(k)
      /\ Upto(k) <= Bytes[Len(stream)] - off
      /\ off = 0 => HEADER + stream[1].sent <= Upto(k)
  BY UptoPositive
<1>4. ReadRoom \in Nat /\ 0 < ReadRoom
  BY DEF ReadRoom
<1>5. n = IF ReadRoom <= Upto(k) THEN ReadRoom ELSE Upto(k)
  BY <1>2, <1>3, <1>4, MinOfTwo
<1>6. Bytes[Len(stream)] \in Nat
  BY <1>1, BytesNat
<1>7. stream[1].sent \in Nat /\ HEADER \in Nat
  BY <1>1, SentType DEF HEADER
<1> QED
  BY <1>3, <1>4, <1>5, <1>6, <1>7

(* What a read takes off the stream are its first k messages, and when     *)
(* these are none a part of the next one.                                  *)
LEMMA ConsumeStep ==
  ASSUME stream \in Seq(InStream), stream # << >>, off \in Nat, OffInside,
         merges \in BOOLEAN, NEW n \in ReadSizes, Consume(n)
  PROVE  \E k \in 0 .. Len(stream) :
           /\ stream' \in Seq(InStream) /\ Len(stream') = Len(stream) - k
           /\ \A i \in 1 .. Len(stream') : stream'[i] = stream[i + k]
           /\ off' \in Nat /\ OffInside'
           /\ k = 0 => 0 < off'
           /\ ~merges => /\ k \in {0, 1} /\ (k = 1 => off' = 0)
                         /\ k = 0 => off' = off + ReadRoom
<1> DEFINE read == {j \in DOMAIN stream : Upto(j) <= n}
           c == Cardinality(read)
<1>1. Len(stream) \in Nat /\ 1 \in 1 .. Len(stream)
  OBVIOUS
<1>2. DOMAIN stream = 1 .. Len(stream)
  OBVIOUS
<1>3. n \in Nat /\ 0 < n /\ n <= Bytes[Len(stream)] - off
  BY ReadNumber
<1>4. \A j \in 1 .. Len(stream) : Upto(j) = Bytes[j] - off /\ Bytes[j] \in Nat
  BY <1>1, UptoBytes, BytesNat
<1>5. read \in SUBSET (1 .. Len(stream))
  BY <1>2
<1>6. ASSUME NEW x \in read, NEW y \in 1 .. Len(stream), y <= x PROVE y \in read
  <2>1. x \in 1 .. Len(stream) /\ Upto(x) <= n
    BY <1>2
  <2>2. Bytes[y] <= Bytes[x]
    BY <1>1, <1>6, <2>1, BytesGrow
  <2>3. Upto(y) <= n
    BY <1>3, <1>4, <2>1, <2>2
  <2> QED
    BY <1>2, <2>3
<1>7. read = 1 .. c /\ c \in 0 .. Len(stream)
  <2>1. \A x \in read, y \in 1 .. Len(stream) : y <= x => y \in read
    BY <1>6
  <2> HIDE DEF read
  <2> QED
    BY <1>1, <1>5, <2>1, Downward
<1>8. /\ stream' = SubSeq(stream, c + 1, Len(stream))
      /\ off' = IF c = 0 THEN off + n ELSE n - Upto(c)
  BY DEF Consume
<1>9. \A j \in 1 .. Len(stream) : Upto(j) <= n <=> j <= c
  <2> SUFFICES ASSUME NEW j \in 1 .. Len(stream) PROVE Upto(j) <= n <=> j <= c
    OBVIOUS
  <2>1. Upto(j) <= n <=> j \in read
    BY <1>2
  <2>2. j \in 1 .. c <=> j <= c
    BY <1>1, <1>7
  <2> QED
    BY <1>7, <2>1, <2>2
<1> HIDE DEF read, c
<1>10. PICK k \in 0 .. Len(stream) : k = c
  BY <1>7
<1>11. k \in Nat /\ k <= Len(stream)
  BY <1>1, <1>10
<1>12. /\ stream' = SubSeq(stream, k + 1, Len(stream))
       /\ off' = IF k = 0 THEN off + n ELSE n - Upto(k)
       /\ \A j \in 1 .. Len(stream) : Upto(j) <= n <=> j <= k
  BY <1>8, <1>9, <1>10
<1>13. /\ stream' \in Seq(InStream)
       /\ Len(stream') = Len(stream) - k
       /\ \A i \in 1 .. Len(stream') : stream'[i] = stream[i + k]
  <2>1. \A i \in k + 1 .. Len(stream) : stream[i] \in InStream
    BY <1>1, <1>11, SentType
  <2>2. k + 1 \in Int /\ Len(stream) \in Int /\ k \in Nat /\ k <= Len(stream)
    BY <1>1, <1>11
  <2>3. /\ stream' \in Seq(InStream)
        /\ Len(stream') = IF k + 1 <= Len(stream) THEN Len(stream) - (k + 1) + 1 ELSE 0
        /\ \A i \in 1 .. Len(stream) - (k + 1) + 1 : stream'[i] = stream[(k + 1) + i - 1]
    BY <1>12, <2>1, <2>2, SubSeqProperties
  <2>4. Len(stream') = Len(stream) - k
    BY <1>1, <2>2, <2>3
  <2>5. ASSUME NEW i \in 1 .. Len(stream') PROVE stream'[i] = stream[i + k]
    <3>1. i \in 1 .. Len(stream) - (k + 1) + 1 /\ i \in Int
      BY <1>1, <2>2, <2>4
    <3>2. (k + 1) + i - 1 = i + k
      BY <2>2, <3>1
    <3> QED
      BY <2>3, <3>1, <3>2
  <2> QED
    BY <2>3, <2>4, <2>5
<1>14. ASSUME ~merges
       PROVE  k \in {0, 1} /\ (k = 1 => off' = 0) /\ (k = 0 => off' = off + ReadRoom)
  <2>1. n = Min({ReadRoom, Upto(1)})
    BY <1>14 DEF ReadSizes
  <2>2. Upto(1) \in Nat
    BY <1>1, UptoPositive
  <2>3. n <= Upto(1)
    BY <2>1, <2>2, MinOfTwo DEF ReadRoom
  <2>4. k <= 1
    <3> SUFFICES ASSUME 2 <= k PROVE FALSE
      BY <1>11
    <3>1. 2 \in 1 .. Len(stream) /\ 2 - 1 = 1
      BY <1>1, <1>11
    <3>2. Bytes[2] = Bytes[1] + HEADER + stream[2].sent /\ stream[2].sent \in Nat
      BY <3>1, BytesStep, SentType
    <3>3. Upto(2) <= n
      BY <1>12, <3>1
    <3> QED
      BY <1>1, <1>3, <1>4, <2>3, <3>1, <3>2, <3>3 DEF HEADER
  <2>5. ASSUME k = 1 PROVE off' = 0
    <3>1. off' = n - Upto(1) /\ Upto(1) <= n
      BY <1>1, <1>12, <2>5
    <3> QED
      BY <1>3, <2>2, <2>3, <3>1
  <2>6. ASSUME k = 0 PROVE off' = off + ReadRoom
    <3>1. ~(Upto(1) <= n) /\ off' = off + n
      BY <1>1, <1>12, <2>6
    <3>2. n = ReadRoom
      BY <2>1, <2>2, <3>1, MinOfTwo DEF ReadRoom
    <3> QED
      BY <3>1, <3>2
  <2> QED
    BY <1>11, <2>4, <2>5, <2>6
<1>15. CASE k = 0
  <2>1. stream' # << >> /\ stream'[1] = stream[1]
    <3>1. 1 \in 1 .. Len(stream') /\ 1 + k = 1
      BY <1>1, <1>13, <1>15
    <3>2. stream'[1] = stream[1]
      BY <1>13, <3>1
    <3> QED
      BY <1>1, <1>13, <1>15, <3>2
  <2>2. ~(Upto(1) <= n) /\ Bytes[1] = HEADER + stream[1].sent
    BY <1>1, <1>12, <1>15, BytesStep DEF HEADER
  <2>3. stream[1].sent \in Nat /\ Bytes[0] = 0 /\ Bytes[1] = Bytes[0] + HEADER + stream[1].sent
    BY <1>1, BytesStep, SentType
  <2>4. off' = off + n
    BY <1>12, <1>15
  <2>5. off' \in Nat /\ 0 < off' /\ off' < Bytes[1]
    BY <1>1, <1>3, <1>4, <2>2, <2>4
  <2>6. OffInside'
    BY <2>1, <2>2, <2>5 DEF OffInside, HEADER
  <2> QED
    BY <1>11, <1>13, <1>14, <2>5, <2>6
<1>16. CASE k # 0
  <2>1. k \in 1 .. Len(stream)
    BY <1>1, <1>11, <1>16
  <2>2. off' = n - Upto(k) /\ Upto(k) <= n
    BY <1>12, <1>16, <2>1
  <2>3. off' \in Nat
    BY <1>3, <1>4, <2>1, <2>2
  <2>4. OffInside'
    <3>1. CASE k = Len(stream)
      <4>1. Len(stream') = 0
        BY <1>1, <1>13, <3>1
      <4>2. stream' = << >>
        BY <1>13, <4>1
      <4>3. off' = 0
        BY <1>3, <1>4, <2>1, <2>2, <3>1
      <4> QED
        BY <4>2, <4>3 DEF OffInside
    <3>2. CASE k # Len(stream)
      <4>1. k + 1 \in 1 .. Len(stream) /\ (k + 1) - 1 = k /\ ~(k + 1 <= k)
        BY <1>1, <2>1, <3>2
      <4>2. Bytes[k + 1] = Bytes[k] + HEADER + stream[k + 1].sent
        BY <4>1, BytesStep
      <4>3. ~(Upto(k + 1) <= n)
        BY <1>12, <4>1
      <4>4. PICK sent \in Nat : sent = stream[k + 1].sent
        BY <4>1, SentType
      <4>5. /\ Upto(k + 1) = Bytes[k + 1] - off /\ Bytes[k + 1] \in Nat
            /\ Upto(k) = Bytes[k] - off /\ Bytes[k] \in Nat
        BY <1>4, <2>1, <4>1
      <4>6. off' < HEADER + stream[k + 1].sent
        <5>1. PICK b1 \in Nat : b1 = Bytes[k + 1]
          BY <4>5
        <5>2. PICK b \in Nat : b = Bytes[k]
          BY <4>5
        <5>3. b1 = b + HEADER + sent /\ ~(b1 - off <= n) /\ off' = n - (b - off)
          BY <2>2, <4>2, <4>3, <4>4, <4>5, <5>1, <5>2
        <5>4. off' < HEADER + sent
          BY <1>3, <5>3 DEF HEADER
        <5> QED
          BY <4>4, <5>4
      <4>7. stream' # << >> /\ stream'[1] = stream[k + 1]
        <5>1. Len(stream') = Len(stream) - k
          BY <1>13
        <5>2. 1 \in 1 .. Len(stream')
          BY <1>1, <2>1, <3>2, <5>1
        <5>3. stream'[1] = stream[1 + k]
          BY <1>13, <5>2
        <5>4. 1 + k = k + 1
          BY <2>1
        <5> QED
          BY <5>2, <5>3, <5>4, <1>13
      <4> QED
        BY <4>6, <4>7 DEF OffInside, HEADER
    <3> QED
      BY <3>1, <3>2
  <2> QED
    BY <1>11, <1>13, <1>14, <1>16, <2>3, <2>4
<1> QED
  BY <1>15, <1>16

-----------------------------------------------------------------------------
(* The texts.                                                              *)

(* A text on the stream is the library's, cut to the payload's buffer.     *)
SentCut ==
  \A i \in 1 .. Len(stream) :
    stream[i].sent = IF stream[i].size <= SEND_BUFFER THEN stream[i].size ELSE SEND_BUFFER

(* A read that returns one message at most ends where it ends, or is full. *)
OffWhole == ~merges => off = 0 \/ off = ReadRoom

LongKnown ==
  \A i \in 1 .. Len(stream) : Rest(stream[i].sent) > TO_DATATYPE => long

RecvFits == recv.written <= RecvRoom(recv.req)

TextInv == /\ TypeOK /\ OffInside /\ OffWhole /\ SentCut /\ LongKnown
           /\ TextsArrive /\ RecvFits /\ DispatchTrue

HReq == [msg : Message, size : TextSizes \cup {0}, got : Nat, past : BOOLEAN]

LEMMA Sizes ==
  /\ \A size \in TextSizes \cup {0} : size \in Nat
  /\ \A size \in AnswerSizes : size \in 0 .. REPLY_TEXT
  /\ \A c \in Configs : UserInfoSize(c) \in 0 .. REPLY_TEXT
<1>1. \A size \in TextSizes \cup {0} : size \in Nat
  BY FramingAssumption
<1>2. \A size \in AnswerSizes : size \in 0 .. REPLY_TEXT
  BY FramingAssumption DEF REPLY_TEXT
<1>3. ASSUME NEW c \in Configs PROVE UserInfoSize(c) \in 0 .. REPLY_TEXT
  <2>1. c \in Config /\ UserInfoSize(c) <= REPLY_TEXT
    BY FramingAssumption
  <2>2. /\ c.username \in 0 .. 255 /\ c.password \in 0 .. 255
        /\ c.token_clint \in 0 .. 255 /\ c.language \in 0 .. 15
    BY <2>1 DEF Config
  <2>3. UserInfoSize(c) \in Nat
    <3>1. /\ c.username \in Nat /\ c.password \in Nat
          /\ c.token_clint \in Nat /\ c.language \in Nat
      BY <2>2
    <3> QED
      BY <3>1 DEF UserInfoSize
  <2> QED
    BY <2>1, <2>3 DEF REPLY_TEXT
<1> QED
  BY <1>1, <1>2, <1>3

(* What a message adds to the stream.                                      *)
LEMMA TransmitStep ==
  ASSUME TypeOK, NEW type \in Nat, NEW size \in TextSizes \cup {0}, Transmit(type, size)
  PROVE  /\ calls + 1 \in Nat /\ Request(type, calls + 1) \in Message
         /\ stream' \in Seq(InStream) /\ Len(stream') = Len(stream) + 1
         /\ \A i \in 1 .. Len(stream) : stream'[i] = stream[i]
         /\ stream'[Len(stream) + 1].msg = Request(type, calls + 1)
         /\ stream'[Len(stream) + 1].size = size
         /\ stream'[Len(stream) + 1].sent = IF size <= SEND_BUFFER THEN size ELSE SEND_BUFFER
         /\ long' = (long \/ Rest(stream'[Len(stream) + 1].sent) > TO_DATATYPE)
<1> USE DEF Send
<1> DEFINE e == [msg |-> Request(type, calls + 1), size |-> size,
                 sent |-> Min({size, SEND_BUFFER})]
<1>1. size \in Nat /\ SEND_BUFFER \in Nat
  BY Sizes DEF SEND_BUFFER
<1>2. Min({size, SEND_BUFFER}) = IF size <= SEND_BUFFER THEN size ELSE SEND_BUFFER
  BY <1>1, MinOfTwo
<1>3. Min({size, SEND_BUFFER}) \in 0 .. SEND_BUFFER
  BY <1>1, <1>2
<1>4. calls + 1 \in Nat
  BY FramingAssumption DEF TypeOK
<1>5. Request(type, calls + 1) \in Message
  BY <1>4 DEF Request, Message
<1>6. e \in InStream
  BY <1>3, <1>5 DEF InStream
<1>7. stream' = Append(stream, e)
  BY DEF Transmit
<1>8. stream \in Seq(InStream)
  BY DEF TypeOK, InStream
<1>9. /\ stream' \in Seq(InStream) /\ Len(stream') = Len(stream) + 1
      /\ \A i \in 1 .. Len(stream) : stream'[i] = stream[i]
      /\ stream'[Len(stream) + 1] = e
  <2> HIDE DEF e
  <2> QED
    BY <1>6, <1>7, <1>8, AppendProperties
<1>10. long' = (long \/ Rest(e.sent) > TO_DATATYPE)
  BY DEF Transmit
<1> QED
  BY <1>2, <1>4, <1>5, <1>9, <1>10

LEMMA TransmitText ==
  ASSUME TextInv, NEW type \in Nat, NEW size \in TextSizes \cup {0}, Transmit(type, size),
         pending' \in Message
  PROVE  TextInv'
<1> USE DEF TextInv, Send
<1>1. stream \in Seq(InStream) /\ Len(stream) \in Nat
  BY DEF TypeOK, InStream
<1>2. TypeOK'
  <2>1. calls' \in 0 .. MaxCalls
    BY FramingAssumption DEF TypeOK, Transmit
  <2>2. stream' \in Seq(InStream)
    BY TransmitStep
  <2>3. reply' \in [msg : Message, size : 0 .. REPLY_TEXT]
    BY DEF Transmit, NoReply, NoMessage, Message, REPLY_TEXT
  <2>4. long' \in BOOLEAN
    BY TransmitStep
  <2> QED
    BY <2>1, <2>2, <2>3, <2>4 DEF TypeOK, Transmit, hostVars, fixed, InStream
<1>3. OffInside'
  <2>1. Len(stream') = Len(stream) + 1
    BY TransmitStep
  <2>2. stream' # << >>
    BY <1>1, <2>1
  <2>3. CASE stream = << >>
    <3>1. off' = 0
      BY <2>3 DEF Transmit, hostVars, OffInside
    <3>2. stream' \in Seq(InStream)
      BY TransmitStep
    <3>3. stream'[1].sent \in Nat
      <4>1. 1 \in 1 .. Len(stream')
        BY <1>1, <2>1
      <4>2. PICK e \in InStream : e = stream'[1]
        BY <3>2, <4>1, ElementOfSeq
      <4>3. e.sent \in 0 .. SEND_BUFFER
        BY DEF InStream
      <4>4. SEND_BUFFER \in Nat
        BY DEF SEND_BUFFER
      <4>5. e.sent \in Nat
        BY <4>3, <4>4
      <4> QED
        BY <4>2, <4>5
    <3> QED
      BY <2>2, <3>1, <3>3 DEF OffInside, HEADER
  <2>4. CASE stream # << >>
    <3>1. 1 \in 1 .. Len(stream)
      BY <1>1, <2>4
    <3>2. stream'[1] = stream[1]
      BY <3>1, TransmitStep
    <3> QED
      BY <2>2, <2>4, <3>2 DEF OffInside, HEADER, Transmit, hostVars
  <2> QED
    BY <2>3, <2>4
<1>4. SentCut'
  <2> SUFFICES ASSUME NEW i \in 1 .. Len(stream')
               PROVE  stream'[i].sent = IF stream'[i].size <= SEND_BUFFER
                                        THEN stream'[i].size ELSE SEND_BUFFER
    BY DEF SentCut, SEND_BUFFER
  <2>1. Len(stream') = Len(stream) + 1
    BY TransmitStep
  <2>2. CASE i \in 1 .. Len(stream)
    <3>1. stream'[i] = stream[i]
      BY <2>2, TransmitStep
    <3> QED
      BY <2>2, <3>1 DEF SentCut
  <2>3. CASE i = Len(stream) + 1
    BY <2>3, TransmitStep
  <2> QED
    BY <1>1, <2>1, <2>2, <2>3
<1>5. LongKnown'
  <2> SUFFICES ASSUME NEW i \in 1 .. Len(stream'), Rest(stream'[i].sent) > TO_DATATYPE
               PROVE  long'
    BY DEF LongKnown, Rest, HEADER, ReadRoom, TO_DATATYPE
  <2>1. Len(stream') = Len(stream) + 1
    BY TransmitStep
  <2>2. CASE i \in 1 .. Len(stream)
    <3>1. stream'[i] = stream[i]
      BY <2>2, TransmitStep
    <3> QED
      BY <2>2, <3>1, TransmitStep DEF LongKnown
  <2>3. CASE i = Len(stream) + 1
    BY <2>3, TransmitStep
  <2> QED
    BY <1>1, <2>1, <2>2, <2>3
<1>6. UNCHANGED <<off, hpc, hreq, merges, recv, misread>> /\ (long => long')
  BY TransmitStep DEF Transmit, hostVars, fixed
<1>7. TextsArrive'
  BY <1>6 DEF TextsArrive
<1>8. RecvFits' /\ OffWhole' /\ DispatchTrue'
  BY <1>6 DEF RecvFits, RecvRoom, NETWORK_POST, OffWhole, ReadRoom, DispatchTrue
<1> QED
  BY <1>2, <1>3, <1>4, <1>5, <1>7, <1>8

(* Whole words, and both buffers are whole words long.                     *)
LEMMA CopiedFits ==
  ASSUME NEW room \in {256, 512}, NEW size \in Nat
  PROVE  Copied(room, size) \in Nat /\ Copied(room, size) <= room
<1>1. Min({room, size}) = IF room <= size THEN room ELSE size
  BY MinOfTwo
<1>2. PICK m \in Nat : m = Min({room, size}) /\ m <= room
  BY <1>1
<1>3. PICK q : q = (m + 3) \div 4
  OBVIOUS
<1>4. q \in Nat /\ 4 * q <= m + 3
  BY <1>2, <1>3
<1>5. 4 * q <= room /\ 4 * q \in Nat
  BY <1>2, <1>4
<1> QED
  BY <1>2, <1>3, <1>5 DEF Copied, Padded

LEMMA ReceiveText ==
  ASSUME TextInv, Receive
  PROVE  TextInv'
<1> USE DEF TextInv
<1>1. reply \in [msg : Message, size : 0 .. REPLY_TEXT] /\ pending \in Message
  BY DEF TypeOK
<1>2. reply.msg \in Message /\ reply.size \in Nat
  BY <1>1 DEF REPLY_TEXT
<1>3. PICK room \in {256, 512} : room = RecvRoom(pending)
  BY DEF RecvRoom
<1>4. PICK w \in Nat : w = Copied(RecvRoom(pending), reply.size) /\ w <= room
  BY <1>2, <1>3, CopiedFits
<1>5. recv' = [req |-> pending, msg |-> reply.msg, size |-> reply.size, written |-> w]
  BY <1>4 DEF Receive
<1>6. TypeOK'
  <2>1. NoMessage \in Message
    BY DEF NoMessage, Message
  <2>2. recv' \in [req : Message, msg : Message, size : Nat, written : Nat]
    BY <1>1, <1>2, <1>5
  <2> QED
    BY <2>1, <2>2 DEF TypeOK, Receive, hostVars, fixed
<1>7. RecvFits'
  <2>1. recv'.written = w /\ recv'.req = pending
    BY <1>5
  <2>2. RecvRoom(recv'.req) = room
    BY <1>3, <2>1
  <2> QED
    BY <1>4, <2>1, <2>2 DEF RecvFits, RecvRoom, NETWORK_POST
<1>8. UNCHANGED <<stream, off, hpc, hreq, merges, long, misread>>
  BY DEF Receive, hostVars, fixed
<1>9. OffInside' /\ SentCut' /\ TextsArrive' /\ OffWhole' /\ LongKnown' /\ DispatchTrue'
  BY <1>8 DEF OffInside, SentCut, TextsArrive, HEADER, SEND_BUFFER,
     OffWhole, ReadRoom, LongKnown, Rest, TO_DATATYPE, DispatchTrue
<1> QED
  BY <1>6, <1>7, <1>9

(* What a read does with the PC's program.                                 *)
LEMMA HostReadCases ==
  ASSUME TypeOK, HostRead
  PROVE  \E n \in ReadSizes :
           /\ Consume(n)
           /\ ReadMessage(n) \/ ReadRest(n) \/ ReadShort(n)
           /\ hpc = "read" /\ stream # << >>
           /\ UNCHANGED <<pending, calls, config, merges, reply, recv, served, long>>
BY DEF HostRead, fixed

(* A read that starts with a message has the text of it, as far as it fits.*)
LEMMA ReadMessageText ==
  ASSUME TextInv, stream # << >>, NEW n \in ReadSizes, ReadMessage(n)
  PROVE  /\ hreq' \in HReq /\ hpc' \in {"down", "read", "post", "reply"}
         /\ TextsArrive' /\ UNCHANGED misread
<1> USE DEF TextInv
<1>1. /\ stream \in Seq(InStream) /\ off \in Nat /\ OffInside /\ merges \in BOOLEAN
      /\ off = 0 /\ UNCHANGED misread
  BY FramingAssumption DEF TypeOK, InStream, ReadMessage
<1>2. CASE Head(stream).msg.type \in Answered
  <2>1. 1 \in 1 .. Len(stream) /\ Head(stream) = stream[1]
    BY <1>1
  <2>2. PICK first \in InStream : first = Head(stream)
    BY <1>1, <2>1, ElementOfSeq
  <2>3. first.msg \in Message /\ first.size \in TextSizes \cup {0}
    BY <2>2 DEF InStream
  <2>4. PICK size \in Nat : size = first.size
    BY <2>3, Sizes
  <2>5. first.sent = IF size <= 512 THEN size ELSE 512
    BY <2>1, <2>2, <2>4 DEF SentCut, SEND_BUFFER
  <2>6. PICK sent \in Nat : sent = first.sent
    BY <2>5
  <2>7. /\ n \in Nat /\ n <= 510
        /\ n = 510 \/ 20 + sent <= n
    BY <1>1, <2>1, <2>2, <2>6, ReadNumber DEF ReadRoom, HEADER
  <2>8. Min({sent, n - 20}) = IF sent <= n - 20 THEN sent ELSE n - 20
    BY <2>7, MinOfTwo
  <2>9. Min({size, 490}) = IF size <= 490 THEN size ELSE 490
    BY MinOfTwo
  <2>10. Min({sent, n - 20}) = Min({size, 490}) /\ Min({size, 490}) \in Nat
    BY <2>5, <2>6, <2>7, <2>8, <2>9
  <2>11. /\ hreq' = [msg |-> first.msg, size |-> size, got |-> Min({sent, n - 20}),
                     past |-> FALSE]
         /\ hpc' \in {"post", "reply"}
    BY <1>2, <2>2, <2>4, <2>6 DEF ReadMessage, Dispatch, NoWork, HEADER
  <2>12. hreq'.got = Min({hreq'.size, 490}) /\ ~hreq'.past
    BY <2>10, <2>11
  <2>13. hreq' \in HReq
    BY <2>3, <2>4, <2>10, <2>11 DEF HReq
  <2> QED
    BY <1>1, <2>11, <2>12, <2>13 DEF TextsArrive
<1>3. CASE Head(stream).msg.type \notin Answered
  <2>1. UNCHANGED <<hreq, hpc>>
    BY <1>3 DEF ReadMessage, Dispatch
  <2> QED
    BY <1>1, <2>1 DEF TypeOK, TextsArrive, HReq
<1> QED
  BY <1>2, <1>3

(* The second read of a message has a ninth byte only if its text is long. *)
LEMMA ReadRestText ==
  ASSUME TextInv, stream # << >>, NEW n \in ReadSizes, ReadRest(n)
  PROVE  /\ hreq' \in HReq /\ hpc' \in {"down", "read", "post", "reply"}
         /\ TextsArrive' /\ misread' \in BOOLEAN /\ (misread' => merges \/ long)
<1> USE DEF TextInv
<1>1. /\ stream \in Seq(InStream) /\ off \in Nat /\ OffInside /\ merges \in BOOLEAN
      /\ off > 0 /\ n > TO_DATATYPE
  BY FramingAssumption DEF TypeOK, InStream, ReadRest
<1>2. PICK byte \in Answered \cup {MESSAGE_DEBUG} :
        Dispatch(Stray(byte), 0, 0) /\ misread' = (misread \/ byte \in Answered)
  BY DEF ReadRest
<1>3. Stray(byte) \in Message
  BY DEF Stray, NoMessage, Message, Answered, NETWORK_POST, REQUEST_USER_INFO, MESSAGE_DEBUG
<1>4. /\ \/ hreq' = [msg |-> Stray(byte), size |-> 0, got |-> 0, past |-> FALSE]
            /\ hpc' \in {"post", "reply"}
         \/ UNCHANGED <<hreq, hpc>>
  BY <1>2 DEF Dispatch, NoWork
<1>5. hreq' \in HReq /\ hpc' \in {"down", "read", "post", "reply"} /\ TextsArrive'
  <2>1. CASE UNCHANGED <<hreq, hpc>>
    BY <2>1 DEF TypeOK, TextsArrive, HReq
  <2>2. CASE /\ hreq' = [msg |-> Stray(byte), size |-> 0, got |-> 0, past |-> FALSE]
             /\ hpc' \in {"post", "reply"}
    <3>1. Min({0, 490}) = 0
      BY MinOfTwo
    <3>2. hreq'.got = 0 /\ hreq'.size = 0 /\ hreq'.past = FALSE
      BY <2>2
    <3>3. hreq' \in HReq
      BY <1>3, <2>2 DEF HReq
    <3>4. hreq'.got = Min({hreq'.size, 490})
      BY <3>1, <3>2
    <3> QED
      BY <2>2, <3>2, <3>3, <3>4 DEF TextsArrive
  <2> QED
    BY <1>4, <2>1, <2>2
<1>6. ASSUME ~merges PROVE long
  <2>1. 1 \in 1 .. Len(stream) /\ Len(stream) \in Nat
    BY <1>1
  <2>2. off = ReadRoom
    BY <1>1, <1>6 DEF OffWhole
  <2>3. n = Min({ReadRoom, Upto(1)}) /\ Upto(1) \in Nat
    BY <1>1, <1>6, <2>1, UptoPositive DEF ReadSizes
  <2>4. n <= Upto(1)
    BY <2>3, MinOfTwo DEF ReadRoom
  <2>5. /\ Upto(1) = Bytes[1] - off /\ Bytes[1] = HEADER + stream[1].sent
        /\ stream[1].sent \in Nat
    <3>1. Upto(1) = Bytes[1] - off
      BY <1>1, <2>1, UptoBytes
    <3>2. Bytes[0] = 0 /\ Bytes[1] = Bytes[1 - 1] + HEADER + stream[1].sent
      BY <1>1, <2>1, BytesStep
    <3>3. stream[1].sent \in Nat
      BY <1>1, <2>1, SentType
    <3> QED
      BY <3>1, <3>2, <3>3 DEF HEADER
  <2>6. n \in Nat
    BY <1>1, ReadNumber
  <2>7. Rest(stream[1].sent) > TO_DATATYPE
    BY <1>1, <2>2, <2>3, <2>4, <2>5, <2>6 DEF Rest, HEADER, ReadRoom, TO_DATATYPE
  <2> QED
    BY <2>1, <2>7 DEF LongKnown
<1>7. misread' \in BOOLEAN /\ (misread' => merges \/ long)
  BY <1>2, <1>6 DEF TypeOK, DispatchTrue
<1> QED
  BY <1>5, <1>7

LEMMA HostReadText ==
  ASSUME TextInv, HostRead
  PROVE  TextInv'
<1> USE DEF TextInv
<1>1. PICK n \in ReadSizes :
           /\ Consume(n)
           /\ ReadMessage(n) \/ ReadRest(n) \/ ReadShort(n)
           /\ hpc = "read" /\ stream # << >>
           /\ UNCHANGED <<pending, calls, config, merges, reply, recv, served, long>>
  BY HostReadCases
<1>2. /\ stream \in Seq(InStream) /\ off \in Nat /\ OffInside /\ merges \in BOOLEAN
  BY FramingAssumption DEF TypeOK, InStream
<1>3. PICK k \in 0 .. Len(stream) :
           /\ stream' \in Seq(InStream) /\ Len(stream') = Len(stream) - k
           /\ \A i \in 1 .. Len(stream') : stream'[i] = stream[i + k]
           /\ off' \in Nat /\ OffInside'
           /\ ~merges => /\ k \in {0, 1} /\ (k = 1 => off' = 0)
                         /\ k = 0 => off' = off + ReadRoom
  BY <1>1, <1>2, ConsumeStep
<1>4. \A i \in 1 .. Len(stream') : i + k \in 1 .. Len(stream) /\ stream'[i] = stream[i + k]
  <2>1. Len(stream) \in Nat
    BY <1>2
  <2> QED
    BY <1>3, <2>1
<1>5. SentCut'
  BY <1>4 DEF SentCut, SEND_BUFFER
<1>6. LongKnown'
  BY <1>1, <1>4 DEF LongKnown, Rest, HEADER, ReadRoom, TO_DATATYPE
<1>7. OffWhole'
  <2> SUFFICES ASSUME ~merges PROVE off' = 0 \/ off' = ReadRoom
    BY <1>1 DEF OffWhole, ReadRoom
  <2>1. CASE k = 1
    BY <1>3, <2>1
  <2>2. CASE k = 0
    <3>1. off' = off + ReadRoom /\ Len(stream') = Len(stream) /\ Len(stream) \in Nat
      BY <1>2, <1>3, <2>2
    <3>2. stream' # << >> /\ 1 \in 1 .. Len(stream')
      BY <1>1, <1>2, <1>3, <3>1
    <3>3. off' < HEADER + stream'[1].sent
      BY <1>3, <3>2 DEF OffInside, HEADER
    <3>4. 1 \in 1 .. Len(stream) /\ 1 + k = 1
      BY <3>1, <3>2, <2>2
    <3>5. stream'[1] = stream[1]
      BY <1>3, <3>2, <3>4
    <3>6. PICK b \in Nat : b = stream'[1].sent /\ b <= 512
      BY <1>2, <3>4, <3>5, SentType DEF SEND_BUFFER
    <3>7. off = 0 \/ off = 510
      BY DEF OffWhole, ReadRoom
    <3>8. off' = off + 510 /\ off' < 20 + b
      BY <3>1, <3>3, <3>6 DEF HEADER, ReadRoom
    <3>9. off = 0
      BY <3>6, <3>7, <3>8
    <3> QED
      BY <3>1, <3>9 DEF ReadRoom
  <2> QED
    BY <1>3, <2>1, <2>2
<1>8. /\ hreq' \in HReq /\ hpc' \in {"down", "read", "post", "reply"}
      /\ TextsArrive' /\ misread' \in BOOLEAN /\ (misread' => merges \/ long)
  <2>1. CASE ReadMessage(n)
    <3>1. /\ hreq' \in HReq /\ hpc' \in {"down", "read", "post", "reply"}
          /\ TextsArrive' /\ UNCHANGED misread
      BY <1>1, <2>1, ReadMessageText
    <3> QED
      BY <3>1 DEF TypeOK, DispatchTrue
  <2>2. CASE ReadRest(n)
    BY <1>1, <2>2, ReadRestText
  <2>3. CASE ReadShort(n)
    BY <2>3 DEF ReadShort, TypeOK, TextsArrive, DispatchTrue, HReq
  <2> QED
    BY <1>1, <2>1, <2>2, <2>3
<1>9. TypeOK'
  BY <1>1, <1>3, <1>8 DEF TypeOK, InStream, HReq
<1>10. RecvFits' /\ DispatchTrue'
  BY <1>1, <1>8 DEF RecvFits, RecvRoom, NETWORK_POST, DispatchTrue
<1> QED
  BY <1>3, <1>5, <1>6, <1>7, <1>8, <1>9, <1>10

LEMMA TextStep ==
  ASSUME TextInv, [Next]_vars
  PROVE  TextInv'
<1> USE DEF TextInv
<1>1. ASSUME NEW level \in Levels, NEW size \in TextSizes,
             Transmit(MESSAGE_DEBUG + level, size), UNCHANGED pending
      PROVE  TextInv'
  <2>1. MESSAGE_DEBUG + level \in Nat
    BY LevelsAssumption DEF MESSAGE_DEBUG
  <2>2. pending' \in Message
    BY <1>1 DEF TypeOK
  <2> QED
    BY <1>1, <2>1, <2>2, TransmitText
<1>2. ASSUME NEW type \in Nat, NEW size \in TextSizes \cup {0},
             Transmit(type, size), pending' = Request(type, calls + 1)
      PROVE  TextInv'
  <2>1. pending' \in Message
    BY <1>2, TransmitStep
  <2> QED
    BY <1>2, <2>1, TransmitText
<1>3. CASE DisplayMessage
  BY <1>1, <1>3 DEF DisplayMessage
<1>4. CASE PostCall
  <2>1. NETWORK_POST \in Nat
    BY DEF NETWORK_POST
  <2> QED
    BY <1>2, <1>4, <2>1 DEF PostCall
<1>5. CASE UserDataCall
  <2>1. REQUEST_USER_INFO \in Nat
    BY DEF REQUEST_USER_INFO
  <2> QED
    BY <1>2, <1>5, <2>1 DEF UserDataCall
<1>6. CASE Receive
  BY <1>6, ReceiveText
<1>7. CASE HostStart
  BY <1>7 DEF HostStart, TypeOK, fixed, OffInside, OffWhole, ReadRoom, SentCut, LongKnown,
     Rest, TO_DATATYPE, TextsArrive, RecvFits, DispatchTrue, HEADER, SEND_BUFFER,
     RecvRoom, NETWORK_POST
<1>8. CASE HostRead
  BY <1>8, HostReadText
<1>9. CASE ServerHandles
  <2>1. hreq \in HReq /\ hreq.got = Min({hreq.size, 490}) /\ hreq.msg \in Message
    BY <1>9 DEF ServerHandles, TypeOK, TextsArrive, HReq
  <2>2. PICK past \in BOOLEAN : /\ past => hreq.got < hreq.size
                                /\ hreq' = [hreq EXCEPT !.past = past]
    BY <1>9 DEF ServerHandles
  <2>3. hreq' \in HReq
    BY <2>1, <2>2 DEF HReq
  <2>4. hreq'.past => hreq'.size > 490
    <3>1. PICK size \in Nat : size = hreq.size
      BY <2>1, Sizes DEF HReq
    <3>2. hreq.got = IF size <= 490 THEN size ELSE 490
      BY <2>1, <3>1, MinOfTwo
    <3>3. past => size > 490
      BY <2>2, <3>1, <3>2
    <3>4. hreq'.past = past /\ hreq'.size = hreq.size
      BY <2>1, <2>2 DEF HReq
    <3> QED
      BY <3>1, <3>3, <3>4
  <2>5. TypeOK'
    BY <1>9, <2>1, <2>3 DEF ServerHandles, TypeOK, fixed, HReq
  <2> QED
    BY <1>9, <2>4, <2>5 DEF ServerHandles, fixed, OffInside, OffWhole, ReadRoom, SentCut,
       LongKnown, Rest, TO_DATATYPE, TextsArrive, RecvFits, DispatchTrue, HEADER,
       SEND_BUFFER, RecvRoom, NETWORK_POST
<1>10. CASE StrayPost
  BY <1>10 DEF StrayPost, TypeOK, fixed, OffInside, OffWhole, ReadRoom, SentCut, LongKnown,
     Rest, TO_DATATYPE, TextsArrive, RecvFits, DispatchTrue, HEADER, SEND_BUFFER,
     RecvRoom, NETWORK_POST
<1>11. CASE AuxWrite
  <2>1. PICK size \in 0 .. REPLY_TEXT : reply' = [msg |-> ReplyTo(hreq.msg), size |-> size]
    BY <1>11, Sizes DEF AuxWrite, TypeOK
  <2>2. ReplyTo(hreq.msg) \in Message
    BY DEF TypeOK, ReplyTo, Message
  <2>3. NoWork \in HReq /\ ~NoWork.past
    BY DEF NoWork, NoMessage, Message, HReq
  <2>4. TypeOK'
    BY <1>11, <2>1, <2>2, <2>3 DEF AuxWrite, TypeOK, fixed, HReq
  <2> QED
    BY <1>11, <2>3, <2>4 DEF AuxWrite, fixed, OffInside, OffWhole, ReadRoom, SentCut,
       LongKnown, Rest, TO_DATATYPE, TextsArrive, RecvFits, DispatchTrue, HEADER,
       SEND_BUFFER, RecvRoom, NETWORK_POST
<1>12. CASE UNCHANGED vars
  BY <1>12 DEF vars, fixed, TypeOK, OffInside, OffWhole, ReadRoom, SentCut, LongKnown,
     Rest, TO_DATATYPE, TextsArrive, RecvFits, DispatchTrue, HEADER, SEND_BUFFER,
     RecvRoom, NETWORK_POST
<1> QED
  BY <1>3, <1>4, <1>5, <1>6, <1>7, <1>8, <1>9, <1>10, <1>11, <1>12 DEF Next

LEMMA TextInit ==
  ASSUME Init
  PROVE  TextInv
<1>1. TypeOK
  <2>1. NoMessage \in Message
    BY DEF NoMessage, Message
  <2>2. NoWork \in HReq
    BY <2>1 DEF NoWork, HReq
  <2>3. NoReply \in [msg : Message, size : 0 .. REPLY_TEXT]
    BY <2>1 DEF NoReply, REPLY_TEXT
  <2>4. NoRecv \in [req : Message, msg : Message, size : Nat, written : Nat]
    BY <2>1 DEF NoRecv
  <2>5. 0 \in 0 .. MaxCalls /\ merges \in BOOLEAN
    BY FramingAssumption DEF Init
  <2>6. << >> \in Seq(InStream)
    OBVIOUS
  <2>7. served \in SUBSET Message
    BY DEF Init
  <2> QED
    BY <2>1, <2>2, <2>3, <2>4, <2>5, <2>6, <2>7 DEF Init, TypeOK, HReq, InStream
<1>2. RecvFits
  BY DEF Init, RecvFits, NoRecv, RecvRoom
<1>3. OffInside /\ OffWhole /\ SentCut /\ LongKnown /\ TextsArrive /\ DispatchTrue
  BY DEF Init, OffInside, OffWhole, SentCut, LongKnown, TextsArrive, DispatchTrue, NoWork
<1> QED
  BY <1>1, <1>2, <1>3 DEF TextInv

(* The stream is cut into messages as the PC takes it to be.               *)
THEOREM TextInvCorrect ==
  Spec => []TextInv
<1> QED
  BY TextInit, TextStep, PTL DEF Spec

(* Every variable keeps its type, with any sizes of texts and answers.     *)
THEOREM FramingTypeCorrect ==
  Spec => []TypeOK
<1>1. TextInv => TypeOK
  BY DEF TextInv
<1> QED
  BY <1>1, TextInvCorrect, PTL

(* The text of a post is whole in the PC's buffer up to 490 bytes: however *)
(* the bytes of the stream fall into reads, a read that starts with a      *)
(* message has all of it or fills the buffer.  Only of longer texts does   *)
(* curl read on behind the buffer.                                         *)
THEOREM TextsArriveCorrect ==
  Spec => []TextsArrive
<1>1. TextInv => TextsArrive
  BY DEF TextInv
<1> QED
  BY <1>1, TextInvCorrect, PTL

(* The words that are moved stay inside the buffers of the callers.        *)
THEOREM WordsFitCorrect ==
  Spec => []WordsFit
<1>1. ASSUME TextInv PROVE WordsFit
  <2>1. stream \in Seq(InStream) /\ DOMAIN stream = 1 .. Len(stream)
    BY <1>1 DEF TextInv, TypeOK, InStream
  <2>2. ASSUME NEW i \in 1 .. Len(stream) PROVE Padded(stream[i].sent) <= SEND_BUFFER
    <3>1. PICK sent \in Nat : sent = stream[i].sent /\ sent <= 512
      BY <2>1, SentType DEF SEND_BUFFER
    <3>2. PICK q : q = (sent + 3) \div 4
      OBVIOUS
    <3>3. q \in Nat /\ 4 * q <= sent + 3
      BY <3>1, <3>2
    <3>4. 4 * q <= 512
      BY <3>1, <3>3
    <3> QED
      BY <3>1, <3>2, <3>4 DEF Padded, SEND_BUFFER
  <2>3. recv.written <= RecvRoom(recv.req)
    BY <1>1 DEF TextInv, RecvFits
  <2> QED
    BY <2>1, <2>2, <2>3 DEF WordsFit
<1> QED
  BY <1>1, TextInvCorrect, PTL

(* As long as reads do not merge messages and no text has more than 498    *)
(* bytes, the PC dispatches on the datatypes of messages and nothing else. *)
THEOREM DispatchTrueCorrect ==
  Spec => []DispatchTrue
<1>1. TextInv => DispatchTrue
  BY DEF TextInv
<1> QED
  BY <1>1, TextInvCorrect, PTL

-----------------------------------------------------------------------------
(* The answers.                                                            *)

(* The levels that the library passes are no datatypes of a request.       *)
Assumed == Levels \subseteq 0 .. 3

(* The i-th message is still to be dispatched on, and wants an answer.     *)
Asks(i) == (i > 1 \/ off = 0) /\ stream[i].msg.type \in Answered

Served(m) == m.type = NETWORK_POST => m \in served

(* At most one message asks: the request of the call in progress, and the  *)
(* PC does not work on it yet.                                             *)
AskInv ==
  /\ pending # NoMessage => pending.type \in Answered /\ pending.magic = N64_TO_PC
  /\ \A i \in 1 .. Len(stream) : Asks(i) =>
       pending # NoMessage /\ stream[i].msg = pending /\ reply = NoReply /\ hpc \in {"down", "read"}
  /\ \A i, j \in 1 .. Len(stream) : Asks(i) /\ Asks(j) => i = j

(* What the PC works on is the request of the call in progress.            *)
WorkInv ==
  hpc \in {"post", "reply"} =>
    /\ pending # NoMessage /\ hreq.msg = pending /\ reply = NoReply
    /\ hpc = "post" => pending.type = NETWORK_POST
    /\ hpc = "reply" => Served(pending)

(* What lies in the cartridge's buffer during a call is its answer.        *)
AnswerInv ==
  reply # NoReply /\ pending # NoMessage =>
    /\ reply.msg = ReplyTo(pending)
    /\ Served(pending)
    /\ pending.type = REQUEST_USER_INFO => reply.size = UserInfoSize(config)

(* What the library gets of an answer is all of it.                        *)
AnswersWhole == ConfigFits => recv.size <= RecvRoom(recv.req)

CallsKept == AskInv /\ WorkInv /\ AnswerInv /\ AnswersWhole

(* All this holds until a byte of a text is taken for a datatype.          *)
CallInv == ~misread => CallsKept

(* The bound on login.txt is the room for the user's data.                 *)
LEMMA ConfigRoom ==
  ASSUME TypeOK, ConfigFits
  PROVE  UserInfoSize(config) <= 256
<1>1. config \in Config
  BY FramingAssumption DEF TypeOK
<1>2. /\ config.username \in 0 .. 255 /\ config.password \in 0 .. 255
      /\ config.token_clint \in 0 .. 255 /\ config.language \in 0 .. 15
  BY <1>1 DEF Config
<1>3. /\ config.username \in Nat /\ config.password \in Nat
      /\ config.token_clint \in Nat /\ config.language \in Nat
  BY <1>2
<1> QED
  BY <1>3 DEF UserInfoSize, ConfigFits

(* A receive that succeeds finds the answer to its request, and all of it  *)
(* unless it is the user's data and longer than 256 bytes.                 *)
LEMMA ReceiveAnswer ==
  ASSUME TypeOK, CallsKept, Receive
  PROVE  /\ reply.msg = ReplyTo(pending) /\ Served(pending)
         /\ ConfigFits => reply.size <= RecvRoom(pending)
<1> USE DEF CallsKept
<1>1. pending # NoMessage /\ reply # NoReply /\ pending.type \in Answered
  BY DEF Receive, AskInv, NoReply, NoMessage, PC_TO_N64
<1>2. reply.size \in 0 .. REPLY_TEXT
  BY DEF TypeOK
<1>3. ASSUME pending.type = REQUEST_USER_INFO, ConfigFits PROVE reply.size <= RecvRoom(pending)
  BY <1>1, <1>3, ConfigRoom DEF AnswerInv, RecvRoom, REQUEST_USER_INFO, NETWORK_POST
<1>4. ASSUME pending.type = NETWORK_POST PROVE reply.size <= RecvRoom(pending)
  BY <1>2, <1>4 DEF RecvRoom, REPLY_TEXT
<1> QED
  BY <1>1, <1>3, <1>4 DEF AnswerInv, Answered

(* A read of the request starts the PC's work on it; any other read leaves *)
(* it where it is.                                                         *)
LEMMA HostReadCall ==
  ASSUME TypeOK, OffInside, CallsKept, HostRead, ~misread'
  PROVE  CallsKept'
<1> USE DEF CallsKept
<1>1. PICK n \in ReadSizes :
           /\ Consume(n)
           /\ ReadMessage(n) \/ ReadRest(n) \/ ReadShort(n)
           /\ hpc = "read" /\ stream # << >>
           /\ UNCHANGED <<pending, calls, config, merges, reply, recv, served, long>>
  BY HostReadCases
<1>2. /\ stream \in Seq(InStream) /\ off \in Nat /\ OffInside /\ merges \in BOOLEAN
  BY FramingAssumption DEF TypeOK, InStream
<1>3. PICK k \in 0 .. Len(stream) :
           /\ stream' \in Seq(InStream) /\ Len(stream') = Len(stream) - k
           /\ \A i \in 1 .. Len(stream') : stream'[i] = stream[i + k]
           /\ off' \in Nat /\ OffInside'
           /\ k = 0 => 0 < off'
  BY <1>1, <1>2, ConsumeStep
<1>4. UNCHANGED <<pending, config, reply, recv, served>> /\ hpc = "read"
  BY <1>1
<1>5. ASSUME NEW i \in 1 .. Len(stream'), Asks(i)'
      PROVE  /\ i + k \in 2 .. Len(stream) /\ Asks(i + k)
             /\ stream'[i] = stream[i + k]
  <2>1. Len(stream) \in Nat /\ Len(stream') = Len(stream) - k
    BY <1>2, <1>3
  <2>2. i + k \in 1 .. Len(stream)
    BY <2>1
  <2>3. stream'[i] = stream[i + k]
    BY <1>3
  <2>4. (i > 1 \/ off' = 0) /\ stream'[i].msg.type \in Answered
    BY <1>5 DEF Asks, Answered, NETWORK_POST, REQUEST_USER_INFO
  <2>5. i + k > 1
    BY <1>3, <2>1, <2>4
  <2>6. i + k \in 2 .. Len(stream)
    BY <2>2, <2>5
  <2> QED
    BY <2>3, <2>4, <2>5, <2>6 DEF Asks
<1>6. CASE off = 0 /\ Head(stream).msg.type \in Answered
  <2>1. 1 \in 1 .. Len(stream) /\ Head(stream) = stream[1]
    BY <1>1, <1>2
  <2>2. Asks(1)
    BY <1>6, <2>1 DEF Asks
  <2>3. pending # NoMessage /\ stream[1].msg = pending /\ reply = NoReply
    BY <2>1, <2>2 DEF AskInv
  <2>4. \A i \in 1 .. Len(stream') : ~Asks(i)'
    <3> SUFFICES ASSUME NEW i \in 1 .. Len(stream'), Asks(i)' PROVE FALSE
      OBVIOUS
    <3>1. i + k \in 2 .. Len(stream) /\ Asks(i + k)
      BY <1>5
    <3>2. i + k \in 1 .. Len(stream) /\ i + k # 1
      BY <3>1
    <3> QED
      BY <2>1, <2>2, <3>1, <3>2 DEF AskInv
  <2>5. /\ hreq'.msg = pending
        /\ hpc' = IF pending.type = NETWORK_POST THEN "post" ELSE "reply"
    <3>1. ReadMessage(n)
      BY <1>1, <1>2, <1>6 DEF ReadRest, ReadShort
    <3> QED
      BY <1>6, <2>1, <2>3, <3>1 DEF ReadMessage, Dispatch, NoWork
  <2>6. AskInv'
    BY <1>4, <2>4 DEF AskInv, Answered, NETWORK_POST, REQUEST_USER_INFO, NoMessage
  <2>7. WorkInv'
    BY <1>4, <2>3, <2>5 DEF WorkInv, Served, NETWORK_POST, NoMessage, NoReply
  <2> QED
    BY <1>4, <2>6, <2>7 DEF AnswerInv, Served, AnswersWhole, ConfigFits, NoReply, NoMessage,
       ReplyTo, UserInfoSize, NETWORK_POST, REQUEST_USER_INFO, RecvRoom
<1>7. CASE ~(off = 0 /\ Head(stream).msg.type \in Answered)
  <2>1. UNCHANGED <<hreq, hpc>>
    <3>1. CASE ReadMessage(n)
      BY <1>7, <3>1 DEF ReadMessage, Dispatch
    <3>2. CASE ReadRest(n)
      <4>1. PICK byte : Dispatch(Stray(byte), 0, 0) /\ byte \notin Answered
        BY <3>2 DEF ReadRest
      <4> QED
        BY <4>1 DEF Dispatch, Stray, NoMessage
    <3>3. CASE ReadShort(n)
      BY <3>3 DEF ReadShort
    <3> QED
      BY <1>1, <3>1, <3>2, <3>3
  <2>2. ASSUME NEW i \in 1 .. Len(stream'), Asks(i)'
        PROVE  /\ pending # NoMessage /\ stream'[i].msg = pending /\ reply = NoReply
    <3>1. i + k \in 1 .. Len(stream) /\ Asks(i + k) /\ stream'[i] = stream[i + k]
      BY <1>5, <2>2
    <3> QED
      BY <3>1 DEF AskInv
  <2>3. ASSUME NEW i \in 1 .. Len(stream'), NEW j \in 1 .. Len(stream'), Asks(i)', Asks(j)'
        PROVE  i = j
    <3>1. i + k \in 1 .. Len(stream) /\ Asks(i + k)
      BY <1>5, <2>3
    <3>2. j + k \in 1 .. Len(stream) /\ Asks(j + k)
      BY <1>5, <2>3
    <3>3. i + k = j + k
      BY <3>1, <3>2 DEF AskInv
    <3> QED
      BY <3>3
  <2>4. AskInv'
    BY <1>4, <2>1, <2>2, <2>3 DEF AskInv, Answered, NETWORK_POST, REQUEST_USER_INFO,
       NoMessage, NoReply
  <2> QED
    BY <1>4, <2>1, <2>4 DEF WorkInv, AnswerInv, Served, AnswersWhole, ConfigFits, NoReply,
       NoMessage, ReplyTo, UserInfoSize, NETWORK_POST, REQUEST_USER_INFO, RecvRoom
<1> QED
  BY <1>6, <1>7

(* A message goes out while no call is in progress, so no other one asks.  *)
LEMMA TransmitCall ==
  ASSUME TypeOK, CallsKept, NEW type \in Nat, NEW size \in TextSizes \cup {0},
         Transmit(type, size),
         IF type \in Answered THEN pending' = Request(type, calls + 1) ELSE UNCHANGED pending
  PROVE  CallsKept'
<1> USE DEF CallsKept
<1>1. /\ pending = NoMessage /\ reply' = NoReply
      /\ UNCHANGED <<off, hpc, hreq, config, served, recv>>
  BY DEF Transmit, Send, hostVars, fixed
<1>2. hpc \in {"down", "read"}
  BY <1>1 DEF TypeOK, WorkInv
<1>3. Len(stream) \in Nat /\ Len(stream') = Len(stream) + 1
  <2>1. Len(stream) \in Nat
    BY DEF TypeOK
  <2>2. Len(stream') = Len(stream) + 1
    BY TransmitStep
  <2> QED
    BY <2>1, <2>2
<1>4. ASSUME NEW i \in 1 .. Len(stream'), Asks(i)'
      PROVE  i = Len(stream) + 1 /\ type \in Answered
  <2>1. i \in 1 .. Len(stream) \/ i = Len(stream) + 1
    BY <1>3
  <2>2. (i > 1 \/ off = 0) /\ stream'[i].msg.type \in Answered
    BY <1>1, <1>4 DEF Asks, Answered, NETWORK_POST, REQUEST_USER_INFO
  <2>3. CASE i \in 1 .. Len(stream)
    <3>1. stream'[i] = stream[i]
      BY <2>3, TransmitStep
    <3>2. Asks(i)
      BY <2>2, <3>1 DEF Asks
    <3> QED
      BY <1>1, <2>3, <3>2 DEF AskInv
  <2>4. CASE i = Len(stream) + 1
    <3>1. stream'[i].msg = Request(type, calls + 1)
      BY <2>4, TransmitStep
    <3> QED
      BY <2>2, <2>4, <3>1 DEF Request
  <2> QED
    BY <2>1, <2>3, <2>4
<1>5. type \in Answered =>
        /\ pending' # NoMessage /\ pending'.type = type /\ pending'.magic = N64_TO_PC
        /\ stream'[Len(stream) + 1].msg = pending'
  BY TransmitStep DEF Request, NoMessage, N64_TO_PC
<1>6. AskInv'
  <2>1. pending' # NoMessage => pending'.type \in Answered /\ pending'.magic = N64_TO_PC
    BY <1>1, <1>5
  <2>2. ASSUME NEW i \in 1 .. Len(stream'), Asks(i)'
        PROVE  /\ pending' # NoMessage /\ stream'[i].msg = pending' /\ reply' = NoReply
               /\ hpc' \in {"down", "read"}
    BY <1>1, <1>2, <1>4, <1>5, <2>2
  <2>3. ASSUME NEW i \in 1 .. Len(stream'), NEW j \in 1 .. Len(stream'), Asks(i)', Asks(j)'
        PROVE  i = j
    BY <1>4, <2>3
  <2> QED
    BY <2>1, <2>2, <2>3 DEF AskInv, Answered, NETWORK_POST, REQUEST_USER_INFO, NoMessage, NoReply
<1> QED
  BY <1>1, <1>2, <1>6 DEF WorkInv, AnswerInv, AnswersWhole, ConfigFits, NoReply, NoMessage,
     RecvRoom, NETWORK_POST

LEMMA CallsKeptStep ==
  ASSUME Assumed, TypeOK, OffInside, CallsKept, [Next]_vars, ~misread'
  PROVE  CallsKept'
<1> USE DEF CallsKept
<1>1. CASE DisplayMessage
  <2>1. PICK level \in Levels, size \in TextSizes :
          Transmit(MESSAGE_DEBUG + level, size) /\ UNCHANGED pending
    BY <1>1 DEF DisplayMessage
  <2>2. MESSAGE_DEBUG + level \in Nat /\ MESSAGE_DEBUG + level \notin Answered
    BY DEF Assumed, MESSAGE_DEBUG, Answered, NETWORK_POST, REQUEST_USER_INFO
  <2> QED
    BY <2>1, <2>2, TransmitCall
<1>2. CASE PostCall
  <2>1. NETWORK_POST \in Nat /\ NETWORK_POST \in Answered
    BY DEF NETWORK_POST, Answered
  <2> QED
    BY <1>2, <2>1, TransmitCall DEF PostCall
<1>3. CASE UserDataCall
  <2>1. REQUEST_USER_INFO \in Nat /\ REQUEST_USER_INFO \in Answered
    BY DEF REQUEST_USER_INFO, Answered
  <2> QED
    BY <1>3, <2>1, TransmitCall DEF UserDataCall
<1>4. CASE Receive
  <2>1. ConfigFits => reply.size <= RecvRoom(pending)
    BY <1>4, ReceiveAnswer
  <2>2. /\ recv'.size = reply.size /\ recv'.req = pending /\ pending' = NoMessage
        /\ UNCHANGED <<off, hpc, hreq, config, served, stream, reply>>
    BY <1>4 DEF Receive, hostVars, fixed
  <2>3. pending # NoMessage /\ reply # NoReply
    BY <1>4 DEF Receive, NoReply, NoMessage, PC_TO_N64
  <2>4. \A i \in 1 .. Len(stream) : ~Asks(i)
    BY <2>3 DEF AskInv
  <2>5. hpc \in {"down", "read"}
    BY <2>3 DEF TypeOK, WorkInv
  <2>6. AskInv'
    BY <2>2, <2>4 DEF AskInv, Asks, Answered, NETWORK_POST, REQUEST_USER_INFO, NoMessage
  <2>7. AnswersWhole'
    BY <2>1, <2>2 DEF AnswersWhole, ConfigFits, RecvRoom, NETWORK_POST
  <2> QED
    BY <2>2, <2>5, <2>6, <2>7 DEF WorkInv, AnswerInv, NoMessage
<1>5. CASE HostStart
  BY <1>5 DEF HostStart, fixed, AskInv, Asks, Answered, WorkInv, AnswerInv, Served,
     AnswersWhole, ConfigFits, NoReply, NoMessage, ReplyTo, UserInfoSize, NETWORK_POST,
     REQUEST_USER_INFO, RecvRoom
<1>6. CASE HostRead
  BY <1>6, HostReadCall
<1>7. CASE ServerHandles
  <2>1. /\ pending # NoMessage /\ hreq.msg = pending /\ reply = NoReply
        /\ hreq \in HReq
    BY <1>7 DEF ServerHandles, WorkInv, TypeOK, HReq
  <2>2. \A i \in 1 .. Len(stream) : ~Asks(i)
    BY <1>7 DEF ServerHandles, AskInv
  <2>3. /\ pending \in served' /\ hpc' = "reply"
        /\ hreq'.msg = hreq.msg
        /\ UNCHANGED <<pending, off, stream, config, reply, recv>>
    BY <1>7, <2>1 DEF ServerHandles, fixed, HReq
  <2>4. AskInv'
    BY <2>2, <2>3 DEF AskInv, Asks, Answered, NETWORK_POST, REQUEST_USER_INFO, NoMessage
  <2> QED
    BY <2>1, <2>3, <2>4 DEF WorkInv, AnswerInv, Served, AnswersWhole, ConfigFits, NoReply,
       NoMessage, RecvRoom, NETWORK_POST
<1>8. CASE AuxWrite
  <2>1. pending # NoMessage /\ hreq.msg = pending /\ Served(pending)
    BY <1>8 DEF AuxWrite, WorkInv
  <2>2. \A i \in 1 .. Len(stream) : ~Asks(i)
    BY <1>8 DEF AuxWrite, AskInv
  <2>3. /\ hpc' = "read"
        /\ UNCHANGED <<pending, off, stream, served, config, recv>>
    BY <1>8 DEF AuxWrite, fixed
  <2>4. /\ reply'.msg = ReplyTo(pending)
        /\ pending.type = REQUEST_USER_INFO => reply'.size = UserInfoSize(config)
    BY <1>8, <2>1 DEF AuxWrite, NETWORK_POST, REQUEST_USER_INFO
  <2>5. AskInv'
    BY <2>2, <2>3 DEF AskInv, Asks, Answered, NETWORK_POST, REQUEST_USER_INFO, NoMessage
  <2>6. AnswerInv'
    BY <2>1, <2>3, <2>4 DEF AnswerInv, Served, ReplyTo, UserInfoSize, NETWORK_POST,
       REQUEST_USER_INFO
  <2> QED
    BY <2>3, <2>5, <2>6 DEF WorkInv, AnswersWhole, ConfigFits, RecvRoom, NETWORK_POST
<1>9. CASE StrayPost
  BY <1>9 DEF StrayPost, AskInv, WorkInv, NoMessage
<1>10. CASE UNCHANGED vars
  BY <1>10 DEF vars, fixed, AskInv, Asks, Answered, WorkInv, AnswerInv, Served,
     AnswersWhole, ConfigFits, NoReply, NoMessage, ReplyTo, UserInfoSize, NETWORK_POST,
     REQUEST_USER_INFO, RecvRoom
<1> QED
  BY <1>1, <1>2, <1>3, <1>4, <1>5, <1>6, <1>7, <1>8, <1>9, <1>10 DEF Next

LEMMA CallStep ==
  ASSUME Assumed, TypeOK, OffInside, CallInv, [Next]_vars
  PROVE  CallInv'
<1> SUFFICES ASSUME ~misread' PROVE CallsKept'
  BY DEF CallInv
<1>1. ~misread
  BY DEF Next, DisplayMessage, PostCall, UserDataCall, Transmit, Send, hostVars, Receive,
     HostStart, HostRead, ReadMessage, ReadRest, ReadShort, ServerHandles, StrayPost,
     AuxWrite, vars
<1> QED
  BY <1>1, CallsKeptStep DEF CallInv

(* Requests and answers keep to the call in progress.                      *)
THEOREM CallInvCorrect ==
  ASSUME Assumed
  PROVE  Spec => []CallInv
<1>1. Init => CallInv
  BY DEF Init, CallInv, CallsKept, AskInv, WorkInv, AnswerInv, AnswersWhole, NoRecv, RecvRoom
<1>2. TextInv => TypeOK /\ OffInside
  BY DEF TextInv
<1>3. TypeOK /\ OffInside /\ CallInv /\ [Next]_vars => CallInv'
  BY CallStep
<1> QED
  BY <1>1, <1>2, <1>3, TextInvCorrect, PTL DEF Spec

(* What the library gets of an answer ends with its zero, unless the values*)
(* in login.txt are too long for the 256 bytes of the user's data, or a    *)
(* byte of a text was taken for a datatype.                                *)
THEOREM AnswersWholeCorrect ==
  ASSUME Assumed
  PROVE  Spec => [](~misread => AnswersWhole)
<1>1. CallInv => (~misread => AnswersWhole)
  BY DEF CallInv, CallsKept
<1> QED
  BY <1>1, CallInvCorrect, PTL

-----------------------------------------------------------------------------
(* The request.                                                            *)

(* A read that returns one message leaves the request on the stream, or    *)
(* starts with it.                                                         *)
LEMMA HostReadKeeps ==
  ASSUME TypeOK, OffInside, CallsKept, RequestKept, HostRead, ~misread
  PROVE  RequestKept'
<1> SUFFICES ASSUME pending' # NoMessage, ~merges', ~misread'
             PROVE  \/ \E i \in DOMAIN stream' :
                         (i > 1 \/ off' = 0) /\ stream'[i].msg = pending'
                    \/ hpc' \in {"post", "reply"} /\ hreq'.msg = pending'
                    \/ reply'.msg = ReplyTo(pending')
  BY DEF RequestKept, ReplyTo
<1>1. PICK n \in ReadSizes :
           /\ Consume(n)
           /\ ReadMessage(n) \/ ReadRest(n) \/ ReadShort(n)
           /\ hpc = "read" /\ stream # << >>
           /\ UNCHANGED <<pending, calls, config, merges, reply, recv, served, long>>
  BY HostReadCases
<1>2. /\ stream \in Seq(InStream) /\ off \in Nat /\ OffInside /\ merges \in BOOLEAN
  BY FramingAssumption DEF TypeOK, InStream
<1>3. UNCHANGED <<pending, merges, reply>> /\ hpc = "read"
  BY <1>1
<1>4. PICK k \in {0, 1} :
           /\ stream' \in Seq(InStream) /\ Len(stream') = Len(stream) - k
           /\ \A i \in 1 .. Len(stream') : stream'[i] = stream[i + k]
           /\ k = 1 => off' = 0
  BY <1>1, <1>2, <1>3, ConsumeStep
<1>5. CASE reply.msg = ReplyTo(pending)
  BY <1>3, <1>5 DEF ReplyTo
<1>6. CASE reply.msg # ReplyTo(pending)
  <2>1. PICK i \in 1 .. Len(stream) : (i > 1 \/ off = 0) /\ stream[i].msg = pending
    BY <1>2, <1>3, <1>6 DEF RequestKept
  <2>2. CASE i = 1
    <3>1. off = 0 /\ Head(stream).msg = pending /\ pending.type \in Answered
      BY <1>1, <1>2, <1>3, <2>1, <2>2 DEF CallsKept, AskInv
    <3>2. ReadMessage(n)
      BY <1>1, <3>1 DEF ReadRest, ReadShort
    <3>3. hreq'.msg = pending /\ hpc' \in {"post", "reply"}
      BY <3>1, <3>2 DEF ReadMessage, Dispatch, NoWork
    <3> QED
      BY <1>3, <3>3
  <2>3. CASE i # 1
    <3>1. PICK j : j = i - k
      OBVIOUS
    <3>2. Len(stream) \in Nat /\ j + k = i
      BY <1>2, <3>1
    <3>3. j \in 1 .. Len(stream') /\ (j > 1 \/ off' = 0)
      BY <1>4, <2>1, <2>3, <3>1, <3>2
    <3>4. stream'[j].msg = pending
      BY <1>4, <2>1, <3>2, <3>3
    <3>5. DOMAIN stream' = 1 .. Len(stream')
      BY <1>4
    <3> QED
      BY <1>3, <3>3, <3>4, <3>5
  <2> QED
    BY <2>2, <2>3
<1> QED
  BY <1>5, <1>6

(* A request goes out behind what is on the stream, or as the first message*)
(* of an empty one.                                                        *)
LEMMA RequestGoesOut ==
  ASSUME TypeOK, OffInside, NEW type \in Nat, NEW size \in TextSizes \cup {0},
         Transmit(type, size), pending' = Request(type, calls + 1)
  PROVE  RequestKept'
<1>1. stream \in Seq(InStream) /\ Len(stream) \in Nat
  BY DEF TypeOK, InStream
<1>2. /\ stream' \in Seq(InStream) /\ Len(stream') = Len(stream) + 1
      /\ stream'[Len(stream) + 1].msg = pending'
  BY TransmitStep
<1>3. Len(stream) + 1 \in DOMAIN stream'
  BY <1>1, <1>2
<1>4. Len(stream) + 1 > 1 \/ off' = 0
  <2>1. CASE stream = << >>
    BY <2>1 DEF OffInside, Transmit, Send, hostVars
  <2>2. CASE stream # << >>
    BY <1>1, <2>2
  <2> QED
    BY <2>1, <2>2
<1> QED
  BY <1>2, <1>3, <1>4 DEF RequestKept

LEMMA KeptStep ==
  ASSUME TypeOK, OffInside, CallInv, RequestKept, [Next]_vars
  PROVE  RequestKept'
<1> SUFFICES ASSUME ~misread' PROVE RequestKept'
  BY DEF RequestKept
<1> USE DEF CallInv
<1>1. CASE DisplayMessage
  BY <1>1 DEF DisplayMessage, Transmit, Send, RequestKept
<1>2. CASE PostCall
  <2>1. NETWORK_POST \in Nat
    BY DEF NETWORK_POST
  <2> QED
    BY <1>2, <2>1, RequestGoesOut DEF PostCall
<1>3. CASE UserDataCall
  <2>1. REQUEST_USER_INFO \in Nat
    BY DEF REQUEST_USER_INFO
  <2> QED
    BY <1>3, <2>1, RequestGoesOut DEF UserDataCall
<1>4. CASE Receive
  BY <1>4 DEF Receive, RequestKept
<1>5. CASE HostStart
  BY <1>5 DEF HostStart, fixed, RequestKept, ReplyTo
<1>6. CASE HostRead
  <2>1. ~misread
    BY <1>6 DEF HostRead, ReadMessage, ReadRest, ReadShort
  <2> QED
    BY <1>6, <2>1, HostReadKeeps
<1>7. CASE ServerHandles
  <2>1. hreq.msg = pending /\ hreq \in HReq
    BY <1>7 DEF ServerHandles, CallsKept, WorkInv, TypeOK, HReq
  <2>2. hreq'.msg = pending' /\ hpc' = "reply"
    BY <1>7, <2>1 DEF ServerHandles, HReq
  <2> QED
    BY <2>2 DEF RequestKept
<1>8. CASE AuxWrite
  <2>1. hreq.msg = pending
    BY <1>8 DEF AuxWrite, CallsKept, WorkInv
  <2>2. reply'.msg = ReplyTo(pending) /\ pending' = pending
    BY <1>8, <2>1 DEF AuxWrite
  <2> QED
    BY <2>2 DEF RequestKept, ReplyTo
<1>9. CASE StrayPost
  BY <1>9 DEF StrayPost, CallsKept, AskInv, WorkInv, NoMessage
<1>10. CASE UNCHANGED vars
  BY <1>10 DEF vars, fixed, RequestKept, ReplyTo
<1> QED
  BY <1>1, <1>2, <1>3, <1>4, <1>5, <1>6, <1>7, <1>8, <1>9, <1>10 DEF Next

(* While reads return one message each and no byte of a text is taken for  *)
(* a datatype, the request of a call is on the stream, or in the PC's      *)
(* hands, or answered, at every moment: messages of two reads in front of  *)
(* it do not put the PC out of step with the stream.                       *)
THEOREM RequestKeptCorrect ==
  ASSUME Assumed
  PROVE  Spec => []RequestKept
<1>1. Init => RequestKept
  BY DEF Init, RequestKept
<1>2. TextInv => TypeOK /\ OffInside
  BY DEF TextInv
<1>3. TypeOK /\ OffInside /\ CallInv /\ RequestKept /\ [Next]_vars => RequestKept'
  BY KeptStep
<1> QED
  BY <1>1, <1>2, <1>3, TextInvCorrect, CallInvCorrect, PTL DEF Spec

-----------------------------------------------------------------------------
(* The abstract call.                                                      *)

(* Both modules take the messages from Wire.                               *)
LEMMA SameMessages ==
  /\ R!NoMessage = NoMessage
  /\ R!NoResult = NoResult
  /\ R!NETWORK_POST = NETWORK_POST
  /\ R!Answered = Answered
  /\ \A type, id : R!Request(type, id) = Request(type, id)
  /\ \A m : R!ReplyTo(m) = ReplyTo(m)
BY DEF R!NoMessage, NoMessage, R!NoResult, NoResult, R!NETWORK_POST, NETWORK_POST,
       R!REQUEST_USER_INFO, REQUEST_USER_INFO, R!Answered, Answered, R!Request, Request,
       R!ReplyTo, ReplyTo, R!N64_TO_PC, N64_TO_PC, R!PC_TO_N64, PC_TO_N64

(* A call begins, the server has a post, or a call returns; the rest is    *)
(* internal.                                                               *)
LEMMA StepRefines ==
  ASSUME Assumed, TypeOK, CallInv, [Next]_vars, ConfigFits, ~misread'
  PROVE  [R!Next]_(R!vars)
<1> CallsKept
  <2>1. ~misread
    BY DEF Next, DisplayMessage, PostCall, UserDataCall, Transmit, Send, hostVars, Receive,
       HostStart, HostRead, ReadMessage, ReadRest, ReadShort, ServerHandles, StrayPost,
       AuxWrite, vars
  <2> QED
    BY <2>1 DEF CallInv
<1> USE DEF CallsKept, Send
<1>1. CASE DisplayMessage
  <2>1. PICK level \in Levels, size \in TextSizes :
          Transmit(MESSAGE_DEBUG + level, size) /\ UNCHANGED pending
    BY <1>1 DEF DisplayMessage
  <2>2. R!Tell
    BY <2>1, SameMessages DEF Transmit, hostVars, R!Tell
  <2> QED
    BY <2>2 DEF R!Next
<1>2. ASSUME NEW type \in Answered, NEW size, Transmit(type, size),
             pending' = Request(type, calls + 1)
      PROVE  R!Ask
  <2>1. type \in R!Answered /\ R!Request(type, calls + 1) = Request(type, calls + 1)
    BY <1>2, SameMessages
  <2>2. /\ pending = R!NoMessage /\ calls < MaxCalls /\ calls' = calls + 1
        /\ UNCHANGED <<served, recv>>
    BY <1>2, SameMessages DEF Transmit, hostVars
  <2>3. pending' = R!Request(type, calls + 1)
    BY <1>2, <2>1
  <2> QED
    BY <2>1, <2>2, <2>3, SameMessages DEF R!Ask
<1>3. CASE PostCall
  BY <1>2, <1>3 DEF PostCall, R!Next, Answered
<1>4. CASE UserDataCall
  BY <1>2, <1>4 DEF UserDataCall, R!Next, Answered
<1>5. CASE Receive
  <2>1. /\ reply.msg = ReplyTo(pending) /\ Served(pending)
        /\ reply.size <= RecvRoom(pending)
    BY <1>5, ReceiveAnswer
  <2>2. /\ pending # NoMessage /\ pending' = NoMessage
        /\ recv'.req = pending /\ recv'.msg = reply.msg /\ recv'.size = reply.size
        /\ UNCHANGED <<served, calls>>
    BY <1>5 DEF Receive, hostVars
  <2>3. RecvRoom(recv'.req) = RecvRoom(pending)
    BY <2>2
  <2>4. (recv'.size <= RecvRoom(recv'.req)) /\ recv'.req # NoMessage
    BY <2>1, <2>2, <2>3
  <2>5. R!Return
    BY <2>1, <2>2, <2>4, SameMessages DEF R!Return, Served
  <2> QED
    BY <2>5 DEF R!Next
<1>6. CASE HostStart
  BY <1>6 DEF HostStart, R!vars
<1>7. CASE HostRead
  BY <1>7 DEF HostRead, R!vars
<1>8. CASE ServerHandles
  <2>1. pending # NoMessage /\ hreq.msg = pending /\ pending.type = NETWORK_POST
    BY <1>8 DEF ServerHandles, WorkInv
  <2>2. served' = served \cup {pending} /\ UNCHANGED <<pending, recv, calls>>
    BY <1>8, <2>1 DEF ServerHandles
  <2>3. R!Serve
    BY <2>1, <2>2, SameMessages DEF R!Serve
  <2> QED
    BY <2>3 DEF R!Next
<1>9. CASE AuxWrite
  BY <1>9 DEF AuxWrite, R!vars
<1>10. CASE StrayPost
  BY <1>10 DEF StrayPost, R!vars
<1>11. CASE UNCHANGED vars
  BY <1>11 DEF vars, R!vars
<1> QED
  BY <1>1, <1>3, <1>4, <1>5, <1>6, <1>7, <1>8, <1>9, <1>10, <1>11 DEF Next

(* With a login.txt that fits, the payload and the PC implement the        *)
(* abstract call to the last byte of the answer, whatever the sizes of the *)
(* texts and however the bytes of the stream fall into reads, until a byte *)
(* of them is taken for a datatype.                                        *)
THEOREM FramedRpcCorrect ==
  ASSUME Assumed
  PROVE  Spec => ImplementsRpc
<1>1. Init => R!Init
  BY SameMessages DEF Init, NoRecv, R!Init, NoResult
<1>2. TypeOK /\ CallInv /\ [Next]_vars => [ConfigFits /\ ~misread' => R!Next]_(R!vars)
  BY StepRefines
<1> QED
  BY <1>1, <1>2, CallInvCorrect, FramingTypeCorrect, PTL DEF Spec, ImplementsRpc

=============================================================================

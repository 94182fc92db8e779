----------------------------- MODULE HttpProofs -----------------------------
(***************************************************************************)
(* Proofs about Http: neither buffer is written past its end, however the  *)
(* body is framed; and what is written to flash is the beginning of the    *)
(* file, for files and buffers of any size, any URL, any number of stalls, *)
(* broken connections and resumptions.  Last, the type invariant.          *)
(***************************************************************************)
EXTENDS Http, SequenceTheorems, WellFoundedInduction, TLAPS

-----------------------------------------------------------------------------
(***************************************************************************)
(* The invariant of the buffers, for all framings.                         *)
(***************************************************************************)
PlaceType ==
  pc \in {"off", "failed", "done", "fetch", "head", "parse", "header", "frame",
          "plain", "top", "copy", "more", "tail"}

TokenType ==
  line \in Seq(Int) /\ data \in Seq(Int) /\ out \in Seq(Int) /\ got \in Seq(Int)

ClientData == [is_more : BOOLEAN, is_chunked : BOOLEAN,
               retrieve_len : Nat, content_len : Int]

CountType == http \in ClientData /\ readLen \in Nat /\ diff \in Int

\* The last byte of either buffer is kept for a zero.
RoomInv == Len(data) < CHUNK_SIZE /\ Len(out) < BufLen

\* What is to be copied is counted down in both places.
CopyInv == pc \in {"copy", "more"} => readLen = http.retrieve_len

BufferInv == PlaceType /\ TokenType /\ CountType /\ RoomInv /\ CopyInv

(***************************************************************************)
(* The invariant of the body, for a file sent with its length: between     *)
(* flash, the caller's buffer, the local one and the connection, no token  *)
(* of the answer is missing and none is there twice.                       *)
(***************************************************************************)

\* The answer to a request for what is not in flash yet, token by token.
Token(i) == CASE i = 1 -> Part
              [] i = 2 -> Status
              [] i = 3 -> End
              [] OTHER -> Len(got) + i - 3

\* The tokens of s are those that follow the k-th.
After(s, k) == \A i \in 1 .. Len(s) : s[i] = Token(k + i)

\* They are what the connection still holds.
Rest(k) == After(line, k) /\ Len(line) = FileLen - Len(got) + 3 - k

\* Nothing of the answer has been read; if the server did not understand the
\* request there is none.
Unread ==
  /\ http.content_len = 0 /\ http.retrieve_len = 0
  /\ line = <<>> \/ Rest(0)

Copied == \A i \in 1 .. Len(out) : out[i] = Len(got) + i

\* The header is read, and so much of the body as out holds.
Read(n) ==
  /\ http.is_more = TRUE /\ http.content_len > 0
  /\ http.retrieve_len = FileLen - Len(got) - n

\* The fetch has counted what it has copied.
Counted == http.content_len - http.retrieve_len - diff = Len(out)

Begun == out = <<>> /\ diff = 0 /\ http.is_more = TRUE

FlashInv ==
  /\ \A i \in 1 .. Len(got) : got[i] = i
  /\ pc # "done" => Len(got) < FileLen

FetchInv == pc = "fetch" => Unread \/ (Read(0) /\ Rest(3))

HeadInv ==
  /\ pc = "head" => Begun /\ Unread
  /\ pc = "parse" =>
       Begun /\ data # <<>> /\ After(data, 0) /\ Rest(Len(data))
  /\ pc = "header" => Begun /\ data = <<>> /\ Rest(2)
  /\ pc = "frame" =>
       Begun /\ data # <<>> /\ After(data, 2) /\ Rest(2 + Len(data))

CopyingInv ==
  /\ pc \in {"top", "copy"} =>
       \/ Begun /\ Unread /\ data = <<>>
       \/ /\ Read(Len(out)) /\ Counted /\ Copied /\ Len(data) <= Room(out)
          /\ After(data, 3 + Len(out)) /\ Rest(3 + Len(out) + Len(data))
  /\ pc = "top" => out = <<>>
  /\ pc = "more" =>
       Read(Len(out)) /\ Counted /\ Copied /\ Rest(3 + Len(out)) /\ readLen > 0

\* Neither of the ways that the other framings take.
LengthInv == pc \notin {"plain", "tail"} /\ http.is_chunked = FALSE

StreamInv == FlashInv /\ FetchInv /\ HeadInv /\ CopyingInv /\ LengthInv

IInv == BufferInv /\ (Plainly => StreamInv)

-----------------------------------------------------------------------------
(***************************************************************************)
(* The operators.                                                          *)
(***************************************************************************)
LEMMA TakeFacts ==
  ASSUME NEW s \in Seq(Int), NEW n \in 0 .. Len(s)
  PROVE  /\ Take(s, n) \in Seq(Int)
         /\ Len(Take(s, n)) = n
         /\ \A i \in 1 .. n : Take(s, n)[i] = s[i]
<1>1. Len(s) \in Nat /\ \A i \in 1 .. n : s[i] \in Int
  BY LenProperties, ElementOfSeq
<1> QED
  BY <1>1, SubSeqProperties DEF Take

LEMMA DropFacts ==
  ASSUME NEW s \in Seq(Int), NEW n \in Nat
  PROVE  /\ Drop(s, n) \in Seq(Int)
         /\ Len(Drop(s, n)) = IF n <= Len(s) THEN Len(s) - n ELSE 0
         /\ \A i \in 1 .. Len(s) - n : Drop(s, n)[i] = s[n + i]
<1>1. Len(s) \in Nat /\ \A i \in n + 1 .. Len(s) : s[i] \in Int
  BY LenProperties, ElementOfSeq
<1> QED
  BY <1>1, SubSeqProperties DEF Drop

LEMMA MinOfTwo ==
  ASSUME NEW a \in Int, NEW b \in Int
  PROVE  Min({a, b}) = IF a <= b THEN a ELSE b
BY DEF Min

LEMMA MinOfThree ==
  ASSUME NEW a \in Int, NEW b \in Int, NEW c \in Int
  PROVE  /\ Min({a, b, c}) \in {a, b, c}
         /\ Min({a, b, c}) <= a /\ Min({a, b, c}) <= b /\ Min({a, b, c}) <= c
<1>1. \E x \in {a, b, c} : \A y \in {a, b, c} : x <= y
  OBVIOUS
<1> QED
  BY <1>1 DEF Min

\* No read returns more than was asked for, nor more than there is.
LEMMA ReadFacts ==
  ASSUME TokenType, NEW max \in Nat, NEW r \in HalRead(max)
  PROVE  r.n \in 0 .. Len(line) /\ r.n <= max
<1> DEFINE n == Len(line)
<1>1. n \in Nat
  BY LenProperties DEF TokenType
<1>2. AtMost(max) \in Nat /\ AtMost(max) <= n /\ AtMost(max) <= max
  BY <1>1, MinOfTwo DEF AtMost
<1>3. AtMost(max - 1) \in Int /\ AtMost(max - 1) <= n /\ AtMost(max - 1) <= max
  BY <1>1, MinOfTwo DEF AtMost
<1>4. CASE r \in TcpReads(max)
  <2> HIDE DEF n
  <2>1. \/ r = Outcome(0, "stalled", FALSE)
        \/ max <= n /\ r = Outcome(max, "read", FALSE)
        \/ max > n /\ \E k \in 0 .. n : r.n = k
        \/ max > n /\ r = Outcome(n, "shut", FALSE)
        \/ \E k \in 0 .. AtMost(max) : r.n = k
        \/ \E k \in 0 .. AtMost(max - 1) : r.n = k
        \/ r = Outcome(0, "broken", TRUE)
    BY <1>1, <1>4 DEF TcpReads, Outcome, n
  <2> QED
    BY <1>1, <1>2, <1>3, <2>1 DEF Outcome, n
<1>5. CASE r \in TlsReads(max)
  <2> HIDE DEF n
  <2>1. \/ max <= n /\ r = Outcome(max, "read", FALSE)
        \/ \E k \in 0 .. AtMost(max) : r.n = k
        \/ max > n /\ r = Outcome(n, "broken", FALSE)
        \/ r = Outcome(0, "broken", TRUE)
    BY <1>1, <1>5 DEF TlsReads, Outcome, n
  <2> QED
    BY <1>1, <1>2, <2>1 DEF Outcome, n
<1>6. CASE r = Outcome(0, "broken", FALSE)
  BY <1>1, <1>6 DEF Outcome
<1> QED
  BY <1>4, <1>5, <1>6 DEF HalRead

\* The bytes the server still has to send.
LEMMA BodyFacts ==
  ASSUME NEW from \in Nat
  PROVE  /\ BodyFrom(from) \in Seq(Int)
         /\ server.code = "ok" /\ from < FileLen =>
              /\ Len(BodyFrom(from)) = FileLen - from
              /\ \A i \in 1 .. FileLen - from : BodyFrom(from)[i] = from + i
<1> USE HttpAssumption
<1>1. CASE server.code = "ok"
  <2> DEFINE n == IF from <= FileLen THEN FileLen - from ELSE 0
  <2>1. n \in Nat /\ 1 .. FileLen - from = 1 .. n
    OBVIOUS
  <2>2. BodyFrom(from) = [i \in 1 .. n |-> from + i]
    BY <1>1, <2>1 DEF BodyFrom
  <2> HIDE DEF n
  <2>3. BodyFrom(from) \in Seq(Int) /\ Len(BodyFrom(from)) = n
    BY <2>1, <2>2
  <2> QED
    BY <2>1, <2>2, <2>3 DEF n
<1>2. CASE server.code # "ok"
  <2>1. Junk \in Int
    BY DEF Junk
  <2> QED
    BY <1>2, <2>1 DEF BodyFrom
<1> QED
  BY <1>1, <1>2

\* The arithmetic of the chunks: token i is number o of chunk k.
LEMMA DivisionFacts ==
  ASSUME NEW a \in Nat, NEW b \in Nat \ {0}
  PROVE  /\ a \div b \in Nat /\ a % b \in 0 .. b - 1
         /\ a = b * (a \div b) + (a % b)
<1>1. a % b = a - b * (a \div b)
  OBVIOUS
<1> QED
  BY <1>1

LEMMA ProductFacts ==
  ASSUME NEW a \in Int, NEW b \in Int, NEW p \in Nat \ {0}, p * a < p * b
  PROVE  a < b
<1> SUFFICES ASSUME b <= a PROVE FALSE
  OBVIOUS
<1>1. PICK c \in Nat : a = b + c
  OBVIOUS
<1>2. p * c \in Nat /\ p * b \in Int
  OBVIOUS
<1>3. p * (b + c) = p * b + p * c
  OBVIOUS
<1> QED
  BY <1>1, <1>2, <1>3

LEMMA ChunkFacts ==
  ASSUME NEW p \in Nat \ {0}, NEW len \in Nat,
         NEW i \in 1 .. len + 5 * ((len + p - 1) \div p),
         NEW k, k = (i - 1) \div (p + 5),
         NEW o, o = (i - 1) % (p + 5)
  PROVE  /\ k \in Nat /\ o \in 0 .. p + 4
         /\ len - p * k < p => o <= len - p * k + 4
<1> DEFINE count == (len + p - 1) \div p
<1>1. k \in Nat /\ o \in 0 .. p + 4 /\ i - 1 = (p + 5) * k + o
  <2>1. i - 1 \in Nat /\ p + 5 \in Nat \ {0} /\ (p + 5) - 1 = p + 4
    BY DivisionFacts
  <2> QED
    BY <2>1, DivisionFacts
<1>2. count \in Nat /\ p * count <= len + p - 1
  <2> DEFINE a == len + p - 1
  <2>1. a \in Nat
    OBVIOUS
  <2> HIDE DEF a
  <2>2. a \div p \in Nat /\ a % p \in Nat /\ a = p * (a \div p) + (a % p)
    BY <2>1, DivisionFacts
  <2>3. p * (a \div p) \in Nat
    BY <2>2
  <2>4. p * (a \div p) <= a
    BY <2>1, <2>2, <2>3
  <2> QED
    BY <2>2, <2>4 DEF a
<1>3. ASSUME len - p * k < p
      PROVE  o <= len - p * k + 4
  <2> HIDE DEF count
  <2>1. p * count < p * (k + 2)
    BY <1>1, <1>2, <1>3
  <2>2. count < k + 2
    BY <1>1, <1>2, <2>1, ProductFacts
  <2>3. (p + 5) * k + o < len + 5 * count
    BY <1>1, <1>2 DEF count
  <2> QED
    BY <1>1, <1>2, <2>2, <2>3
<1> QED
  BY <1>1, <1>3

LEMMA TokenFacts ==
  ASSUME NEW T \in SUBSET Int, NEW body \in Seq(T), CR \in T, LF \in T,
         \A n \in Int : n <= Len(body) => SizeLine(n) \in T,
         NEW p \in Nat \ {0}, NEW k \in Nat,
         NEW o \in 0 .. p + 4, NEW size,
         size = Min({p, Len(body) - p * k}),
         Len(body) - p * k < p => o <= Len(body) - p * k + 4
  PROVE  (CASE o = 0 -> SizeLine(size)
            [] o \in {1, size + 3} -> CR
            [] o \in {2, size + 4} -> LF
            [] OTHER -> body[p * k + o - 2]) \in T
<1>1. Len(body) \in Nat /\ \A j \in 1 .. Len(body) : body[j] \in T
  BY LenProperties, ElementOfSeq
<1> DEFINE done == p * k
<1>2. done \in Nat
  OBVIOUS
<1> HIDE DEF done
<1>3. size = IF p <= Len(body) - done THEN p ELSE Len(body) - done
  BY <1>1, <1>2, MinOfTwo DEF done
<1>4. CASE o \in {0, 1, 2, size + 3, size + 4}
  <2>1. size \in Int /\ size <= Len(body)
    BY <1>1, <1>2, <1>3
  <2>2. SizeLine(size) \in T
    BY <2>1
  <2>3. (o \in {1, size + 3} \/ o \in {2, size + 4}) \/ o = 0
    BY <1>4, <2>1
  <2> QED
    BY <2>2, <2>3
<1>5. CASE o \notin {0, 1, 2, size + 3, size + 4}
  <2>1. Len(body) - done < p => o <= Len(body) - done + 4
    BY DEF done
  <2>2. size \in Int /\ o >= 3 /\ done + size <= Len(body)
    <3>1. o \in Int /\ o >= 0 /\ o # 0 /\ o # 1 /\ o # 2
      BY <1>5
    <3>2. size \in Int /\ done + size <= Len(body)
      BY <1>1, <1>2, <1>3
    <3> QED
      BY <3>1, <3>2
  <2>3. o - 2 <= size
    <3>1. o \in Int /\ size \in Int /\ o # size + 3 /\ o # size + 4
      BY <1>5, <2>2
    <3>2. o <= size + 4
      <4>1. CASE p <= Len(body) - done
        BY <1>3, <4>1
      <4>2. CASE ~(p <= Len(body) - done)
        <5>1. size = Len(body) - done
          BY <1>3, <4>2
        <5>2. o <= Len(body) - done + 4
          BY <1>1, <1>2, <2>1, <4>2
        <5> QED
          BY <5>1, <5>2
      <4> QED
        BY <4>1, <4>2
    <3> QED
      BY <3>1, <3>2
  <2>4. done + o - 2 \in 1 .. Len(body)
    BY <1>1, <1>2, <2>2, <2>3
  <2> QED
    BY <1>1, <1>5, <2>4 DEF done
<1> QED
  BY <1>4, <1>5

LEMMA ChunksType ==
  ASSUME NEW T \in SUBSET Int, NEW body \in Seq(T), CR \in T, LF \in T,
         \A n \in Int : n <= Len(body) => SizeLine(n) \in T
  PROVE  Chunks(body) \in Seq(T)
<1> DEFINE len == Len(body)
           p == PieceLen
           count == (len + p - 1) \div p
           size(k) == Min({p, len - p * k})
           token(k, o) == CASE o = 0 -> SizeLine(size(k))
                            [] o \in {1, size(k) + 3} -> CR
                            [] o \in {2, size(k) + 4} -> LF
                            [] OTHER -> body[p * k + o - 2]
           s == [i \in 1 .. len + 5 * count |->
                   token((i - 1) \div (p + 5), (i - 1) % (p + 5))]
<1>1. len \in Nat /\ p \in Nat \ {0}
  BY LenProperties, HttpAssumption
<1>2. count \in Nat
  <2>1. len + p - 1 \in Nat
    BY <1>1
  <2> QED
    BY <1>1, <2>1, DivisionFacts
<1>3. ASSUME NEW i \in 1 .. len + 5 * count
      PROVE  token((i - 1) \div (p + 5), (i - 1) % (p + 5)) \in T
  <2> DEFINE k == (i - 1) \div (p + 5)
             o == (i - 1) % (p + 5)
  <2>1. /\ k \in Nat /\ o \in 0 .. p + 4
        /\ len - p * k < p => o <= len - p * k + 4
    BY <1>1, ChunkFacts
  <2> HIDE DEF k, o
  <2>2. token(k, o) \in T
    BY <1>1, <2>1, TokenFacts
  <2> QED
    BY <2>2 DEF k, o
<1>4. s \in Seq(T)
  <2> HIDE DEF token, count
  <2> DEFINE n == len + 5 * count
             t(i) == token((i - 1) \div (p + 5), (i - 1) % (p + 5))
  <2>1. n \in Nat
    BY <1>1, <1>2
  <2>2. \A i \in 1 .. n : t(i) \in T
    BY <1>3
  <2> HIDE DEF n, t
  <2>3. [i \in 1 .. n |-> t(i)] \in Seq(T)
    BY <2>1, <2>2
  <2> QED
    BY <2>3 DEF n, t
<1>5. LastChunk \in Seq(T)
  <2>1. SizeLine(0) \in T
    BY <1>1
  <2> QED
    BY <2>1 DEF LastChunk
<1>6. Chunks(body) = s \o LastChunk
  BY Zenon DEF Chunks
<1> HIDE DEF s
<1> QED
  BY <1>4, <1>5, <1>6, ConcatProperties

LEMMA AnswerFacts ==
  ASSUME NEW from \in Nat
  PROVE  /\ Answer(from) \in Seq(Int)
         /\ Plainly /\ from < FileLen =>
              /\ Len(Answer(from)) = FileLen - from + 3
              /\ Answer(from)[1] = Part /\ Answer(from)[2] = Status
              /\ Answer(from)[3] = End
              /\ \A i \in 1 .. FileLen - from : Answer(from)[3 + i] = from + i
<1> DEFINE header == <<Part, Status, End>>
           body == IF server.framing = "chunked" THEN Chunks(BodyFrom(from))
                   ELSE BodyFrom(from)
<1>1. /\ header \in Seq(Int) /\ Len(header) = 3
      /\ header[1] = Part /\ header[2] = Status /\ header[3] = End
  BY DEF Part, Status, End
<1>2. body \in Seq(Int)
  <2>1. /\ BodyFrom(from) \in Seq(Int) /\ CR \in Int /\ LF \in Int
        /\ \A n \in Int : SizeLine(n) \in Int
    BY BodyFacts DEF CR, LF, SizeLine
  <2>2. Chunks(BodyFrom(from)) \in Seq(Int)
    BY <2>1, ChunksType
  <2> QED
    BY <2>1, <2>2
<1> HIDE DEF header, body
<1>3. Answer(from) = header \o body
  BY DEF Answer, header, body
<1>4. /\ Answer(from) \in Seq(Int)
      /\ Len(Answer(from)) = 3 + Len(body)
      /\ \A i \in 1 .. 3 + Len(body) :
           Answer(from)[i] = IF i <= 3 THEN header[i] ELSE body[i - 3]
  <2>1. /\ header \o body \in Seq(Int)
        /\ Len(header \o body) = Len(header) + Len(body)
        /\ \A i \in 1 .. Len(header) + Len(body) :
             (header \o body)[i] =
               IF i <= Len(header) THEN header[i] ELSE body[i - Len(header)]
    BY <1>1, <1>2, ConcatProperties
  <2> QED
    BY <1>1, <1>3, <2>1
<1>5. ASSUME Plainly, from < FileLen
      PROVE  /\ Len(body) = FileLen - from
             /\ \A i \in 1 .. FileLen - from : body[i] = from + i
  <2>1. body = BodyFrom(from)
    BY <1>5 DEF Plainly, body
  <2> QED
    BY <1>5, <2>1, BodyFacts DEF Plainly
<1>6. FileLen \in Nat /\ Len(body) \in Nat
  BY <1>2, HttpAssumption, LenProperties
<1>7. ASSUME Plainly, from < FileLen
      PROVE  /\ Len(Answer(from)) = FileLen - from + 3
             /\ Answer(from)[1] = Part /\ Answer(from)[2] = Status
             /\ Answer(from)[3] = End
  <2>1. {1, 2, 3} \subseteq 1 .. 3 + Len(body)
    BY <1>6
  <2> QED
    <3>1. /\ Answer(from)[1] = header[1] /\ Answer(from)[2] = header[2]
          /\ Answer(from)[3] = header[3]
      BY <1>4, <2>1
    <3>2. Len(Answer(from)) = FileLen - from + 3
      <4>1. Len(body) = FileLen - from
        BY <1>5, <1>7
      <4>2. Len(Answer(from)) = 3 + Len(body)
        BY <1>4
      <4> QED
        BY <1>6, <4>1, <4>2
    <3> QED
      BY <1>1, <3>1, <3>2
<1>8. ASSUME Plainly, from < FileLen, NEW i \in 1 .. FileLen - from
      PROVE  Answer(from)[3 + i] = from + i
  <2>1. 3 + i \in 1 .. 3 + Len(body) /\ ~(3 + i <= 3) /\ 3 + i - 3 = i
    BY <1>5, <1>6, <1>8
  <2> QED
    BY <1>4, <1>5, <1>8, <2>1
<1> QED
  BY <1>4, <1>7, <1>8

\* A download resumes at a sector that has been written.
LEMMA ResumeFacts ==
  ASSUME got \in Seq(Int)
  PROVE  Resume \in 0 .. Len(got)
<1> DEFINE a == Len(got)
           b == SECTOR
<1>1. a \in Nat /\ b \in Nat \ {0}
  BY LenProperties, HttpAssumption
<1> HIDE DEF a, b
<1>2. \A m \in Nat, n \in Nat \ {0} : (m \div n) * n \in 0 .. m
  <2> SUFFICES ASSUME NEW m \in Nat, NEW n \in Nat \ {0}
               PROVE  (m \div n) * n \in 0 .. m
    OBVIOUS
  <2>1. m \div n \in Nat /\ m % n \in 0 .. n - 1 /\ m = n * (m \div n) + (m % n)
    BY DivisionFacts
  <2>2. n * (m \div n) = (m \div n) * n /\ (m \div n) * n \in Nat
    BY <2>1
  <2> QED
    BY <2>1, <2>2
<1>3. (a \div b) * b \in 0 .. a
  BY <1>1, <1>2
<1> QED
  BY <1>3 DEF Resume, a, b

-----------------------------------------------------------------------------
(***************************************************************************)
(* The buffers, whatever the framing.                                      *)
(***************************************************************************)
\* The part of the assumption that the arithmetic needs.
LEMMA Sizes ==
  /\ FileLen \in Nat \ {0} /\ CHUNK_SIZE \in Nat /\ CHUNK_SIZE > 3
  /\ BufLen \in Nat /\ BufLen > CHUNK_SIZE
BY HttpAssumption

LEMMA DataTypes ==
  ASSUME NEW h \in ClientData
  PROVE  /\ \A n \in Nat, c \in Int :
              [h EXCEPT !.content_len = c, !.retrieve_len = n] \in ClientData
         /\ \A n \in Nat, c \in Int :
              [h EXCEPT !.retrieve_len = n, !.content_len = c] \in ClientData
         /\ [h EXCEPT !.is_chunked = TRUE, !.content_len = 0,
                      !.retrieve_len = 0] \in ClientData
         /\ \A n \in Nat : /\ [h EXCEPT !.retrieve_len = n] \in ClientData
                           /\ [h EXCEPT !.retrieve_len = n].retrieve_len = n
         /\ [h EXCEPT !.is_more = FALSE] \in ClientData
<1>1. ASSUME NEW n \in Nat, NEW c \in Int
      PROVE  /\ [h EXCEPT !.content_len = c, !.retrieve_len = n] \in ClientData
             /\ [h EXCEPT !.retrieve_len = n, !.content_len = c] \in ClientData
  BY DEF ClientData
<1>2. ASSUME NEW n \in Nat
      PROVE  /\ [h EXCEPT !.retrieve_len = n] \in ClientData
             /\ [h EXCEPT !.retrieve_len = n].retrieve_len = n
  BY DEF ClientData
<1>3. [h EXCEPT !.is_chunked = TRUE, !.content_len = 0,
                !.retrieve_len = 0] \in ClientData
  <2>1. 0 \in Nat /\ 0 \in Int
    OBVIOUS
  <2> QED
    BY <2>1, Zenon DEF ClientData
<1>4. [h EXCEPT !.is_more = FALSE] \in ClientData
  BY DEF ClientData
<1> QED
  BY <1>1, <1>2, <1>3, <1>4

LEMMA ReceiveFacts ==
  ASSUME TokenType, NEW max \in Nat, NEW r \in HalRead(max)
  PROVE  /\ Tokens(r) \in Seq(Int) /\ Len(Tokens(r)) = r.n
         /\ r.n \in 0 .. Len(line) /\ r.n <= max
         /\ \A i \in 1 .. r.n : Tokens(r)[i] = line[i]
         /\ Drop(line, r.n) \in Seq(Int)
         /\ Len(Drop(line, r.n)) = Len(line) - r.n
         /\ \A i \in 1 .. Len(line) - r.n : Drop(line, r.n)[i] = line[r.n + i]
<1>1. r.n \in 0 .. Len(line) /\ r.n <= max /\ line \in Seq(Int)
  BY ReadFacts DEF TokenType
<1>2. r.n \in Nat /\ Len(line) \in Nat /\ r.n <= Len(line)
  BY <1>1, LenProperties
<1> QED
  BY <1>1, <1>2, TakeFacts, DropFacts DEF Tokens

LEMMA FailKeeps ==
  ASSUME BufferInv, Fail, line' \in Seq(Int), diff' \in Int
  PROVE  BufferInv'
BY DEF BufferInv, PlaceType, TokenType, CountType, RoomInv, CopyInv, Fail

\* What the caller writes to flash.
LEMMA WrittenType ==
  ASSUME NEW n \in Nat, NEW buf \in Seq(Int)
  PROVE  LET written == [i \in 1 .. n |-> IF i \in DOMAIN buf THEN buf[i]
                                          ELSE Junk]
         IN  written \in Seq(Int) /\ Len(written) = n
<1> DEFINE w(i) == IF i \in DOMAIN buf THEN buf[i] ELSE Junk
<1>1. \A i \in 1 .. n : w(i) \in Int
  BY ElementOfSeq, LenProperties DEF Junk
<1> HIDE DEF w
<1>2. [i \in 1 .. n |-> w(i)] \in Seq(Int) /\ Len([i \in 1 .. n |-> w(i)]) = n
  BY <1>1
<1> QED
  BY <1>2 DEF w

LEMMA ReturnKeeps ==
  ASSUME BufferInv, NEW h \in ClientData, NEW buf \in Seq(Int),
         Len(buf) < BufLen, Return(h, buf), line' \in Seq(Int), diff' \in Int
  PROVE  BufferInv'
<1> DEFINE n == h.content_len - h.retrieve_len - diff
           written == [i \in 1 .. n |-> IF i \in DOMAIN buf THEN buf[i] ELSE Junk]
<1>1. n \in Int /\ got \in Seq(Int)
  BY DEF BufferInv, CountType, TokenType, ClientData
<1>2. /\ http' = h /\ out' = buf /\ UNCHANGED <<data, readLen>>
      /\ got' = IF n < 0 THEN got ELSE got \o written
      /\ pc' \in {"failed", "done", "fetch"}
  BY DEF Return
<1>3. got' \in Seq(Int)
  <2>1. CASE n < 0
    BY <1>1, <1>2, <2>1
  <2>2. CASE ~(n < 0)
    <3>1. written \in Seq(Int)
      <4>1. n \in Nat
        BY <1>1, <2>2
      <4> HIDE DEF n
      <4> QED
        BY <4>1, WrittenType
    <3> HIDE DEF n, written
    <3> QED
      BY <1>1, <1>2, <2>2, <3>1, ConcatProperties
  <2> QED
    BY <2>1, <2>2
<1> QED
  BY <1>2, <1>3
     DEF BufferInv, PlaceType, TokenType, CountType, RoomInv, CopyInv, ClientData

LEMMA ResumedType ==
  ASSUME got \in Seq(Int)
  PROVE  Take(got, Resume) \in Seq(Int) /\ Resume \in Nat
BY ResumeFacts, TakeFacts, LenProperties

LEMMA StartKeepsBuffers ==
  ASSUME BufferInv, StartDownload
  PROVE  BufferInv'
<1>1. got \in Seq(Int)
  BY DEF BufferInv, TokenType
<1>2. got' \in Seq(Int) /\ Resume \in Nat
  BY <1>1, ResumedType DEF StartDownload
<1>3. line' \in Seq(Int)
  <2>1. line' = <<>> \/ line' = Answer(Resume)
    BY DEF StartDownload
  <2> QED
    BY <1>2, <2>1, AnswerFacts, EmptySeq
<1>4. /\ http' = NoData /\ data' = <<>> /\ out' = <<>> /\ readLen' = 0
      /\ diff' = 0 /\ pc' \in {"failed", "fetch"}
  BY DEF StartDownload
<1> QED
  BY <1>2, <1>3, <1>4, Sizes
     DEF BufferInv, PlaceType, TokenType, CountType, ClientData, RoomInv,
         CopyInv, NoData

LEMMA FetchKeepsBuffers ==
  ASSUME BufferInv, Fetch
  PROVE  BufferInv'
<1>1. http' \in ClientData
  <2>1. http' \in {http, [http EXCEPT !.is_more = TRUE]}
    BY DEF Fetch
  <2> QED
    BY <2>1 DEF BufferInv, CountType, ClientData
<1>2. /\ line' = line /\ got' = got /\ readLen' = readLen
      /\ diff' \in Int
      /\ data' = data \/ data' = <<>>
      /\ out' = out \/ out' = <<>>
      /\ pc' \in {"failed", "head", "plain", "top"}
  BY DEF BufferInv, CountType, ClientData, Fetch, netVars, Entry
<1>3. TokenType' /\ RoomInv'
  <2>1. CHUNK_SIZE > Len(<<>>) /\ BufLen > Len(<<>>) /\ <<>> \in Seq(Int)
    BY Sizes
  <2>2. data' \in Seq(Int) /\ Len(data') < CHUNK_SIZE
    BY <1>2, <2>1 DEF BufferInv, TokenType, RoomInv
  <2>3. out' \in Seq(Int) /\ Len(out') < BufLen
    BY <1>2, <2>1 DEF BufferInv, TokenType, RoomInv
  <2> QED
    BY <1>2, <2>2, <2>3 DEF BufferInv, TokenType, RoomInv
<1>4. PlaceType' /\ CountType' /\ CopyInv'
  BY <1>1, <1>2 DEF BufferInv, PlaceType, CountType, CopyInv, ClientData
<1> QED
  BY <1>3, <1>4 DEF BufferInv

\* A read of no more than the room left, and what follows it.
LEMMA RecvType ==
  ASSUME BufferInv, NEW max \in Nat, NEW r \in HalRead(max), Recv(r)
  PROVE  /\ line' \in Seq(Int) /\ diff' \in Int
         /\ Tokens(r) \in Seq(Int) /\ Len(Tokens(r)) \in Nat
         /\ Len(Tokens(r)) <= max
<1>1. TokenType /\ diff \in Int
  BY DEF BufferInv, CountType
<1>2. line' = Drop(line, r.n) /\ diff' = diff
  BY DEF Recv
<1> QED
  BY <1>1, <1>2, ReceiveFacts, LenProperties

LEMMA Rooms ==
  ASSUME BufferInv
  PROVE  /\ Len(data) \in Nat /\ Len(out) \in Nat
         /\ CHUNK_SIZE - 1 \in Nat
         /\ CHUNK_SIZE - Len(data) - 1 \in Nat
         /\ Room(out) \in Nat /\ Room(out) = BufLen - 1 - Len(out)
<1>1. Len(data) \in Nat /\ Len(out) \in Nat
  BY LenProperties DEF BufferInv, TokenType
<1> QED
  BY <1>1, Sizes DEF BufferInv, RoomInv, Room

LEMMA ResponseKeepsBuffers ==
  ASSUME BufferInv, ReadResponse
  PROVE  BufferInv'
<1>1. PICK r \in HalRead(CHUNK_SIZE - 1) :
        /\ Recv(r)
        /\ IF ~Received(r) THEN Fail
           ELSE IF r.n = 0 THEN HandleAfter(r) /\ Return(http, out)
           ELSE /\ HandleAfter(r) /\ pc' = "parse" /\ data' = Tokens(r)
                /\ UNCHANGED <<http, out, readLen, got>>
  BY DEF ReadResponse
<1>2. /\ line' \in Seq(Int) /\ diff' \in Int /\ Tokens(r) \in Seq(Int)
      /\ Len(Tokens(r)) < CHUNK_SIZE
  <2>1. CHUNK_SIZE - 1 \in Nat /\ CHUNK_SIZE \in Nat
    BY Sizes
  <2> QED
    BY <1>1, <2>1, RecvType
<1>3. CASE Fail
  BY <1>2, <1>3, FailKeeps
<1>4. CASE Return(http, out)
  BY <1>2, <1>4, ReturnKeeps
     DEF BufferInv, CountType, TokenType, RoomInv, ClientData
<1>5. CASE /\ pc' = "parse" /\ data' = Tokens(r)
           /\ UNCHANGED <<http, out, readLen, got>>
  BY <1>2, <1>5
     DEF BufferInv, PlaceType, TokenType, CountType, RoomInv, CopyInv
<1> QED
  BY <1>1, <1>3, <1>4, <1>5

LEMMA HeaderKeepsBuffers ==
  ASSUME BufferInv, ReadHeader
  PROVE  BufferInv'
<1>1. PICK r \in HalRead(CHUNK_SIZE - Len(data) - 1) :
        /\ Recv(r)
        /\ IF ~Received(r) \/ End \notin ToSet(Tokens(r)) THEN Fail
           ELSE /\ HandleAfter(r) /\ pc' = "frame" /\ data' = data \o Tokens(r)
                /\ UNCHANGED <<http, out, readLen, got>>
  BY DEF ReadHeader
<1>2. CHUNK_SIZE - Len(data) - 1 \in Nat /\ Len(data) \in Nat /\ data \in Seq(Int)
  BY Rooms DEF BufferInv, TokenType
<1>3. /\ line' \in Seq(Int) /\ diff' \in Int /\ Tokens(r) \in Seq(Int)
      /\ Len(Tokens(r)) \in Nat /\ Len(Tokens(r)) <= CHUNK_SIZE - Len(data) - 1
  BY <1>1, <1>2, RecvType
<1>4. /\ data \o Tokens(r) \in Seq(Int)
      /\ Len(data \o Tokens(r)) < CHUNK_SIZE
  BY <1>2, <1>3, ConcatProperties, Sizes
<1>5. CASE Fail
  BY <1>3, <1>5, FailKeeps
<1>6. CASE /\ pc' = "frame" /\ data' = data \o Tokens(r)
           /\ UNCHANGED <<http, out, readLen, got>>
  BY <1>3, <1>4, <1>6
     DEF BufferInv, PlaceType, TokenType, CountType, RoomInv, CopyInv
<1> QED
  BY <1>1, <1>5, <1>6

\* What has been read is let go of from the front.
LEMMA DroppedType ==
  ASSUME BufferInv, NEW k \in Nat
  PROVE  Drop(data, k) \in Seq(Int) /\ Len(Drop(data, k)) < CHUNK_SIZE
<1>1. data \in Seq(Int) /\ Len(data) < CHUNK_SIZE /\ Len(data) \in Nat
  BY Rooms DEF BufferInv, TokenType, RoomInv
<1>2. /\ Drop(data, k) \in Seq(Int)
      /\ Len(Drop(data, k)) = IF k <= Len(data) THEN Len(data) - k ELSE 0
  BY <1>1, DropFacts
<1> QED
  BY <1>1, <1>2, Sizes

LEMMA ParseKeepsBuffers ==
  ASSUME BufferInv, ParseStatus \/ ParseHeader
  PROVE  BufferInv'
<1>1. line' \in Seq(Int) /\ diff' \in Int
  BY DEF BufferInv, TokenType, CountType, ParseStatus, ParseHeader, NoRead
<1>2. CASE Fail
  BY <1>1, <1>2, FailKeeps
<1>3. CASE ParseStatus /\ ~Fail
  <2>1. /\ data' = Drop(data, 2) /\ out' = out /\ readLen' = readLen /\ got' = got
        /\ http' = [http EXCEPT !.content_len = -1, !.is_chunked = FALSE]
        /\ pc' \in {"frame", "header"}
    BY <1>3 DEF ParseStatus
  <2>2. http' \in ClientData
    <3>1. -1 \in Int
      OBVIOUS
    <3> QED
      BY <2>1, <3>1, Zenon DEF BufferInv, CountType, ClientData
  <2>3. data' \in Seq(Int) /\ Len(data') < CHUNK_SIZE
    BY <2>1, DroppedType
  <2> QED
    BY <1>1, <2>1, <2>2, <2>3
       DEF BufferInv, PlaceType, TokenType, CountType, RoomInv, CopyInv, ClientData
<1>4. CASE ParseHeader /\ ~Fail
  <2>1. /\ data' = Drop(data, 1) /\ out' = out /\ readLen' = readLen /\ got' = got
        /\ http' = Framed(server.framing)
        /\ pc' \in {"plain", "top"}
    BY <1>4 DEF ParseHeader, Entry
  <2>2. Len(BodyFrom(Len(got))) \in Nat
    BY BodyFacts, LenProperties DEF BufferInv, TokenType
  <2>3. http' \in ClientData
    <3> DEFINE n == Len(BodyFrom(Len(got)))
    <3>1. http \in ClientData
      BY DEF BufferInv, CountType, ClientData
    <3> HIDE DEF n
    <3>2. \/ http' = [http EXCEPT !.content_len = n, !.retrieve_len = n]
          \/ http' = [http EXCEPT !.is_chunked = TRUE,
                                  !.content_len = 0, !.retrieve_len = 0]
          \/ http' = http
      BY <2>1 DEF Framed, n
    <3>3. n \in Nat
      BY <2>2 DEF n
    <3>4. [http EXCEPT !.content_len = n, !.retrieve_len = n] \in ClientData
      <4>1. n \in Int
        BY <3>3
      <4> QED
        BY <3>1, <3>3, <4>1, DataTypes, Zenon
    <3>5. [http EXCEPT !.is_chunked = TRUE, !.content_len = 0,
                       !.retrieve_len = 0] \in ClientData
      BY <3>1, DataTypes, Zenon
    <3> QED
      BY <3>1, <3>2, <3>4, <3>5
  <2>4. data' \in Seq(Int) /\ Len(data') < CHUNK_SIZE
    BY <2>1, DroppedType
  <2> QED
    BY <1>1, <2>1, <2>3, <2>4
       DEF BufferInv, PlaceType, TokenType, CountType, RoomInv, CopyInv, ClientData
<1> QED
  BY <1>2, <1>3, <1>4

LEMMA PlainKeepsBuffers ==
  ASSUME BufferInv, Plain
  PROVE  BufferInv'
<1>1. /\ Len(data) \in Nat /\ Len(out) \in Nat /\ CHUNK_SIZE - 1 \in Nat
      /\ Room(out) \in Nat /\ Room(out) = BufLen - 1 - Len(out)
      /\ data \in Seq(Int) /\ out \in Seq(Int) /\ http \in ClientData
  BY Rooms DEF BufferInv, TokenType, CountType, ClientData
<1>2. CASE Len(data) >= Room(out)
  <2> DEFINE buf == out \o Take(data, Room(out))
  <2>1. Take(data, Room(out)) \in Seq(Int) /\ Len(Take(data, Room(out))) = Room(out)
    BY <1>1, <1>2, TakeFacts
  <2>2. buf \in Seq(Int) /\ Len(buf) = Len(out) + Room(out)
    BY <1>1, <2>1, ConcatProperties
  <2>3. Return(http, buf) /\ line' \in Seq(Int) /\ diff' \in Int
    BY <1>2 DEF Plain, NoRead, BufferInv, TokenType, CountType
  <2>4. Len(buf) < BufLen
    BY <1>1, <2>2, Sizes
  <2> QED
    BY <1>1, <2>2, <2>3, <2>4, ReturnKeeps
<1>3. CASE ~(Len(data) >= Room(out))
  <2> DEFINE most == Min({CHUNK_SIZE - 1, Room(out \o data)})
  <2>1. PICK r \in HalRead(most) :
          /\ Recv(r)
          /\ IF ~Received(r) \/ late' THEN Fail
             ELSE /\ HandleAfter(r) /\ out' = out \o data
                  /\ data' = Tokens(r)
                  /\ UNCHANGED <<http, pc, readLen, got>>
    BY <1>3 DEF Plain
  <2>2. out \o data \in Seq(Int) /\ Len(out \o data) = Len(out) + Len(data)
    BY <1>1, ConcatProperties
  <2>3. Room(out \o data) \in Nat /\ Len(out \o data) < BufLen
    BY <1>1, <1>3, <2>2, Sizes DEF Room
  <2>4. most \in Nat /\ most <= CHUNK_SIZE - 1
    BY <1>1, <2>3, MinOfTwo
  <2>5. /\ line' \in Seq(Int) /\ diff' \in Int /\ Tokens(r) \in Seq(Int)
        /\ Len(Tokens(r)) \in Nat /\ Len(Tokens(r)) <= most
    <3> HIDE DEF most
    <3> QED
      BY <2>1, <2>4, RecvType
  <2>6. Len(Tokens(r)) < CHUNK_SIZE
    BY <2>4, <2>5, Sizes
  <2>7. CASE Fail
    BY <2>5, <2>7, FailKeeps
  <2>8. CASE /\ out' = out \o data /\ data' = Tokens(r)
             /\ UNCHANGED <<http, pc, readLen, got>>
    <3> HIDE DEF most
    <3> QED
      BY <2>2, <2>3, <2>5, <2>6, <2>8
         DEF BufferInv, PlaceType, TokenType, CountType, RoomInv, CopyInv
  <2> QED
    BY <2>1, <2>7, <2>8
<1> QED
  BY <1>2, <1>3

LEMMA FirstOf ==
  ASSUME NEW S \in SUBSET Nat, S # {}
  PROVE  Min(S) \in S
<1> DEFINE R == OpToRel(<, Nat)
<1>1. \A x \in Nat, y \in Nat : y < x => <<y, x>> \in R
  BY DEF OpToRel
<1>2. IsWellFoundedOn(R, Nat)
  BY NatLessThanWellFounded
<1> HIDE DEF R
<1>3. PICK x \in S : \A y \in S : ~(<<y, x>> \in R)
  BY <1>2, WFMin, Zenon
<1>4. \A y \in S : x <= y
  <2> SUFFICES ASSUME NEW y \in S
               PROVE  x <= y
    OBVIOUS
  <2>1. x \in Nat /\ y \in Nat
    OBVIOUS
  <2>2. ~(y < x)
    BY <1>1, <1>3, <2>1, Zenon
  <2> QED
    BY <2>1, <2>2
<1> QED
  BY <1>4 DEF Min

LEMMA SizeLineKeepsBuffers ==
  ASSUME BufferInv, ReadSizeLine \/ ParseSizeLine
  PROVE  BufferInv'
<1>1. CASE ReadSizeLine
  <2>1. PICK r \in HalRead(CHUNK_SIZE - Len(data) - 1) :
          /\ Recv(r)
          /\ IF ~Received(r) THEN Fail
             ELSE /\ HandleAfter(r) /\ data' = data \o Tokens(r)
                  /\ UNCHANGED <<http, pc, out, readLen, got>>
    BY <1>1 DEF ReadSizeLine
  <2>2. CHUNK_SIZE - Len(data) - 1 \in Nat /\ Len(data) \in Nat /\ data \in Seq(Int)
    BY Rooms DEF BufferInv, TokenType
  <2>3. /\ line' \in Seq(Int) /\ diff' \in Int /\ Tokens(r) \in Seq(Int)
        /\ Len(Tokens(r)) \in Nat /\ Len(Tokens(r)) <= CHUNK_SIZE - Len(data) - 1
    BY <2>1, <2>2, RecvType
  <2>4. data \o Tokens(r) \in Seq(Int) /\ Len(data \o Tokens(r)) < CHUNK_SIZE
    BY <2>2, <2>3, ConcatProperties, Sizes
  <2>5. CASE Fail
    BY <2>3, <2>5, FailKeeps
  <2>6. CASE /\ data' = data \o Tokens(r)
             /\ UNCHANGED <<http, pc, out, readLen, got>>
    BY <2>3, <2>4, <2>6
       DEF BufferInv, PlaceType, TokenType, CountType, RoomInv, CopyInv
  <2> QED
    BY <2>1, <2>5, <2>6
<1>2. CASE ParseSizeLine
  <2>1. /\ SizeLineEnds # {} /\ line' \in Seq(Int) /\ diff' \in Int
        /\ http \in ClientData /\ Len(data) \in Nat /\ data \in Seq(Int)
    BY <1>2, Rooms
       DEF ParseSizeLine, NoRead, BufferInv, TokenType, CountType, ClientData
  <2>2. Min(SizeLineEnds) + 1 \in Nat /\ data[1] \in Int
    <3>1. SizeLineEnds \in SUBSET Nat
      BY DEF SizeLineEnds
    <3>2. Min(SizeLineEnds) \in SizeLineEnds
      BY <2>1, <3>1, FirstOf
    <3>3. 1 \in 1 .. Len(data)
      BY <2>1, <3>2 DEF SizeLineEnds
    <3>4. data[1] \in Int
      BY <2>1, <3>3, ElementOfSeq, Zenon
    <3>5. Min(SizeLineEnds) \in Nat
      BY <3>1, <3>2
    <3> HIDE DEF SizeLineEnds
    <3> QED
      BY <3>4, <3>5
  <2>3. SizeRead \in Nat
    BY <2>2 DEF SizeRead, SizeLine
  <2>4. CASE Fail
    BY <2>1, <2>4, FailKeeps
  <2>5. CASE /\ data' = Drop(data, Min(SizeLineEnds) + 1)
             /\ http' = [http EXCEPT !.retrieve_len = SizeRead,
                                     !.content_len = @ + SizeRead]
             /\ readLen' = SizeRead /\ pc' = "copy"
             /\ UNCHANGED <<out, got>>
    <3>1. http' \in ClientData /\ http'.retrieve_len = SizeRead
      <4> DEFINE c == http.content_len + SizeRead
      <4>1. http' = [http EXCEPT !.retrieve_len = SizeRead, !.content_len = c]
        BY <2>5
      <4>2. c \in Int
        BY <2>1, <2>3 DEF ClientData
      <4> HIDE DEF c
      <4>3. http' \in ClientData
        BY <2>1, <2>3, <4>1, <4>2, DataTypes, Zenon
      <4> QED
        BY <2>1, <4>1, <4>3 DEF ClientData
    <3>2. data' \in Seq(Int) /\ Len(data') < CHUNK_SIZE
      BY <2>2, <2>5, DroppedType
    <3> QED
      BY <2>1, <2>3, <2>5, <3>1, <3>2
         DEF BufferInv, PlaceType, TokenType, CountType, RoomInv, CopyInv, ClientData
  <2> QED
    BY <1>2, <2>4, <2>5 DEF ParseSizeLine
<1> QED
  BY <1>1, <1>2

LEMMA TopKeepsBuffers ==
  ASSUME BufferInv, Top \/ Restart
  PROVE  BufferInv'
BY DEF BufferInv, PlaceType, TokenType, CountType, ClientData, RoomInv,
       CopyInv, Top, NoRead, Restart, fetchVars

LEMMA MostFacts ==
  ASSUME BufferInv
  PROVE  /\ Min({Len(data), readLen, Room(out)}) \in Nat
         /\ Min({Len(data), readLen, Room(out)}) <= Len(data)
         /\ Min({Len(data), readLen, Room(out)}) <= readLen
         /\ Min({Len(data), readLen, Room(out)}) <= Room(out)
         /\ MostToRead \in Nat /\ MostToRead <= CHUNK_SIZE - 1
         /\ MostToRead <= Room(out) /\ MostToRead <= readLen
<1>1. /\ Len(data) \in Nat /\ Room(out) \in Nat /\ readLen \in Nat
      /\ CHUNK_SIZE - 1 \in Nat
  BY Rooms DEF BufferInv, CountType
<1>2. Min({Len(data), readLen, Room(out)}) \in {Len(data), readLen, Room(out)}
      /\ Min({Len(data), readLen, Room(out)}) <= Len(data)
      /\ Min({Len(data), readLen, Room(out)}) <= readLen
      /\ Min({Len(data), readLen, Room(out)}) <= Room(out)
  <2>1. Len(data) \in Int /\ readLen \in Int /\ Room(out) \in Int
    BY <1>1
  <2> QED
    BY <2>1, MinOfThree, Zenon
<1>3. /\ MostToRead \in {CHUNK_SIZE - 1, Room(out), readLen}
      /\ MostToRead <= CHUNK_SIZE - 1 /\ MostToRead <= Room(out)
      /\ MostToRead <= readLen
  <2>1. CHUNK_SIZE - 1 \in Int /\ Room(out) \in Int /\ readLen \in Int
    BY <1>1
  <2> QED
    BY <2>1, MinOfThree DEF MostToRead
<1> QED
  BY <1>1, <1>2, <1>3

LEMMA CopyKeepsBuffers ==
  ASSUME BufferInv, Copy
  PROVE  BufferInv'
<1> DEFINE n == Min({Len(data), readLen, Room(out)})
           h == [http EXCEPT !.retrieve_len = @ - n]
           buf == out \o Take(data, n)
           left == readLen - n
<1>1. /\ n \in Nat /\ n <= Len(data) /\ n <= readLen /\ n <= Room(out)
  BY MostFacts
<1>2. /\ Len(data) \in Nat /\ Len(out) \in Nat /\ readLen \in Nat
      /\ data \in Seq(Int) /\ out \in Seq(Int) /\ http \in ClientData
      /\ Room(out) = BufLen - 1 - Len(out) /\ http.retrieve_len = readLen
      /\ line' \in Seq(Int) /\ diff' \in Int /\ pc = "copy"
  BY Rooms DEF BufferInv, TokenType, CountType, CopyInv, ClientData, Copy, NoRead
<1> HIDE DEF n
<1>3. /\ h \in ClientData /\ h.retrieve_len = left
      /\ [h EXCEPT !.is_more = FALSE] \in ClientData
  <2>1. left \in Nat
    BY <1>1, <1>2
  <2>2. h = [http EXCEPT !.retrieve_len = left]
    BY <1>2
  <2> HIDE DEF left, h
  <2>3. h \in ClientData /\ h.retrieve_len = left
    BY <1>2, <2>1, <2>2, DataTypes, Zenon
  <2> QED
    BY <2>3, DataTypes
<1>4. buf \in Seq(Int) /\ Len(buf) < BufLen
  <2>1. n \in 0 .. Len(data)
    BY <1>1, <1>2
  <2>2. Take(data, n) \in Seq(Int) /\ Len(Take(data, n)) = n
    BY <1>2, <2>1, TakeFacts
  <2>3. buf \in Seq(Int) /\ Len(buf) = Len(out) + n
    BY <1>2, <2>2, ConcatProperties
  <2> QED
    BY <1>1, <1>2, <2>3, Sizes
<1>5. \/ Return(h, buf)
      \/ Return([h EXCEPT !.is_more = FALSE], buf)
      \/ /\ http' = h /\ out' = buf /\ readLen' = left
         /\ data' = IF Len(data) > readLen THEN Drop(data, readLen) ELSE data
         /\ pc' = IF left > 0 THEN "more" ELSE "tail"
         /\ UNCHANGED got
  BY DEF Copy, n
<1> HIDE DEF h, buf
<1>6. CASE Return(h, buf)
  BY <1>2, <1>3, <1>4, <1>6, ReturnKeeps
<1>7. CASE Return([h EXCEPT !.is_more = FALSE], buf)
  BY <1>2, <1>3, <1>4, <1>7, ReturnKeeps
<1>8. CASE /\ http' = h /\ out' = buf /\ readLen' = left
           /\ data' = IF Len(data) > readLen THEN Drop(data, readLen) ELSE data
           /\ pc' = IF left > 0 THEN "more" ELSE "tail"
           /\ UNCHANGED got
  <2>1. data' \in Seq(Int) /\ Len(data') < CHUNK_SIZE
    BY <1>2, <1>8, DroppedType DEF BufferInv, RoomInv
  <2>2. readLen' \in Nat /\ http' \in ClientData /\ http'.retrieve_len = readLen'
    BY <1>1, <1>2, <1>3, <1>8
  <2> QED
    BY <1>2, <1>4, <1>8, <2>1, <2>2
       DEF BufferInv, PlaceType, TokenType, CountType, RoomInv, CopyInv, ClientData
<1> QED
  BY <1>5, <1>6, <1>7, <1>8

LEMMA MoreKeepsBuffers ==
  ASSUME BufferInv, ReadMore
  PROVE  BufferInv'
<1>1. PICK r \in HalRead(MostToRead) :
        /\ Recv(r)
        /\ IF ~Received(r) \/ late' THEN Fail
           ELSE /\ HandleAfter(r) /\ pc' = "copy" /\ data' = Tokens(r)
                /\ UNCHANGED <<http, out, readLen, got>>
  BY DEF ReadMore
<1>2. MostToRead \in Nat /\ MostToRead <= CHUNK_SIZE - 1
  BY MostFacts
<1>3. /\ line' \in Seq(Int) /\ diff' \in Int /\ Tokens(r) \in Seq(Int)
      /\ Len(Tokens(r)) \in Nat /\ Len(Tokens(r)) <= MostToRead
  BY <1>1, <1>2, RecvType
<1>4. Len(Tokens(r)) < CHUNK_SIZE
  BY <1>2, <1>3, Sizes
<1>5. CASE Fail
  BY <1>3, <1>5, FailKeeps
<1>6. CASE /\ pc' = "copy" /\ data' = Tokens(r)
           /\ UNCHANGED <<http, out, readLen, got>>
  <2>1. pc = "more"
    BY DEF ReadMore
  <2> QED
    BY <1>3, <1>4, <1>6, <2>1
       DEF BufferInv, PlaceType, TokenType, CountType, RoomInv, CopyInv
<1> QED
  BY <1>1, <1>5, <1>6

LEMMA NextChunkKeeps ==
  ASSUME BufferInv, NEW d \in Seq(Int), Len(d) < CHUNK_SIZE, NextChunk(d),
         line' \in Seq(Int), diff' \in Int
  PROVE  BufferInv'
<1>1. CASE Fail
  BY <1>1, FailKeeps
<1>2. CASE /\ data' = Drop(d, 2) /\ pc' = "top"
           /\ UNCHANGED <<http, out, readLen, got>>
  <2>1. data' \in Seq(Int) /\ Len(data') < CHUNK_SIZE
    <3>1. Len(d) \in Nat /\ Drop(d, 2) \in Seq(Int)
          /\ Len(Drop(d, 2)) = IF 2 <= Len(d) THEN Len(d) - 2 ELSE 0
      BY DropFacts, LenProperties
    <3> QED
      BY <1>2, <3>1, Sizes
  <2> QED
    BY <1>2, <2>1
       DEF BufferInv, PlaceType, TokenType, CountType, RoomInv, CopyInv
<1> QED
  BY <1>1, <1>2 DEF NextChunk

LEMMA ChunkEndKeepsBuffers ==
  ASSUME BufferInv, ChunkEnd
  PROVE  BufferInv'
<1>1. /\ CHUNK_SIZE - Len(data) - 1 \in Nat /\ Len(data) \in Nat
      /\ data \in Seq(Int) /\ Len(data) < CHUNK_SIZE
      /\ out \in Seq(Int) /\ Len(out) < BufLen /\ http \in ClientData
  BY Rooms DEF BufferInv, TokenType, RoomInv, CountType, ClientData
<1>2. CASE Len(data) >= 2
  <2>1. NextChunk(data) /\ line' \in Seq(Int) /\ diff' \in Int
    BY <1>2 DEF ChunkEnd, NoRead, BufferInv, TokenType, CountType
  <2> QED
    BY <1>1, <2>1, NextChunkKeeps
<1>3. CASE ~(Len(data) >= 2)
  <2>1. PICK r \in HalRead(CHUNK_SIZE - Len(data) - 1) :
          /\ Recv(r)
          /\ Fail \/ Return(http, out) \/ NextChunk(data \o Tokens(r))
    BY <1>3 DEF ChunkEnd
  <2>2. /\ line' \in Seq(Int) /\ diff' \in Int /\ Tokens(r) \in Seq(Int)
        /\ Len(Tokens(r)) \in Nat /\ Len(Tokens(r)) <= CHUNK_SIZE - Len(data) - 1
    BY <1>1, <2>1, RecvType
  <2>3. data \o Tokens(r) \in Seq(Int) /\ Len(data \o Tokens(r)) < CHUNK_SIZE
    BY <1>1, <2>2, ConcatProperties, Sizes
  <2> QED
    BY <1>1, <2>1, <2>2, <2>3, FailKeeps, ReturnKeeps, NextChunkKeeps
<1> QED
  BY <1>2, <1>3

LEMMA InitBuffers == Init => BufferInv
<1> SUFFICES ASSUME Init
             PROVE  BufferInv
  OBVIOUS
<1>1. /\ pc = "off" /\ http = NoData /\ readLen = 0 /\ diff = 0
      /\ line = <<>> /\ data = <<>> /\ out = <<>> /\ got = <<>>
  BY DEF Init
<1> QED
  BY <1>1, Sizes
     DEF BufferInv, PlaceType, TokenType, CountType, ClientData, RoomInv,
         CopyInv, NoData

LEMMA NextBuffers == BufferInv /\ [Next]_vars => BufferInv'
<1> SUFFICES ASSUME BufferInv, [Next]_vars
             PROVE  BufferInv'
  OBVIOUS
<1>1. CASE StartDownload
  BY <1>1, StartKeepsBuffers
<1>2. CASE Fetch
  BY <1>2, FetchKeepsBuffers
<1>3. CASE ReadResponse
  BY <1>3, ResponseKeepsBuffers
<1>4. CASE ReadHeader
  BY <1>4, HeaderKeepsBuffers
<1>5. CASE ParseStatus \/ ParseHeader
  BY <1>5, ParseKeepsBuffers
<1>6. CASE Plain
  BY <1>6, PlainKeepsBuffers
<1>7. CASE ReadSizeLine \/ ParseSizeLine
  BY <1>7, SizeLineKeepsBuffers
<1>8. CASE Top \/ Restart
  BY <1>8, TopKeepsBuffers
<1>9. CASE Copy
  BY <1>9, CopyKeepsBuffers
<1>10. CASE ReadMore
  BY <1>10, MoreKeepsBuffers
<1>11. CASE ChunkEnd
  BY <1>11, ChunkEndKeepsBuffers
<1>12. CASE UNCHANGED vars
  BY <1>12
     DEF vars, netVars, fetchVars, BufferInv, PlaceType, TokenType, CountType,
         RoomInv, CopyInv
<1> QED
  BY <1>1, <1>2, <1>3, <1>4, <1>5, <1>6, <1>7, <1>8, <1>9, <1>10, <1>11, <1>12
     DEF Next

-----------------------------------------------------------------------------
(***************************************************************************)
(* The body of a file sent with its length.                                *)
(***************************************************************************)

\* The four tokens are told apart by the places they have.
LEMMA TokenValues ==
  ASSUME TokenType, NEW i \in Nat \ {0}
  PROVE  /\ Token(i) = Status => i = 2
         /\ Token(i) = End => i = 3
         /\ i > 3 => Token(i) = Len(got) + i - 3
<1>1. Len(got) \in Nat
  BY LenProperties DEF TokenType
<1> DEFINE g == Len(got)
<1>2. \/ i = 1 /\ Token(i) = -3
      \/ i = 2 /\ Token(i) = -4
      \/ i = 3 /\ Token(i) = -5
      \/ i > 3 /\ Token(i) = g + i - 3
  BY DEF Token, Part, Status, End
<1> HIDE DEF g
<1> QED
  BY <1>1, <1>2 DEF Status, End, g

\* What a read takes off the stream, and what it leaves there.
LEMMA ReadSplits ==
  ASSUME TokenType, NEW k \in Nat, Rest(k), NEW max \in Nat,
         NEW r \in HalRead(max)
  PROVE  /\ r.n \in Nat /\ After(Tokens(r), k) /\ After(Drop(line, r.n), k + r.n)
         /\ Len(Drop(line, r.n)) = FileLen - Len(got) + 3 - (k + r.n)
<1> DEFINE n == r.n
           s == Tokens(r)
           t == Drop(line, r.n)
<1>1. /\ n \in Nat /\ n <= Len(line) /\ Len(line) \in Nat
      /\ Len(s) = n /\ Len(t) = Len(line) - n
      /\ \A i \in 1 .. n : s[i] = line[i]
      /\ \A i \in 1 .. Len(line) - n : t[i] = line[n + i]
  BY ReceiveFacts, LenProperties DEF TokenType
<1>2. /\ \A i \in 1 .. Len(line) : line[i] = Token(k + i)
      /\ Len(line) = FileLen - Len(got) + 3 - k
  BY DEF Rest, After
<1>3. After(s, k)
  <2> HIDE DEF n, s, t
  <2> QED
    BY <1>1, <1>2 DEF After
<1>4. After(t, k + n)
  <2> HIDE DEF n, s, t
  <2> SUFFICES ASSUME NEW i \in 1 .. Len(t)
               PROVE  t[i] = Token((k + n) + i)
    BY DEF After
  <2>1. t[i] = line[n + i] /\ n + i \in 1 .. Len(line)
    BY <1>1
  <2>2. line[n + i] = Token(k + (n + i))
    BY <1>2, <2>1
  <2>3. k + (n + i) = (k + n) + i
    BY <1>1
  <2> QED
    BY <2>1, <2>2, <2>3
<1>5. Len(got) \in Nat /\ FileLen \in Nat
  BY Sizes, LenProperties DEF TokenType
<1>6. Len(t) = FileLen - Len(got) + 3 - (k + n)
  <2> HIDE DEF n, s, t
  <2> QED
    BY <1>1, <1>2, <1>5
<1> QED
  BY <1>1, <1>3, <1>4, <1>6

\* What is let go of has been read.
LEMMA DropSplits ==
  ASSUME NEW s \in Seq(Int), NEW k \in Nat, After(s, k), NEW m \in Nat,
         m <= Len(s)
  PROVE  After(Drop(s, m), k + m) /\ Len(Drop(s, m)) = Len(s) - m
<1> DEFINE t == Drop(s, m)
<1>1. /\ Len(s) \in Nat /\ Len(t) = Len(s) - m
      /\ \A i \in 1 .. Len(s) - m : t[i] = s[m + i]
  BY DropFacts, LenProperties
<1>2. \A i \in 1 .. Len(s) : s[i] = Token(k + i)
  BY DEF After
<1> HIDE DEF t
<1>3. After(t, k + m)
  <2> SUFFICES ASSUME NEW i \in 1 .. Len(t)
               PROVE  t[i] = Token((k + m) + i)
    BY DEF After
  <2>1. t[i] = s[m + i] /\ m + i \in 1 .. Len(s)
    BY <1>1
  <2>2. s[m + i] = Token(k + (m + i)) /\ k + (m + i) = (k + m) + i
    BY <1>2, <2>1
  <2> QED
    BY <2>1, <2>2
<1> QED
  BY <1>1, <1>3 DEF t

\* An error keeps what is in flash.
LEMMA FailStreams ==
  ASSUME StreamInv, Fail, pc # "done"
  PROVE  StreamInv'
BY DEF StreamInv, FlashInv, FetchInv, HeadInv, CopyingInv, LengthInv, Fail

\* The caller writes what it was given after what it has.
LEMMA ReturnWrites ==
  ASSUME BufferInv, FlashInv, pc # "done", NEW h, NEW buf \in Seq(Int),
         Return(h, buf), h.content_len - h.retrieve_len - diff = Len(buf),
         \A i \in 1 .. Len(buf) : buf[i] = Len(got) + i
  PROVE  /\ http' = h /\ out' = buf /\ data' = data
         /\ got' \in Seq(Int) /\ Len(got') = Len(got) + Len(buf)
         /\ FlashInv'
         /\ pc' = IF Len(got') >= FileLen THEN "done" ELSE "fetch"
<1> DEFINE n == h.content_len - h.retrieve_len - diff
           written == [i \in 1 .. n |-> IF i \in DOMAIN buf THEN buf[i] ELSE Junk]
<1>1. /\ got \in Seq(Int) /\ Len(got) \in Nat /\ Len(buf) \in Nat
      /\ DOMAIN buf = 1 .. Len(buf) /\ n = Len(buf) /\ ~(n < 0)
      /\ \A i \in 1 .. Len(got) : got[i] = i
  BY LenProperties DEF BufferInv, TokenType, FlashInv
<1>2. written \in Seq(Int) /\ Len(written) = Len(buf)
  <2> HIDE DEF n
  <2> QED
    BY <1>1, WrittenType
<1>3. \A i \in 1 .. Len(buf) : written[i] = Len(got) + i
  <2> HIDE DEF n
  <2> QED
    BY <1>1
<1>4. /\ http' = h /\ out' = buf /\ data' = data /\ got' = got \o written
      /\ pc' = IF Len(got') >= FileLen THEN "done" ELSE "fetch"
  BY <1>1 DEF Return
<1> HIDE DEF n, written
<1>5. /\ got' \in Seq(Int) /\ Len(got') = Len(got) + Len(buf)
      /\ \A i \in 1 .. Len(got) + Len(buf) :
           got'[i] = IF i <= Len(got) THEN got[i] ELSE written[i - Len(got)]
  BY <1>1, <1>2, <1>4, ConcatProperties
<1>6. \A i \in 1 .. Len(got') : got'[i] = i
  <2> SUFFICES ASSUME NEW i \in 1 .. Len(got) + Len(buf)
               PROVE  got'[i] = i
    BY <1>5
  <2>1. CASE i <= Len(got)
    <3>1. got'[i] = got[i]
      BY <1>5, <2>1
    <3>2. i \in 1 .. Len(got)
      BY <1>1, <2>1
    <3> QED
      BY <1>1, <3>1, <3>2
  <2>2. CASE ~(i <= Len(got))
    <3>1. i - Len(got) \in 1 .. Len(buf)
      BY <1>1, <2>2
    <3>2. written[i - Len(got)] = Len(got) + (i - Len(got))
      BY <1>3, <3>1
    <3>3. got'[i] = written[i - Len(got)]
      BY <1>5, <2>2
    <3> QED
      BY <1>1, <3>2, <3>3
  <2> QED
    BY <2>1, <2>2
<1>7. FlashInv'
  BY <1>1, <1>4, <1>5, <1>6, Sizes DEF FlashInv
<1> QED
  BY <1>4, <1>5, <1>7

\* After that only the next fetch matters.
LEMMA ReturnStreams ==
  ASSUME FlashInv', FetchInv', http'.is_chunked = FALSE, pc' \in {"done", "fetch"}
  PROVE  StreamInv'
BY DEF StreamInv, HeadInv, CopyingInv, LengthInv

LEMMA StartStreams ==
  ASSUME BufferInv, StreamInv, Plainly, StartDownload
  PROVE  StreamInv'
<1>1. /\ got' = Take(got, Resume) /\ http' = NoData
      /\ pc' \in {"failed", "fetch"} /\ line' \in {<<>>, Answer(Resume)}
      /\ server' = server
  BY DEF StartDownload, envVars
<1>2. /\ got \in Seq(Int) /\ Len(got) < FileLen /\ Len(got) \in Nat
      /\ \A i \in 1 .. Len(got) : got[i] = i
  BY LenProperties DEF BufferInv, TokenType, StreamInv, FlashInv, StartDownload
<1>3. /\ Resume \in Nat /\ Resume <= Len(got) /\ Resume < FileLen
      /\ got' \in Seq(Int) /\ Len(got') = Resume
      /\ \A i \in 1 .. Resume : got'[i] = got[i]
  <2>1. Resume \in 0 .. Len(got)
    BY <1>2, ResumeFacts
  <2>2. /\ got' \in Seq(Int) /\ Len(got') = Resume
        /\ \A i \in 1 .. Resume : got'[i] = got[i]
    BY <1>1, <1>2, <2>1, TakeFacts
  <2> QED
    BY <1>2, <2>1, <2>2, Sizes
<1>4. FlashInv'
  BY <1>2, <1>3 DEF FlashInv
<1>5. CASE line' = <<>>
  BY <1>1, <1>4, <1>5
     DEF StreamInv, FetchInv, Unread, NoData, HeadInv, CopyingInv, LengthInv
<1>6. CASE line' = Answer(Resume)
  <2>1. /\ Len(line') = FileLen - Resume + 3
        /\ line'[1] = Part /\ line'[2] = Status /\ line'[3] = End
        /\ \A i \in 1 .. FileLen - Resume : line'[3 + i] = Resume + i
    BY <1>3, <1>6, AnswerFacts
  <2>2. ASSUME NEW i \in 1 .. Len(line')
        PROVE  line'[i] = Token(0 + i)'
    <3>1. CASE i \in {1, 2, 3}
      BY <2>1, <3>1 DEF Token
    <3>2. CASE i \notin {1, 2, 3}
      <4>1. i - 3 \in 1 .. FileLen - Resume /\ 3 + (i - 3) = i
        BY <1>3, <2>1, <3>2, Sizes
      <4>2. line'[i] = Resume + (i - 3)
        BY <2>1, <4>1
      <4>3. Token(0 + i)' = Resume + i - 3
        BY <1>3, <3>2 DEF Token
      <4> QED
        BY <1>3, <4>2, <4>3
    <3> QED
      BY <3>1, <3>2
  <2>3. Rest(0)'
    <3>1. Len(line') = FileLen - Len(got') + 3 - 0
      BY <1>3, <2>1, Sizes
    <3> QED
      BY <2>2, <3>1 DEF Rest, After
  <2> QED
    BY <1>1, <1>4, <2>3
       DEF StreamInv, FetchInv, Unread, NoData, HeadInv, CopyingInv, LengthInv
<1> QED
  BY <1>1, <1>5, <1>6

LEMMA RestartStreams ==
  ASSUME StreamInv, Restart
  PROVE  StreamInv'
BY DEF StreamInv, FlashInv, FetchInv, HeadInv, CopyingInv, LengthInv, Restart,
       fetchVars

LEMMA FetchStreams ==
  ASSUME BufferInv, StreamInv, Fetch
  PROVE  StreamInv'
<1>1. /\ pc = "fetch" /\ got' = got /\ line' = line
      /\ diff' = http.content_len - http.retrieve_len
      /\ http \in ClientData /\ Len(got) \in Nat /\ Len(got) < FileLen
      /\ http.is_chunked = FALSE
      /\ \A i \in 1 .. Len(got) : got[i] = i
  BY LenProperties
     DEF Fetch, netVars, BufferInv, TokenType, CountType, ClientData, StreamInv,
         FlashInv, LengthInv
<1>2. CASE handle = 0
  <2>1. pc' = "failed" /\ http' = http
    BY <1>2 DEF Fetch
  <2> QED
    BY <1>1, <2>1
       DEF StreamInv, FlashInv, FetchInv, HeadInv, CopyingInv, LengthInv
<1>3. CASE handle # 0
  <2>1. /\ out' = <<>> /\ data' = <<>>
        /\ http' = [http EXCEPT !.is_more = TRUE]
        /\ pc' = IF http.is_more THEN Entry(http) ELSE "head"
    BY <1>3 DEF Fetch
  <2>2. /\ http'.is_more = TRUE /\ http'.is_chunked = FALSE
        /\ http'.content_len = http.content_len
        /\ http'.retrieve_len = http.retrieve_len
    BY <1>1, <2>1 DEF ClientData
  <2>4. FlashInv' /\ LengthInv'
    <3>1. pc' \in {"top", "head"}
      <4>1. http.content_len # -1
        BY <1>1 DEF StreamInv, FetchInv, Unread, Read
      <4> QED
        BY <2>1, <4>1 DEF Entry
    <3> QED
      BY <1>1, <2>2, <3>1 DEF FlashInv, LengthInv
  <2>5. CASE Unread
    <3>1. pc' \in {"top", "head"} /\ Begun' /\ Unread' /\ data' = <<>> /\ out' = <<>>
      <4>1. diff' = 0
        BY <1>1, <2>5 DEF Unread
      <4>2. pc' \in {"top", "head"}
        BY <2>1, <2>5 DEF Unread, Entry
      <4>3. Rest(0) => Rest(0)'
        BY <1>1 DEF Rest, After, Token
      <4> QED
        BY <1>1, <2>1, <2>2, <2>5, <4>1, <4>2, <4>3 DEF Unread, Begun
    <3> QED
      BY <2>4, <3>1 DEF StreamInv, FetchInv, HeadInv, CopyingInv
  <2>6. CASE Read(0) /\ Rest(3)
    <3>1. pc' = "top"
      BY <2>1, <2>6 DEF Read, Entry
    <3>2. Len(out') = 0 /\ Len(data') = 0
      BY <2>1
    <3>3. Read(0)' /\ Read(Len(out))'
      BY <1>1, <2>2, <2>6, <3>2 DEF Read
    <3>4. Counted' /\ Copied'
      BY <1>1, <2>2, <3>2 DEF Counted, Copied, ClientData
    <3>5. Rest(3)'
      BY <1>1, <2>6 DEF Rest, After, Token
    <3>6. (After(data, 3 + Len(out)))' /\ (Rest(3 + Len(out) + Len(data)))'
      BY <3>2, <3>5 DEF After
    <3>7. (Len(data) <= Room(out))'
      BY <3>2, Sizes DEF Room
    <3> QED
      BY <2>1, <2>4, <3>1, <3>3, <3>4, <3>6, <3>7
         DEF StreamInv, FetchInv, HeadInv, CopyingInv
  <2> QED
    BY <1>1, <2>5, <2>6 DEF StreamInv, FetchInv
<1> QED
  BY <1>2, <1>3

LEMMA ResponseStreams ==
  ASSUME BufferInv, StreamInv, ReadResponse
  PROVE  StreamInv'
<1> DEFINE max == CHUNK_SIZE - 1
<1>1. PICK r \in HalRead(max) :
        /\ Recv(r)
        /\ IF ~Received(r) THEN Fail
           ELSE IF r.n = 0 THEN HandleAfter(r) /\ Return(http, out)
           ELSE /\ HandleAfter(r) /\ pc' = "parse" /\ data' = Tokens(r)
                /\ UNCHANGED <<http, out, readLen, got>>
  BY DEF ReadResponse
<1>2. /\ pc = "head" /\ Begun /\ Unread /\ TokenType /\ max \in Nat
      /\ line' = Drop(line, r.n) /\ diff' = diff /\ FlashInv
      /\ http \in ClientData /\ http.is_chunked = FALSE
  BY <1>1, Sizes
     DEF ReadResponse, Recv, StreamInv, HeadInv, BufferInv, CountType, LengthInv,
         ClientData
<1> HIDE DEF max
<1>3. CASE Fail
  BY <1>2, <1>3, FailStreams
<1>4. ASSUME r.n = 0, Return(http, out)
      PROVE  StreamInv'
  <2>1. /\ out = <<>> /\ Len(out) = 0 /\ out \in Seq(Int)
        /\ http.content_len - http.retrieve_len - diff = Len(out)
        /\ \A i \in 1 .. Len(out) : out[i] = Len(got) + i
    BY <1>2 DEF Begun, Unread
  <2>2. /\ http' = http /\ got' \in Seq(Int) /\ Len(got') = Len(got) + 0
        /\ FlashInv' /\ pc' \in {"done", "fetch"}
    BY <1>2, <1>4, <2>1, ReturnWrites
  <2>3. Len(got') = Len(got)
    BY <1>2, <2>2, LenProperties DEF TokenType
  <2>4. line = <<>> => line' = <<>>
    <3>1. Len(line') = Len(line) - 0 /\ line' \in Seq(Int)
      BY <1>1, <1>2, <1>4, ReceiveFacts
    <3> QED
      BY <3>1, EmptySeq
  <2>5. Rest(0) => Rest(0)'
    <3> SUFFICES ASSUME Rest(0)
                 PROVE  Rest(0)'
      OBVIOUS
    <3>1. After(line', 0 + 0) /\ Len(line') = FileLen - Len(got) + 3 - (0 + 0)
      BY <1>1, <1>2, <1>4, ReadSplits
    <3>2. \A i \in 1 .. Len(line') : line'[i] = Token(0 + i)'
      BY <2>3, <3>1 DEF After, Token
    <3> QED
      BY <2>3, <3>1, <3>2 DEF Rest, After
  <2>6. Unread'
    BY <1>2, <2>2, <2>4, <2>5 DEF Unread
  <2>7. FetchInv' /\ http'.is_chunked = FALSE
    BY <1>2, <2>2, <2>6 DEF FetchInv
  <2> QED
    BY <2>2, <2>7, ReturnStreams
<1>5. ASSUME r.n # 0, pc' = "parse", data' = Tokens(r),
             UNCHANGED <<http, out, readLen, got>>
      PROVE  StreamInv'
  <2>1. /\ Len(data') = r.n /\ r.n \in 0 .. Len(line) /\ line \in Seq(Int)
    BY <1>1, <1>2, <1>5, ReceiveFacts DEF TokenType
  <2>2. Rest(0) /\ data' # <<>>
    BY <1>2, <1>5, <2>1 DEF Unread
  <2>3. /\ r.n \in Nat /\ After(data', 0) /\ After(line', 0 + r.n)
        /\ Len(line') = FileLen - Len(got) + 3 - (0 + r.n)
    BY <1>1, <1>2, <1>5, <2>2, ReadSplits
  <2>4. After(data, 0)' /\ Rest(Len(data))'
    BY <1>5, <2>1, <2>3 DEF Rest, After, Token
  <2>5. Begun' /\ FlashInv' /\ LengthInv'
    BY <1>2, <1>5 DEF Begun, FlashInv, LengthInv
  <2> QED
    BY <1>5, <2>2, <2>4, <2>5 DEF StreamInv, FetchInv, HeadInv, CopyingInv
<1> QED
  BY <1>1, <1>3, <1>4, <1>5

LEMMA StatusStreams ==
  ASSUME BufferInv, StreamInv, ParseStatus
  PROVE  StreamInv'
<1>1. /\ pc = "parse" /\ Begun /\ data # <<>> /\ After(data, 0)
      /\ Rest(Len(data)) /\ TokenType /\ http \in ClientData /\ FlashInv
      /\ Len(data) \in Nat /\ line' = line /\ diff' = diff
      /\ data \in Seq(Int) /\ Len(got) \in Nat
  BY LenProperties
     DEF ParseStatus, StreamInv, HeadInv, BufferInv, TokenType, CountType,
         ClientData, NoRead
<1>2. CASE Fail
  BY <1>1, <1>2, FailStreams
<1>3. ASSUME Status \in ToSet(data), data' = Drop(data, 2),
             http' = [http EXCEPT !.content_len = -1, !.is_chunked = FALSE],
             pc' = (IF End \in ToSet(data) THEN "frame" ELSE "header"),
             UNCHANGED <<out, readLen, got>>
      PROVE  StreamInv'
  <2>1. \A i \in 1 .. Len(data) : data[i] = Token(i)
    BY <1>1 DEF After
  <2>2. Len(data) >= 2
    <3>1. PICK i \in 1 .. Len(data) : data[i] = Status
      BY <1>1, <1>3 DEF ToSet
    <3>2. i = 2
      BY <1>1, <2>1, <3>1, TokenValues
    <3> QED
      BY <1>1, <3>1, <3>2
  <2>3. End \in ToSet(data) <=> Len(data) >= 3
    <3>1. ASSUME End \in ToSet(data)
          PROVE  Len(data) >= 3
      <4>1. PICK i \in 1 .. Len(data) : data[i] = End
        BY <1>1, <3>1 DEF ToSet
      <4>2. i = 3
        BY <1>1, <2>1, <4>1, TokenValues
      <4> QED
        BY <1>1, <4>1, <4>2
    <3>2. ASSUME Len(data) >= 3
          PROVE  End \in ToSet(data)
      <4>1. 3 \in 1 .. Len(data) /\ data[3] = Token(3)
        BY <1>1, <2>1, <3>2
      <4>2. Token(3) = End
        BY DEF Token
      <4> QED
        BY <1>1, <4>1, <4>2 DEF ToSet
    <3> QED
      BY <3>1, <3>2
  <2>4. After(data', 2) /\ Len(data') = Len(data) - 2 /\ data' \in Seq(Int)
    <3>1. After(Drop(data, 2), 0 + 2) /\ Len(Drop(data, 2)) = Len(data) - 2
      BY <1>1, <2>2, DropSplits
    <3> QED
      BY <1>1, <1>3, <3>1, DropFacts
  <2>6. Begun' /\ FlashInv' /\ LengthInv'
    <3>1. http'.is_more = TRUE /\ http'.is_chunked = FALSE
      BY <1>1, <1>3 DEF Begun, ClientData
    <3> QED
      BY <1>1, <1>3, <3>1 DEF Begun, FlashInv, LengthInv
  <2>7. \A k \in Nat : Rest(k) => Rest(k)'
    BY <1>1, <1>3 DEF Rest, After, Token
  <2>8. CASE Len(data) >= 3
    <3>1. pc' = "frame" /\ data' # <<>>
      BY <1>1, <1>3, <2>3, <2>4, <2>8
    <3>2. After(data, 2)' /\ Rest(2 + Len(data))'
      <4>1. After(data, 2)'
        BY <1>3, <2>4 DEF After, Token
      <4>2. 2 + Len(data') = Len(data)
        BY <1>1, <2>4
      <4>3. ASSUME NEW k \in Nat, k = 2 + Len(data'), Rest(k)
            PROVE  Rest(2 + Len(data))'
        BY <1>1, <1>3, <4>3 DEF Rest, After, Token
      <4> QED
        BY <1>1, <4>1, <4>2, <4>3
    <3> QED
      BY <2>6, <3>1, <3>2 DEF StreamInv, FetchInv, HeadInv, CopyingInv
  <2>9. CASE Len(data) < 3
    <3>1. pc' = "header" /\ Len(data) = 2
      <4>1. ~(Len(data) >= 3) /\ Len(data) = 2
        <5>1. Len(data) \in Nat
          BY <1>1
        <5> QED
          BY <2>2, <2>9, <5>1
      <4> QED
        BY <1>3, <2>3, <4>1
    <3>2. data' = <<>>
      BY <2>4, <3>1, EmptySeq
    <3>3. Rest(2)'
      BY <1>1, <2>7, <3>1
    <3> QED
      BY <2>6, <3>1, <3>2, <3>3 DEF StreamInv, FetchInv, HeadInv, CopyingInv
  <2> QED
    BY <1>1, <2>8, <2>9
<1> QED
  BY <1>2, <1>3 DEF ParseStatus

LEMMA HeaderStreams ==
  ASSUME BufferInv, StreamInv, ReadHeader
  PROVE  StreamInv'
<1>1. /\ pc = "header" /\ Begun /\ data = <<>> /\ Rest(2) /\ TokenType
      /\ FlashInv /\ LengthInv /\ CHUNK_SIZE - Len(data) - 1 \in Nat
  BY Rooms DEF ReadHeader, StreamInv, HeadInv, BufferInv
<1>2. PICK r \in HalRead(CHUNK_SIZE - Len(data) - 1) :
        /\ Recv(r)
        /\ IF ~Received(r) \/ End \notin ToSet(Tokens(r)) THEN Fail
           ELSE /\ HandleAfter(r) /\ pc' = "frame" /\ data' = data \o Tokens(r)
                /\ UNCHANGED <<http, out, readLen, got>>
  BY DEF ReadHeader
<1>3. CASE Fail
  BY <1>1, <1>3, FailStreams
<1>4. ASSUME End \in ToSet(Tokens(r)), pc' = "frame", data' = data \o Tokens(r),
             UNCHANGED <<http, out, readLen, got>>
      PROVE  StreamInv'
  <2>1. /\ line' = Drop(line, r.n) /\ diff' = diff
    BY <1>2 DEF Recv
  <2>2. Tokens(r) \in Seq(Int) /\ Len(Tokens(r)) = r.n
    BY <1>1, <1>2, ReceiveFacts
  <2>3. data' = Tokens(r)
    BY <1>1, <1>4, <2>2, ConcatEmptySeq
  <2>4. data' # <<>>
    BY <1>4, <2>3 DEF ToSet
  <2>5. /\ r.n \in Nat /\ After(data', 2) /\ After(line', 2 + r.n)
        /\ Len(line') = FileLen - Len(got) + 3 - (2 + r.n)
    BY <1>1, <1>2, <2>1, <2>3, ReadSplits
  <2>6. After(data, 2)' /\ Rest(2 + Len(data))'
    BY <1>4, <2>2, <2>3, <2>5 DEF Rest, After, Token
  <2>7. Begun' /\ FlashInv' /\ LengthInv'
    BY <1>1, <1>4, <2>1 DEF Begun, FlashInv, LengthInv
  <2> QED
    BY <1>4, <2>4, <2>6, <2>7 DEF StreamInv, FetchInv, HeadInv, CopyingInv
<1> QED
  BY <1>2, <1>3, <1>4

LEMMA FramedStreams ==
  ASSUME BufferInv, StreamInv, Plainly, ParseHeader
  PROVE  StreamInv'
<1>1. /\ pc = "frame" /\ Begun /\ data # <<>> /\ After(data, 2)
      /\ Rest(2 + Len(data)) /\ FlashInv /\ LengthInv
      /\ Len(data) \in Nat /\ data \in Seq(Int) /\ Len(data) < CHUNK_SIZE
      /\ Len(got) \in Nat /\ Len(got) < FileLen /\ http \in ClientData
      /\ line' = line /\ diff' = diff
  BY LenProperties
     DEF ParseHeader, StreamInv, HeadInv, BufferInv, TokenType, CountType,
         RoomInv, ClientData, NoRead, FlashInv
<1>2. /\ http' = Framed("length") /\ data' = Drop(data, 1)
      /\ pc' = Entry(http') /\ UNCHANGED <<handle, out, readLen, got>>
  BY DEF ParseHeader, Plainly
<1>3. /\ http'.content_len = FileLen - Len(got)
      /\ http'.retrieve_len = FileLen - Len(got)
      /\ http'.is_more = TRUE /\ http'.is_chunked = FALSE
  <2> DEFINE n == Len(BodyFrom(Len(got)))
  <2>1. n = FileLen - Len(got)
    BY <1>1, BodyFacts DEF Plainly
  <2>2. http' = [http EXCEPT !.content_len = n, !.retrieve_len = n]
    BY <1>2 DEF Framed
  <2> HIDE DEF n
  <2> QED
    BY <1>1, <2>1, <2>2 DEF ClientData, Begun, LengthInv
<1>4. pc' = "top"
  BY <1>1, <1>2, <1>3, Sizes DEF Entry
<1>5. /\ out' = <<>> /\ Len(out') = 0 /\ diff' = 0
  BY <1>1, <1>2 DEF Begun
<1>6. /\ After(data', 3) /\ Len(data') = Len(data) - 1 /\ Len(data') \in Nat
  <2>1. Len(data) >= 1
    BY <1>1, EmptySeq
  <2>2. After(Drop(data, 1), 2 + 1) /\ Len(Drop(data, 1)) = Len(data) - 1
    BY <1>1, <2>1, DropSplits
  <2> QED
    BY <1>1, <1>2, <2>1, <2>2
<1>7. Read(Len(out))'
  BY <1>1, <1>2, <1>3, <1>5, Sizes DEF Read
<1>8. Counted' /\ Copied'
  BY <1>1, <1>3, <1>5, Sizes DEF Counted, Copied
<1>9. (Len(data) <= Room(out))'
  BY <1>1, <1>5, <1>6, Sizes DEF Room
<1>10. (After(data, 3 + Len(out)))'
  BY <1>2, <1>5, <1>6 DEF After, Token
<1>11. (Rest(3 + Len(out) + Len(data)))'
  <2>1. ASSUME NEW k \in Nat, k = 3 + Len(out') + Len(data'), Rest(k)
        PROVE  Rest(3 + Len(out) + Len(data))'
    <3>1. Rest(k)'
      BY <1>1, <1>2, <2>1 DEF Rest, After, Token
    <3> QED
      BY <2>1, <3>1
  <2>2. 2 + Len(data) \in Nat /\ 2 + Len(data) = 3 + Len(out') + Len(data')
    BY <1>1, <1>5, <1>6
  <2> QED
    BY <1>1, <2>1, <2>2
<1>12. FlashInv' /\ LengthInv'
  BY <1>1, <1>2, <1>3, <1>4 DEF FlashInv, LengthInv
<1> QED
  BY <1>4, <1>5, <1>7, <1>8, <1>9, <1>10, <1>11, <1>12
     DEF StreamInv, FetchInv, HeadInv, CopyingInv

\* What stays as it is while the copying goes on.
LEMMA TopStreams ==
  ASSUME StreamInv, Top
  PROVE  StreamInv'
<1>1. /\ pc = "top" /\ pc' = "copy"
      /\ UNCHANGED <<http, data, out, got, line, diff>>
  BY DEF Top, NoRead
<1>2. FlashInv' /\ LengthInv'
  BY <1>1 DEF StreamInv, FlashInv, LengthInv
<1>3. CASE Begun /\ Unread /\ data = <<>>
  <2>1. (Begun /\ Unread /\ data = <<>>)'
    BY <1>1, <1>3 DEF Begun, Unread, Rest, After, Token
  <2> QED
    BY <1>1, <1>2, <2>1 DEF StreamInv, FetchInv, HeadInv, CopyingInv
<1>4. CASE /\ Read(Len(out)) /\ Counted /\ Copied /\ Len(data) <= Room(out)
           /\ After(data, 3 + Len(out)) /\ Rest(3 + Len(out) + Len(data))
  <2>1. (/\ Read(Len(out)) /\ Counted /\ Copied /\ Len(data) <= Room(out)
         /\ After(data, 3 + Len(out)) /\ Rest(3 + Len(out) + Len(data)))'
    BY <1>1, <1>4 DEF Read, Counted, Copied, Room, Rest, After, Token
  <2> QED
    BY <1>1, <1>2, <2>1 DEF StreamInv, FetchInv, HeadInv, CopyingInv
<1> QED
  BY <1>1, <1>3, <1>4 DEF StreamInv, CopyingInv

LEMMA MoreStreams ==
  ASSUME BufferInv, StreamInv, ReadMore
  PROVE  StreamInv'
<1>1. /\ pc = "more" /\ Read(Len(out)) /\ Counted /\ Copied
      /\ Rest(3 + Len(out)) /\ FlashInv /\ LengthInv /\ TokenType
      /\ MostToRead \in Nat /\ MostToRead <= Room(out)
      /\ Len(out) \in Nat
  BY MostFacts, Rooms DEF ReadMore, StreamInv, CopyingInv, BufferInv
<1>2. PICK r \in HalRead(MostToRead) :
        /\ Recv(r)
        /\ IF ~Received(r) \/ late' THEN Fail
           ELSE /\ HandleAfter(r) /\ pc' = "copy" /\ data' = Tokens(r)
                /\ UNCHANGED <<http, out, readLen, got>>
  BY DEF ReadMore
<1>3. CASE Fail
  BY <1>1, <1>3, FailStreams
<1>4. ASSUME pc' = "copy", data' = Tokens(r),
             UNCHANGED <<http, out, readLen, got>>
      PROVE  StreamInv'
  <2>1. line' = Drop(line, r.n) /\ diff' = diff
    BY <1>2 DEF Recv
  <2>2. Len(data') = r.n /\ r.n <= MostToRead /\ r.n \in Nat
    BY <1>1, <1>2, <1>4, ReceiveFacts, ReadSplits
  <2>3. /\ After(data', 3 + Len(out)) /\ After(line', (3 + Len(out)) + r.n)
        /\ Len(line') = FileLen - Len(got) + 3 - ((3 + Len(out)) + r.n)
    <3> DEFINE k == 3 + Len(out)
    <3>1. k \in Nat /\ Rest(k)
      BY <1>1
    <3> HIDE DEF k
    <3>2. /\ After(Tokens(r), k) /\ After(Drop(line, r.n), k + r.n)
          /\ Len(Drop(line, r.n)) = FileLen - Len(got) + 3 - (k + r.n)
      BY <1>1, <1>2, <3>1, ReadSplits
    <3> QED
      BY <1>4, <2>1, <3>2 DEF k
  <2>4. (Read(Len(out)) /\ Counted /\ Copied)'
    BY <1>1, <1>4, <2>1 DEF Read, Counted, Copied
  <2>5. (Len(data) <= Room(out))'
    <3>1. Room(out)' = Room(out) /\ Room(out) \in Nat
      BY <1>4, Rooms DEF Room
    <3> QED
      BY <1>1, <2>2, <3>1
  <2>6. (After(data, 3 + Len(out)))' /\ (Rest(3 + Len(out) + Len(data)))'
    BY <1>4, <2>2, <2>3 DEF Rest, After, Token
  <2>7. FlashInv' /\ LengthInv'
    BY <1>1, <1>4 DEF FlashInv, LengthInv
  <2> QED
    BY <1>4, <2>4, <2>5, <2>6, <2>7 DEF StreamInv, FetchInv, HeadInv, CopyingInv
<1> QED
  BY <1>2, <1>3, <1>4

\* Nothing is copied of an answer that has not been read.
LEMMA CopyNothing ==
  ASSUME BufferInv, StreamInv, Copy, Begun, Unread, data = <<>>
  PROVE  StreamInv'
<1> DEFINE n == Min({Len(data), readLen, Room(out)})
           h == [http EXCEPT !.retrieve_len = @ - n]
           buf == out \o Take(data, n)
           last == [h EXCEPT !.is_more = FALSE]
<1>1. /\ pc = "copy" /\ FlashInv /\ http \in ClientData /\ TokenType
      /\ http.content_len = 0 /\ http.retrieve_len = 0 /\ readLen = 0
      /\ diff = 0 /\ out = <<>> /\ Len(out) = 0 /\ Len(data) = 0
      /\ http.is_chunked = FALSE /\ line' = line
      /\ line = <<>> \/ Rest(0)
  BY DEF Copy, NoRead, StreamInv, LengthInv, Begun, Unread, BufferInv, CopyInv,
         CountType, ClientData
<1>2. n = 0
  BY <1>1, MostFacts
<1>3. buf = <<>>
  <2>1. Take(data, 0) \in Seq(Int) /\ Len(Take(data, 0)) = 0
    <3>1. 0 \in 0 .. Len(data) /\ data \in Seq(Int)
      BY <1>1 DEF TokenType
    <3> QED
      BY <3>1, TakeFacts, Zenon
  <2>2. Take(data, 0) = <<>>
    BY <2>1, EmptySeq
  <2> QED
    BY <1>1, <1>2, <2>2, ConcatEmptySeq
<1>4. /\ h.content_len = 0 /\ h.retrieve_len = 0 /\ h.is_chunked = FALSE
      /\ last.content_len = 0 /\ last.retrieve_len = 0 /\ last.is_chunked = FALSE
  BY <1>1, <1>2 DEF ClientData
<1>5. Room(out) # 0
  BY <1>1, Sizes DEF Room
<1>6. Return(last, buf)
  BY <1>1, <1>2, <1>4, <1>5 DEF Copy
<1> HIDE DEF last, buf
<1>7. /\ http' = last /\ Len(got') = Len(got) + 0 /\ FlashInv'
      /\ pc' \in {"done", "fetch"}
  <2>1. /\ buf \in Seq(Int) /\ Len(buf) = 0
        /\ last.content_len - last.retrieve_len - diff = Len(buf)
        /\ \A i \in 1 .. Len(buf) : buf[i] = Len(got) + i
    BY <1>1, <1>3, <1>4
  <2> QED
    BY <1>1, <1>6, <2>1, ReturnWrites
<1>8. Len(got') = Len(got)
  BY <1>1, <1>7, LenProperties DEF TokenType
<1>9. Unread'
  BY <1>1, <1>4, <1>7, <1>8 DEF Unread, Rest, After, Token
<1> QED
  BY <1>4, <1>7, <1>9, ReturnStreams DEF FetchInv

\* The tokens that are copied are the next of the file.
LEMMA CopySplits ==
  ASSUME TokenType, Copied, NEW n \in 0 .. Len(data), After(data, 3 + Len(out))
  PROVE  LET buf == out \o Take(data, n)
         IN  /\ buf \in Seq(Int) /\ Len(buf) = Len(out) + n
             /\ \A i \in 1 .. Len(buf) : buf[i] = Len(got) + i
<1> DEFINE s == Take(data, n)
           buf == out \o s
<1>1. /\ Len(out) \in Nat /\ Len(data) \in Nat /\ Len(got) \in Nat
      /\ out \in Seq(Int) /\ data \in Seq(Int) /\ n \in Nat /\ n <= Len(data)
  BY LenProperties DEF TokenType
<1>2. s \in Seq(Int) /\ Len(s) = n /\ \A i \in 1 .. n : s[i] = data[i]
  BY <1>1, TakeFacts
<1>3. \A i \in 1 .. n : s[i] = Len(got) + (Len(out) + i)
  <2> HIDE DEF s
  <2> SUFFICES ASSUME NEW i \in 1 .. n
               PROVE  s[i] = Len(got) + (Len(out) + i)
    OBVIOUS
  <2>1. s[i] = data[i] /\ i \in 1 .. Len(data)
    BY <1>1, <1>2
  <2>2. data[i] = Token((3 + Len(out)) + i)
    BY <2>1 DEF After
  <2>3. Token((3 + Len(out)) + i) = Len(got) + ((3 + Len(out)) + i) - 3
    <3> DEFINE k == (3 + Len(out)) + i
    <3>1. k \in Nat \ {0} /\ k > 3
      BY <1>1
    <3> HIDE DEF k
    <3>2. Token(k) = Len(got) + k - 3
      BY <3>1, TokenValues
    <3> QED
      BY <3>2 DEF k
  <2> QED
    BY <1>1, <2>1, <2>2, <2>3
<1> HIDE DEF s
<1>4. /\ buf \in Seq(Int) /\ Len(buf) = Len(out) + n
      /\ \A i \in 1 .. Len(out) + n :
           buf[i] = IF i <= Len(out) THEN out[i] ELSE s[i - Len(out)]
  BY <1>1, <1>2, ConcatProperties
<1>5. ASSUME NEW i \in 1 .. Len(out) + n
      PROVE  buf[i] = Len(got) + i
  <2> HIDE DEF buf
  <2>1. CASE i <= Len(out)
    <3>1. i \in 1 .. Len(out)
      BY <1>1, <2>1
    <3>2. buf[i] = out[i]
      BY <1>4, <2>1
    <3> QED
      BY <3>1, <3>2 DEF Copied
  <2>2. CASE ~(i <= Len(out))
    <3>1. i - Len(out) \in 1 .. n
      BY <1>1, <2>2
    <3>2. buf[i] = s[i - Len(out)]
      BY <1>4, <2>2
    <3>3. s[i - Len(out)] = Len(got) + (Len(out) + (i - Len(out)))
      BY <1>3, <3>1
    <3> QED
      BY <1>1, <3>2, <3>3
  <2> QED
    BY <2>1, <2>2
<1> QED
  BY <1>4, <1>5 DEF s

LEMMA CopyBody ==
  ASSUME BufferInv, StreamInv, Copy, Read(Len(out)), Counted, Copied,
         Len(data) <= Room(out), After(data, 3 + Len(out)),
         Rest(3 + Len(out) + Len(data))
  PROVE  StreamInv'
<1> DEFINE n == Min({Len(data), readLen, Room(out)})
           h == [http EXCEPT !.retrieve_len = @ - n]
           buf == out \o Take(data, n)
           left == readLen - n
           last == [h EXCEPT !.is_more = FALSE]
<1>1. /\ pc = "copy" /\ FlashInv /\ http \in ClientData /\ TokenType
      /\ http.retrieve_len = readLen /\ readLen \in Nat
      /\ http.is_chunked = FALSE /\ http.is_more = TRUE
      /\ line' = line /\ diff' = diff
      /\ Len(data) \in Nat /\ Len(out) \in Nat /\ Len(got) \in Nat
      /\ Room(out) \in Nat
  BY Rooms, LenProperties
     DEF Copy, NoRead, StreamInv, LengthInv, BufferInv, CopyInv, CountType,
         ClientData, TokenType, Read
<1>2. /\ n \in Nat /\ n <= Len(data) /\ n <= readLen /\ n <= Room(out)
      /\ n \in {Len(data), readLen, Room(out)}
  <2>1. Len(data) \in Int /\ readLen \in Int /\ Room(out) \in Int
    BY <1>1
  <2>2. n \in {Len(data), readLen, Room(out)}
    BY <2>1, MinOfThree, Zenon
  <2> QED
    BY <2>2, MostFacts
<1>3. /\ buf \in Seq(Int) /\ Len(buf) = Len(out) + n
      /\ \A i \in 1 .. Len(buf) : buf[i] = Len(got) + i
  <2>1. n \in 0 .. Len(data)
    BY <1>1, <1>2
  <2> HIDE DEF n
  <2> QED
    BY <1>1, <2>1, CopySplits
<1>4. \/ n = Room(out) /\ Return(h, buf)
      \/ left = 0 /\ Return(last, buf)
      \/ /\ n # Room(out) /\ ~(left = 0)
         /\ http' = h /\ out' = buf /\ readLen' = left
         /\ pc' = IF left > 0 THEN "more" ELSE "tail"
         /\ UNCHANGED got
  <2>1. h.is_chunked = FALSE
    BY <1>1 DEF ClientData
  <2> QED
    BY <2>1 DEF Copy
<1> HIDE DEF n
<1>5. /\ h.retrieve_len = left /\ h.is_chunked = FALSE /\ h.is_more = TRUE
      /\ h.content_len = http.content_len
      /\ last.retrieve_len = left /\ last.is_chunked = FALSE
      /\ last.content_len = http.content_len
  BY <1>1 DEF ClientData
<1> HIDE DEF h, buf, last
<1>6. left \in Nat /\ left = FileLen - Len(got) - Len(buf)
  <2>1. readLen = FileLen - Len(got) - Len(out)
    BY <1>1 DEF Read
  <2> QED
    BY <1>1, <1>2, <1>3, <2>1, Sizes
<1>7. /\ http.content_len > 0 /\ http.content_len \in Int /\ diff \in Int
      /\ http.content_len - left - diff = Len(buf)
  <2> DEFINE c == http.content_len
             o == Len(out)
  <2>1. c \in Int /\ diff \in Int /\ c > 0
    BY DEF BufferInv, CountType, ClientData, Read
  <2>2. c - readLen - diff = o
    BY <1>1 DEF Counted
  <2>3. n \in Int /\ readLen \in Int /\ o \in Int /\ Len(buf) = o + n
    BY <1>1, <1>2, <1>3
  <2> HIDE DEF c, o
  <2>4. c - left - diff = o + n
    BY <2>1, <2>2, <2>3
  <2> QED
    BY <2>1, <2>3, <2>4 DEF c
<1> HIDE DEF left
<1>8. CASE n = Room(out) /\ Return(h, buf)
  <2>1. /\ http' = h /\ Len(got') = Len(got) + Len(buf) /\ FlashInv'
        /\ pc' = IF Len(got') >= FileLen THEN "done" ELSE "fetch"
    BY <1>1, <1>3, <1>5, <1>7, <1>8, ReturnWrites
  <2>2. n = Len(data)
    BY <1>1, <1>2, <1>8
  <2>3. Read(0)'
    <3>1. left = FileLen - Len(got') - 0
      BY <1>1, <1>2, <1>3, <1>6, <2>1, Sizes
    <3> QED
      BY <1>5, <1>7, <2>1, <3>1 DEF Read
  <2>4. Rest(3)'
    <3> DEFINE k == 3 + Len(out) + Len(data)
    <3>1. k \in Nat /\ k = 3 + Len(buf) /\ Rest(k)
      BY <1>1, <1>3, <2>2
    <3> HIDE DEF k
    <3>2. Len(line) = FileLen - Len(got) + 3 - k /\ Len(line) \in Nat
      BY <1>1, <3>1, LenProperties DEF Rest, TokenType
    <3>3. Len(line') = FileLen - Len(got') + 3 - 3
      <4>1. Len(buf) \in Nat /\ FileLen \in Nat
        BY <1>3, Sizes, LenProperties
      <4> QED
        BY <1>1, <2>1, <3>1, <3>2, <4>1
    <3>4. ASSUME NEW i \in 1 .. Len(line')
          PROVE  line'[i] = Token(3 + i)'
      <4>1. line[i] = Token(k + i)
        BY <1>1, <3>1, <3>4 DEF Rest, After
      <4>2. Token(k + i) = Len(got) + (k + i) - 3
        <5>1. k + i \in Nat \ {0} /\ k + i > 3
          <6>1. i \in Nat \ {0}
            BY <1>1, <3>2
          <6>2. Len(buf) \in Nat
            BY <1>3, LenProperties
          <6> QED
            BY <3>1, <6>1, <6>2
        <5> QED
          BY <1>1, <5>1, TokenValues
      <4>3. Token(3 + i)' = Len(got') + (3 + i) - 3
        BY <1>1, <3>2 DEF Token
      <4>4. i \in Nat
        BY <1>1, <3>2
      <4> QED
        <5>1. Len(buf) \in Nat
          BY <1>3, LenProperties
        <5> QED
          BY <1>1, <2>1, <3>1, <4>1, <4>2, <4>3, <4>4, <5>1
    <3> QED
      BY <3>3, <3>4 DEF Rest, After
  <2> QED
    BY <1>5, <2>1, <2>3, <2>4, ReturnStreams DEF FetchInv
<1>9. CASE left = 0 /\ Return(last, buf)
  <2>1. /\ http' = last /\ Len(got') = Len(got) + Len(buf) /\ FlashInv'
        /\ pc' = IF Len(got') >= FileLen THEN "done" ELSE "fetch"
    BY <1>1, <1>3, <1>5, <1>7, <1>9, ReturnWrites
  <2>2. Len(got') >= FileLen
    BY <1>1, <1>3, <1>6, <1>9, <2>1, Sizes
  <2> QED
    BY <1>5, <2>1, <2>2, ReturnStreams DEF FetchInv
<1>10. CASE /\ n # Room(out) /\ ~(left = 0)
            /\ http' = h /\ out' = buf /\ readLen' = left
            /\ pc' = IF left > 0 THEN "more" ELSE "tail"
            /\ UNCHANGED got
  <2>1. pc' = "more" /\ left > 0
    BY <1>6, <1>10
  <2>2. n = Len(data)
    BY <1>1, <1>2, <1>10 DEF left
  <2>3. Read(Len(out))'
    BY <1>5, <1>6, <1>7, <1>10 DEF Read
  <2>4. Counted' /\ Copied'
    BY <1>1, <1>3, <1>5, <1>7, <1>10 DEF Counted, Copied
  <2>5. Rest(3 + Len(out))'
    <3>1. 3 + Len(out') = 3 + Len(out) + Len(data)
      BY <1>1, <1>3, <1>10, <2>2
    <3> QED
      BY <1>1, <1>10, <3>1 DEF Rest, After, Token
  <2>6. FlashInv' /\ LengthInv'
    BY <1>1, <1>5, <1>10, <2>1 DEF FlashInv, LengthInv
  <2> QED
    BY <1>10, <2>1, <2>3, <2>4, <2>5, <2>6
       DEF StreamInv, FetchInv, HeadInv, CopyingInv
<1> QED
  BY <1>4, <1>8, <1>9, <1>10

LEMMA CopyStreams ==
  ASSUME BufferInv, StreamInv, Copy
  PROVE  StreamInv'
<1>1. \/ Begun /\ Unread /\ data = <<>>
      \/ /\ Read(Len(out)) /\ Counted /\ Copied /\ Len(data) <= Room(out)
         /\ After(data, 3 + Len(out)) /\ Rest(3 + Len(out) + Len(data))
  BY DEF Copy, StreamInv, CopyingInv
<1> QED
  BY <1>1, CopyNothing, CopyBody

-----------------------------------------------------------------------------
(***************************************************************************)
(* The theorems.                                                           *)
(***************************************************************************)
LEMMA InitIInv == Init => IInv
<1> SUFFICES ASSUME Init
             PROVE  IInv
  OBVIOUS
<1>1. pc = "off" /\ http = NoData /\ got = <<>>
  BY DEF Init
<1>2. StreamInv
  BY <1>1, Sizes
     DEF StreamInv, FlashInv, FetchInv, HeadInv, CopyingInv, LengthInv, NoData
<1> QED
  BY <1>2, InitBuffers DEF IInv

LEMMA NextIInv == IInv /\ [Next]_vars => IInv'
<1> SUFFICES ASSUME IInv, [Next]_vars
             PROVE  IInv'
  OBVIOUS
<1>1. BufferInv /\ BufferInv'
  BY NextBuffers DEF IInv
<1>2. server' = server
  BY DEF vars, envVars, Next, StartDownload, Restart, Fetch, ReadResponse,
         ParseStatus, ReadHeader, ParseHeader, Plain, ReadSizeLine,
         ParseSizeLine, Top, Copy, ReadMore, ChunkEnd, NoRead, Recv
<1> SUFFICES ASSUME Plainly
             PROVE  StreamInv'
  BY <1>1, <1>2 DEF IInv, Plainly
<1>3. StreamInv
  BY DEF IInv
<1>4. CASE StartDownload
  BY <1>1, <1>3, <1>4, StartStreams
<1>5. CASE Restart
  BY <1>3, <1>5, RestartStreams
<1>6. CASE Fetch
  BY <1>1, <1>3, <1>6, FetchStreams
<1>7. CASE ReadResponse
  BY <1>1, <1>3, <1>7, ResponseStreams
<1>8. CASE ParseStatus
  BY <1>1, <1>3, <1>8, StatusStreams
<1>9. CASE ReadHeader
  BY <1>1, <1>3, <1>9, HeaderStreams
<1>10. CASE ParseHeader
  BY <1>1, <1>3, <1>10, FramedStreams
<1>11. CASE Plain \/ ReadSizeLine \/ ParseSizeLine \/ ChunkEnd
  BY <1>3, <1>11
     DEF StreamInv, LengthInv, Plain, ReadSizeLine, ParseSizeLine, ChunkDue,
         ChunkEnd
<1>12. CASE Top
  BY <1>3, <1>12, TopStreams
<1>13. CASE Copy
  BY <1>1, <1>3, <1>13, CopyStreams
<1>14. CASE ReadMore
  BY <1>1, <1>3, <1>14, MoreStreams
<1>15. CASE UNCHANGED vars
  BY <1>3, <1>15
     DEF vars, netVars, fetchVars, StreamInv, FlashInv, FetchInv, HeadInv,
         CopyingInv, LengthInv, Unread, Begun, Read, Counted, Copied, Rest,
         After, Token, Room
<1> QED
  BY <1>4, <1>5, <1>6, <1>7, <1>8, <1>9, <1>10, <1>11, <1>12, <1>13, <1>14,
     <1>15 DEF Next

THEOREM Invariance == Spec => []IInv
BY InitIInv, NextIInv, PTL DEF Spec

\* Whatever stalls, breaks and resumes, flash holds the beginning of the file:
\* what the fetch reports is what it copied (qcloud_ofc_fetch), and nothing is
\* lost or copied twice where one buffer is filled and the next is begun
\* (_http_client_retrieve_content).
THEOREM FlashHoldsTheFile == Spec => []BodyIntact
<1>1. IInv => BodyIntact
  <2> SUFFICES ASSUME IInv, Plainly
               PROVE  \A i \in DOMAIN got : got[i] = i
    BY DEF BodyIntact
  <2>1. DOMAIN got = 1 .. Len(got)
    BY LenProperties DEF IInv, BufferInv, TokenType
  <2> QED
    BY <2>1 DEF IInv, StreamInv, FlashInv
<1> QED
  BY <1>1, Invariance, PTL

-----------------------------------------------------------------------------
(***************************************************************************)
(* The type invariant: no size line the server sends is of more than the   *)
(* file, so that no more is counted either.                                *)
(***************************************************************************)
Tok == {x \in Int : x >= SizeLine(FileLen)}

FlagType ==
  /\ handle \in {0, 1} /\ faults \in 0 .. MaxFaults
  /\ late \in BOOLEAN /\ misused \in BOOLEAN

TokInv == line \in Seq(Tok) /\ data \in Seq(Tok)

LengthsInv == readLen <= FileLen /\ http.retrieve_len <= FileLen

TypeInv == FlagType /\ TokInv /\ LengthsInv

LEMMA TokFacts ==
  /\ Tok \subseteq Int /\ \A i \in Int : i >= -10 => i \in Tok
  /\ \A n \in Int : n <= FileLen => SizeLine(n) \in Tok
  /\ {CR, LF, Part, Status, End, Junk} \subseteq Tok
BY HttpAssumption DEF Tok, SizeLine, CR, LF, Part, Status, End, Junk

LEMMA PieceTok ==
  ASSUME NEW s \in Seq(Tok), NEW n \in Nat
  PROVE  Drop(s, n) \in Seq(Tok) /\ (n <= Len(s) => Take(s, n) \in Seq(Tok))
<1>1. Len(s) \in Nat /\ \A i \in 1 .. Len(s) : s[i] \in Tok
  BY LenProperties, ElementOfSeq
<1> QED
  BY <1>1, SubSeqProperties DEF Drop, Take

LEMMA JoinTok ==
  ASSUME NEW s \in Seq(Tok), NEW t \in Seq(Tok)
  PROVE  s \o t \in Seq(Tok)
BY ConcatProperties

\* The tokens of a body, and of its chunks.
LEMMA BodyTok ==
  ASSUME NEW from \in Nat
  PROVE  /\ BodyFrom(from) \in Seq(Tok)
         /\ Len(BodyFrom(from)) \in 0 .. FileLen
<1> USE HttpAssumption
<1>1. CASE server.code = "ok"
  <2> DEFINE n == IF from <= FileLen THEN FileLen - from ELSE 0
  <2>1. n \in 0 .. FileLen /\ 1 .. FileLen - from = 1 .. n
    OBVIOUS
  <2>2. BodyFrom(from) = [i \in 1 .. n |-> from + i]
    BY <1>1, <2>1 DEF BodyFrom
  <2>3. \A i \in 1 .. n : from + i \in Tok
    BY <2>1, TokFacts
  <2> HIDE DEF n
  <2> QED
    BY <2>1, <2>2, <2>3
<1>2. CASE server.code # "ok"
  BY <1>2, TokFacts DEF BodyFrom
<1> QED
  BY <1>1, <1>2

LEMMA ChunksTok ==
  ASSUME NEW body \in Seq(Tok), Len(body) <= FileLen
  PROVE  Chunks(body) \in Seq(Tok)
<1>1. Len(body) \in Nat /\ FileLen \in Nat
  BY LenProperties, HttpAssumption
<1>2. \A n \in Int : n <= Len(body) => SizeLine(n) \in Tok
  BY <1>1, TokFacts
<1>3. Tok \in SUBSET Int /\ CR \in Tok /\ LF \in Tok
  BY TokFacts
<1> QED
  BY <1>2, <1>3, ChunksType

LEMMA AnswerTok ==
  ASSUME NEW from \in Nat
  PROVE  Answer(from) \in Seq(Tok)
<1>1. BodyFrom(from) \in Seq(Tok) /\ Len(BodyFrom(from)) <= FileLen
  <2>1. BodyFrom(from) \in Seq(Tok) /\ Len(BodyFrom(from)) \in 0 .. FileLen
    BY BodyTok
  <2> QED
    BY <2>1
<1>2. Chunks(BodyFrom(from)) \in Seq(Tok)
  BY <1>1, ChunksTok
<1>3. <<Part, Status, End>> \in Seq(Tok)
  BY TokFacts
<1> QED
  BY <1>1, <1>2, <1>3, JoinTok DEF Answer

-----------------------------------------------------------------------------
LEMMA FaultyType ==
  ASSUME TypeInv, NEW b, Faulty(b)
  PROVE  faults' \in 0 .. MaxFaults
<1>1. MaxFaults \in Nat /\ faults \in 0 .. MaxFaults
  BY HttpAssumption DEF TypeInv, FlagType
<1>2. \/ faults < MaxFaults /\ faults' = faults + 1
      \/ faults' = faults
  BY DEF Faulty
<1> QED
  BY <1>1, <1>2

\* What is read is some of what is to come.
LEMMA RecvTok ==
  ASSUME BufferInv, TypeInv, NEW max \in Nat, NEW r \in HalRead(max), Recv(r)
  PROVE  /\ line' \in Seq(Tok) /\ Tokens(r) \in Seq(Tok)
         /\ faults' \in 0 .. MaxFaults /\ late' \in BOOLEAN /\ misused' \in BOOLEAN
<1>1. r.n \in Nat /\ r.n <= Len(line)
  BY ReadFacts, LenProperties DEF BufferInv, TokenType
<1>2. line' \in Seq(Tok) /\ Tokens(r) \in Seq(Tok)
  BY <1>1, PieceTok DEF Recv, Tokens, TypeInv, TokInv
<1>3. faults' \in 0 .. MaxFaults
  BY FaultyType DEF Recv
<1>4. late' \in BOOLEAN /\ misused' \in BOOLEAN
  BY DEF Recv, TypeInv, FlagType
<1> QED
  BY <1>2, <1>3, <1>4

\* A read, or none, and what follows it.
Heard ==
  /\ line' \in Seq(Tok)
  /\ faults' \in 0 .. MaxFaults /\ late' \in BOOLEAN /\ misused' \in BOOLEAN

LEMMA HeardNothing ==
  ASSUME TypeInv, NoRead
  PROVE  Heard
BY DEF NoRead, TypeInv, FlagType, TokInv, Heard

LEMMA HandleType ==
  ASSUME TypeInv, NEW r, HandleAfter(r)
  PROVE  handle' \in {0, 1}
BY DEF HandleAfter, TypeInv, FlagType

LEMMA FailType ==
  ASSUME TypeInv, Heard, Fail
  PROVE  TypeInv'
BY DEF Fail, Heard, TypeInv, FlagType, TokInv, LengthsInv

LEMMA ReturnType ==
  ASSUME TypeInv, Heard, handle' \in {0, 1}, NEW h, NEW buf, Return(h, buf),
         h.retrieve_len <= FileLen
  PROVE  TypeInv'
BY DEF Return, Heard, TypeInv, FlagType, TokInv, LengthsInv

LEMMA PassType ==
  ASSUME TypeInv, Heard, handle' \in {0, 1}, data' \in Seq(Tok),
         readLen' <= FileLen, http'.retrieve_len <= FileLen
  PROVE  TypeInv'
BY DEF Heard, TypeInv, FlagType, TokInv, LengthsInv

LEMMA StartType ==
  ASSUME BufferInv, TypeInv, StartDownload \/ Restart \/ Fetch
  PROVE  TypeInv'
<1>1. CASE StartDownload
  <2>1. Resume \in Nat
    BY ResumedType DEF BufferInv, TokenType
  <2>2. line' \in Seq(Tok)
    <3>1. line' = <<>> \/ line' = Answer(Resume)
      BY <1>1 DEF StartDownload
    <3>2. <<>> \in Seq(Tok)
      OBVIOUS
    <3>3. Answer(Resume) \in Seq(Tok)
      BY <2>1, AnswerTok
    <3> QED
      BY <3>1, <3>2, <3>3
  <2>3. faults' \in 0 .. MaxFaults
    <3>1. PICK b : Faulty(b)
      BY <1>1 DEF StartDownload
    <3> QED
      BY <3>1, FaultyType
  <2>4. /\ late' = FALSE /\ misused' = misused /\ handle' \in {0, 1}
        /\ data' = <<>> /\ readLen' = 0 /\ http' = NoData
    BY <1>1 DEF StartDownload
  <2>5. 0 <= FileLen /\ NoData.retrieve_len = 0
    BY Sizes DEF NoData
  <2>6. <<>> \in Seq(Tok)
    OBVIOUS
  <2> QED
    BY <2>2, <2>3, <2>4, <2>5, <2>6, PassType DEF Heard, TypeInv, FlagType
<1>2. CASE Restart
  BY <1>2 DEF Restart, fetchVars, TypeInv, FlagType, TokInv, LengthsInv
<1>3. CASE Fetch
  <2>1. http'.retrieve_len = http.retrieve_len
    BY <1>3 DEF Fetch, BufferInv, CountType, ClientData
  <2>2. <<>> \in Seq(Tok)
    OBVIOUS
  <2>3. data' \in Seq(Tok)
    BY <1>3, <2>2 DEF Fetch, TypeInv, TokInv
  <2> QED
    BY <1>3, <2>1, <2>3 DEF Fetch, netVars, TypeInv, FlagType, TokInv, LengthsInv
<1> QED
  BY <1>1, <1>2, <1>3

\* The header.
LEMMA HeaderType ==
  ASSUME BufferInv, TypeInv, ReadResponse \/ ReadHeader
  PROVE  TypeInv'
<1>1. /\ CHUNK_SIZE - 1 \in Nat /\ CHUNK_SIZE - Len(data) - 1 \in Nat
      /\ data \in Seq(Tok) /\ readLen <= FileLen /\ http.retrieve_len <= FileLen
  BY Rooms DEF TypeInv, TokInv, LengthsInv
<1>2. CASE ReadResponse
  <2>1. PICK r \in HalRead(CHUNK_SIZE - 1) :
          /\ Recv(r)
          /\ \/ Fail
             \/ HandleAfter(r) /\ Return(http, out)
             \/ HandleAfter(r) /\ data' = Tokens(r) /\ UNCHANGED <<http, readLen>>
    BY <1>2 DEF ReadResponse
  <2>2. Heard /\ Tokens(r) \in Seq(Tok)
    BY <1>1, <2>1, RecvTok DEF Heard
  <2> QED
    BY <1>1, <2>1, <2>2, FailType, ReturnType, PassType, HandleType
<1>3. CASE ReadHeader
  <2>1. PICK r \in HalRead(CHUNK_SIZE - Len(data) - 1) :
          /\ Recv(r)
          /\ \/ Fail
             \/ /\ HandleAfter(r) /\ data' = data \o Tokens(r)
                /\ UNCHANGED <<http, readLen>>
    BY <1>3 DEF ReadHeader
  <2>2. Heard /\ Tokens(r) \in Seq(Tok)
    BY <1>1, <2>1, RecvTok DEF Heard
  <2>3. data \o Tokens(r) \in Seq(Tok)
    BY <1>1, <2>2, JoinTok
  <2> QED
    BY <1>1, <2>1, <2>2, <2>3, FailType, PassType, HandleType
<1> QED
  BY <1>2, <1>3

LEMMA ParseType ==
  ASSUME BufferInv, TypeInv, ParseStatus \/ ParseHeader
  PROVE  TypeInv'
<1>1. /\ Heard /\ handle \in {0, 1} /\ readLen <= FileLen /\ http \in ClientData
      /\ http.retrieve_len <= FileLen
  BY HeardNothing
  DEF ParseStatus, ParseHeader, TypeInv, FlagType, LengthsInv, BufferInv, CountType
<1>2. data' \in Seq(Tok) \/ Fail
  <2>1. Drop(data, 1) \in Seq(Tok) /\ Drop(data, 2) \in Seq(Tok)
    <3>1. data \in Seq(Tok)
      BY DEF TypeInv, TokInv
    <3> QED
      BY <3>1, PieceTok
  <2>2. Fail \/ data' = Drop(data, 1) \/ data' = Drop(data, 2)
    BY DEF ParseStatus, ParseHeader
  <2> QED
    BY <2>1, <2>2
<1>3. CASE Fail
  BY <1>1, <1>3, FailType
<1>4. CASE ~Fail
  <2>1. http'.retrieve_len <= FileLen
    <3>1. CASE ParseStatus
      BY <1>1, <1>4, <3>1 DEF ParseStatus, ClientData
    <3>2. CASE ParseHeader
      <4>1. Len(got) \in Nat /\ FileLen \in Nat
        BY LenProperties, Sizes DEF BufferInv, TokenType
      <4>2. Len(BodyFrom(Len(got))) <= FileLen
        BY <4>1, BodyTok
      <4>3. http' = Framed(server.framing)
        BY <1>4, <3>2 DEF ParseHeader
      <4> QED
        BY <1>1, <4>1, <4>2, <4>3 DEF Framed, ClientData
    <3> QED
      BY <3>1, <3>2
  <2>2. handle' = handle /\ readLen' = readLen
    BY <1>4 DEF ParseStatus, ParseHeader
  <2> QED
    BY <1>1, <1>2, <1>4, <2>1, <2>2, PassType
<1> QED
  BY <1>3, <1>4

\* A body of unknown length.
LEMMA PlainType ==
  ASSUME BufferInv, TypeInv, Plain
  PROVE  TypeInv'
<1>1. readLen <= FileLen /\ http.retrieve_len <= FileLen /\ handle \in {0, 1}
  BY DEF TypeInv, LengthsInv, FlagType
<1>2. CASE Len(data) >= Room(out)
  BY <1>1, <1>2, HeardNothing, ReturnType DEF Plain
<1>3. CASE ~(Len(data) >= Room(out))
  <2> DEFINE max == Min({CHUNK_SIZE - 1, Room(out \o data)})
  <2>1. PICK r \in HalRead(max) :
          /\ Recv(r)
          /\ \/ Fail
             \/ /\ HandleAfter(r) /\ data' = Tokens(r)
                /\ UNCHANGED <<http, readLen>>
    BY <1>3 DEF Plain
  <2>2. max \in Nat
    <3>1. /\ data \in Seq(Int) /\ out \in Seq(Int)
          /\ Len(data) \in Nat /\ Len(out) \in Nat /\ CHUNK_SIZE - 1 \in Nat
          /\ Room(out) \in Nat /\ Room(out) = BufLen - 1 - Len(out)
      BY Rooms DEF BufferInv, TokenType
    <3>2. Len(out \o data) = Len(out) + Len(data)
      BY <3>1, ConcatProperties
    <3>3. Room(out \o data) \in Nat
      BY <1>3, <3>1, <3>2, Sizes DEF Room
    <3> QED
      BY <3>1, <3>3, MinOfTwo
  <2> HIDE DEF max
  <2>3. Heard /\ Tokens(r) \in Seq(Tok)
    BY <2>1, <2>2, RecvTok DEF Heard
  <2> QED
    BY <1>1, <2>1, <2>3, FailType, PassType, HandleType
<1> QED
  BY <1>2, <1>3

\* The size of a chunk.
LEMMA SizeLineType ==
  ASSUME BufferInv, TypeInv, ReadSizeLine \/ ParseSizeLine
  PROVE  TypeInv'
<1>1. /\ data \in Seq(Tok) /\ readLen <= FileLen /\ http.retrieve_len <= FileLen
      /\ handle \in {0, 1} /\ Len(data) \in Nat /\ http \in ClientData
      /\ CHUNK_SIZE - Len(data) - 1 \in Nat
  BY Rooms DEF TypeInv, TokInv, LengthsInv, FlagType, BufferInv, CountType
<1>2. CASE ReadSizeLine
  <2>1. PICK r \in HalRead(CHUNK_SIZE - Len(data) - 1) :
          /\ Recv(r)
          /\ \/ Fail
             \/ /\ HandleAfter(r) /\ data' = data \o Tokens(r)
                /\ UNCHANGED <<http, readLen>>
    BY <1>2 DEF ReadSizeLine
  <2>2. Heard /\ Tokens(r) \in Seq(Tok)
    BY <1>1, <2>1, RecvTok DEF Heard
  <2>3. data \o Tokens(r) \in Seq(Tok)
    BY <1>1, <2>2, JoinTok
  <2> QED
    BY <1>1, <2>1, <2>2, <2>3, FailType, PassType, HandleType
<1>3. CASE ParseSizeLine
  <2>1. Heard /\ SizeLineEnds # {}
    BY <1>3, HeardNothing DEF ParseSizeLine
  <2>2. SizeLineEnds \in SUBSET Nat
    BY <1>1 DEF SizeLineEnds
  <2>3. Min(SizeLineEnds) \in SizeLineEnds
    BY <2>1, <2>2, FirstOf
  <2>4. Min(SizeLineEnds) + 1 \in Nat
    <3>1. Min(SizeLineEnds) \in Nat
      BY <2>2, <2>3
    <3> QED
      BY <3>1
  <2>5. SizeRead <= FileLen
    <3>1. 1 \in 1 .. Len(data)
      BY <1>1, <2>3 DEF SizeLineEnds
    <3>2. data[1] \in Tok
      BY <1>1, <3>1, ElementOfSeq
    <3> QED
      BY <3>2, Sizes DEF SizeRead, SizeLine, Tok
  <2>6. CASE Fail
    BY <2>1, <2>6, FailType
  <2>7. CASE ~Fail
    <3>1. /\ data' = Drop(data, Min(SizeLineEnds) + 1) /\ readLen' = SizeRead
          /\ handle' = handle
          /\ http' = [http EXCEPT !.retrieve_len = SizeRead,
                                  !.content_len = @ + SizeRead]
      BY <1>3, <2>7 DEF ParseSizeLine
    <3>2. http'.retrieve_len = SizeRead
      BY <1>1, <3>1 DEF ClientData
    <3>3. data' \in Seq(Tok)
      BY <1>1, <2>4, <3>1, PieceTok
    <3> QED
      BY <1>1, <2>1, <2>5, <3>1, <3>2, <3>3, PassType
  <2> QED
    BY <2>6, <2>7
<1> QED
  BY <1>2, <1>3

\* What is copied is counted down.
LEMMA CopyType ==
  ASSUME BufferInv, TypeInv, Top \/ Copy
  PROVE  TypeInv'
<1>1. /\ Heard /\ handle' \in {0, 1} /\ data \in Seq(Tok) /\ readLen \in Nat
      /\ readLen <= FileLen /\ http.retrieve_len <= FileLen /\ http \in ClientData
  BY HeardNothing
  DEF Top, Copy, TypeInv, TokInv, FlagType, LengthsInv, BufferInv, CountType
<1>2. CASE Top
  BY <1>1, <1>2, PassType DEF Top
<1>3. CASE Copy
  <2> DEFINE n == Min({Len(data), readLen, Room(out)})
             h == [http EXCEPT !.retrieve_len = @ - n]
             buf == out \o Take(data, n)
  <2>1. n \in Nat /\ n <= readLen
    BY MostFacts
  <2>2. \/ Return(h, buf)
        \/ Return([h EXCEPT !.is_more = FALSE], buf)
        \/ /\ http' = h /\ readLen' = readLen - n
           /\ data' \in {data, Drop(data, readLen)}
    BY <1>3 DEF Copy
  <2> HIDE DEF n, buf
  <2>3. h.retrieve_len <= FileLen /\ [h EXCEPT !.is_more = FALSE].retrieve_len <= FileLen
    <3>1. http.retrieve_len \in Nat /\ FileLen \in Nat
      BY <1>1, Sizes DEF ClientData
    <3>2. h.retrieve_len = http.retrieve_len - n
      BY <1>1 DEF ClientData
    <3>3. [h EXCEPT !.is_more = FALSE].retrieve_len = http.retrieve_len - n
      BY <1>1 DEF ClientData
    <3> HIDE DEF h
    <3> QED
      BY <1>1, <2>1, <3>1, <3>2, <3>3
  <2> HIDE DEF h
  <2>4. readLen - n <= FileLen
    BY <1>1, <2>1, Sizes
  <2>5. Drop(data, readLen) \in Seq(Tok)
    BY <1>1, PieceTok
  <2> QED
    BY <1>1, <2>2, <2>3, <2>4, <2>5, ReturnType, PassType
<1> QED
  BY <1>2, <1>3

LEMMA MoreType ==
  ASSUME BufferInv, TypeInv, ReadMore
  PROVE  TypeInv'
<1>1. PICK r \in HalRead(MostToRead) :
        /\ Recv(r)
        /\ \/ Fail
           \/ HandleAfter(r) /\ data' = Tokens(r) /\ UNCHANGED <<http, readLen>>
  BY DEF ReadMore
<1>2. Heard /\ Tokens(r) \in Seq(Tok)
  BY <1>1, MostFacts, RecvTok DEF Heard
<1> QED
  BY <1>1, <1>2, FailType, PassType, HandleType DEF TypeInv, LengthsInv

LEMMA ChunkEndType ==
  ASSUME BufferInv, TypeInv, ChunkEnd
  PROVE  TypeInv'
<1>1. /\ data \in Seq(Tok) /\ readLen <= FileLen /\ http.retrieve_len <= FileLen
      /\ handle \in {0, 1} /\ CHUNK_SIZE - Len(data) - 1 \in Nat
  BY Rooms DEF TypeInv, TokInv, LengthsInv, FlagType
<1>2. ASSUME Heard, NEW d \in Seq(Tok), NextChunk(d),
             EndsChunk(d) => handle' \in {0, 1}
      PROVE  TypeInv'
  <2>1. CASE Fail
    BY <1>2, <2>1, FailType
  <2>2. CASE /\ EndsChunk(d) /\ data' = Drop(d, 2) /\ UNCHANGED <<http, readLen>>
    BY <1>1, <1>2, <2>2, PieceTok, PassType
  <2> QED
    BY <1>2, <2>1, <2>2 DEF NextChunk
<1>3. CASE Len(data) >= 2
  <2>1. /\ Heard /\ NextChunk(data) /\ (EndsChunk(data) => handle' \in {0, 1})
    BY <1>1, <1>3, HeardNothing DEF ChunkEnd
  <2> QED
    BY <1>1, <1>2, <2>1
<1>4. CASE ~(Len(data) >= 2)
  <2>1. PICK r \in HalRead(CHUNK_SIZE - Len(data) - 1) :
          /\ Recv(r)
          /\ \/ Fail
             \/ HandleAfter(r) /\ Return(http, out)
             \/ /\ NextChunk(data \o Tokens(r))
                /\ EndsChunk(data \o Tokens(r)) => HandleAfter(r)
    BY <1>4 DEF ChunkEnd
  <2>2. Heard /\ Tokens(r) \in Seq(Tok)
    BY <1>1, <2>1, RecvTok DEF Heard
  <2>3. data \o Tokens(r) \in Seq(Tok)
    BY <1>1, <2>2, JoinTok
  <2>4. HandleAfter(r) => handle' \in {0, 1}
    BY HandleType
  <2> QED
    BY <1>1, <1>2, <2>1, <2>2, <2>3, <2>4, FailType, ReturnType
<1> QED
  BY <1>3, <1>4

LEMMA TypeNext == BufferInv /\ TypeInv /\ [Next]_vars => TypeInv'
<1>1. CASE UNCHANGED vars
  BY <1>1 DEF vars, netVars, fetchVars, TypeInv, FlagType, TokInv, LengthsInv
<1> QED
  BY <1>1, StartType, HeaderType, ParseType, PlainType, SizeLineType, CopyType,
     MoreType, ChunkEndType DEF Next

\* The type invariant: neither buffer is ever written past its end, the byte the
\* code keeps for a zero stays free (_http_client_recv, _http_client_copy_data),
\* and no more is counted than the file has, however the server frames the body
\* and in however many chunks it comes.
THEOREM TypeCorrect == Spec => []TypeOK
<1>1. Init => TypeInv
  <2> SUFFICES ASSUME Init
               PROVE  TypeInv
    OBVIOUS
  <2>1. 0 <= FileLen /\ MaxFaults \in Nat
    BY HttpAssumption
  <2>2. <<>> \in Seq(Tok) /\ NoData.retrieve_len = 0
    BY DEF NoData
  <2>3. line = <<>> /\ data = <<>> /\ readLen = 0 /\ http = NoData
    BY DEF Init
  <2>4. /\ handle = 0 /\ faults = 0 /\ late = FALSE /\ misused = FALSE
    BY DEF Init
  <2>5. faults \in 0 .. MaxFaults
    BY <2>1, <2>4
  <2> QED
    BY <2>1, <2>2, <2>3, <2>4, <2>5 DEF TypeInv, FlagType, TokInv, LengthsInv
<1>2. BufferInv /\ TypeInv => TypeOK
  <2> SUFFICES ASSUME BufferInv, TypeInv
               PROVE  TypeOK
    OBVIOUS
  <2>1. readLen \in 0 .. FileLen /\ http.retrieve_len \in 0 .. FileLen
    BY Sizes DEF BufferInv, CountType, ClientData, TypeInv, LengthsInv
  <2>2. http.is_more \in BOOLEAN /\ http.is_chunked \in BOOLEAN
    BY DEF BufferInv, CountType, ClientData
  <2> QED
    BY <2>1, <2>2 DEF BufferInv, RoomInv, TypeInv, FlagType, TypeOK
<1> QED
  BY <1>1, <1>2, InitBuffers, NextBuffers, TypeNext, PTL DEF Spec
=============================================================================

-------------------------- MODULE TextPathsProofs --------------------------
(***************************************************************************)
(* Proofs about TextPaths, for every alphabet, token, number of tubes and  *)
(* fragmentation of a page, and for every text of a request and size of    *)
(* the buffers.                                                            *)
(***************************************************************************)
EXTENDS TextPaths, SequenceTheorems, FiniteSetTheorems,
        WellFoundedInduction, TLAPS

-----------------------------------------------------------------------------
(* Least elements.                                                         *)

LessThan == {p \in Nat \X Nat : p[1] < p[2]}

LEMMA LeastElement ==
  ASSUME NEW S, S \subseteq Nat, S # {}
  PROVE  \E m \in S : \A n \in S : m <= n
<1>1. OpToRel(<, Nat) = LessThan
  BY DEF OpToRel, LessThan
<1>2. PICK m \in S : \A n \in S : <<n, m>> \notin LessThan
  BY <1>1, NatLessThanWellFounded, WFMin
<1>3. \A n \in S : m <= n
  <2> TAKE n \in S
  <2>1. <<n, m>> \in Nat \X Nat /\ <<n, m>>[1] = n /\ <<n, m>>[2] = m
    OBVIOUS
  <2>2. ~(n < m)
    BY <1>2, <2>1 DEF LessThan
  <2> QED
    BY <2>2
<1> QED
  BY <1>3
LEMMA GreatestElement ==
  ASSUME NEW S, NEW k \in Nat, S \subseteq 0..k, S # {}
  PROVE  \E m \in S : \A n \in S : n <= m
<1> DEFINE R == {k - n : n \in S}
<1>0. \A n \in S : n \in Nat /\ n <= k
  <2> TAKE n \in S
  <2>1. n \in 0..k
    OBVIOUS
  <2> QED
    BY <2>1
<1>1. R \subseteq Nat /\ R # {}
  <2>1. \A n \in S : k - n \in Nat
    BY <1>0
  <2> QED
    BY <2>1
<1>2. PICK r \in R : \A q \in R : r <= q
  BY <1>1, LeastElement
<1>3. PICK m \in S : r = k - m
  BY <1>2
<1>4. \A n \in S : n <= m
  <2> TAKE n \in S
  <2>1. r <= k - n
    BY <1>2
  <2>2. n \in Nat
    BY <1>0
  <2>3. m \in Nat
    BY <1>0
  <2> QED
    BY <1>3, <2>1, <2>2, <2>3
<1> QED
  BY <1>4
-----------------------------------------------------------------------------
(* The page.  What the parser does with byte strings is told by where they *)
(* are pieces of each other.                                               *)
Bytes == Seq(Byte)

Piece(s, t, k) ==
  /\ k \in Nat /\ k + Len(s) <= Len(t)
  /\ \A i \in 1..Len(s) : s[i] = t[k + i]

LEMMA Length == ASSUME NEW s \in Bytes PROVE Len(s) \in Nat
BY LenProperties DEF Bytes

LEMMA PieceOfPiece ==
  ASSUME NEW a \in Bytes, NEW b \in Bytes, NEW c \in Bytes, NEW i, NEW j,
         Piece(a, b, i), Piece(b, c, j)
  PROVE  Piece(a, c, j + i)
<1>1. /\ Len(a) \in Nat /\ Len(b) \in Nat /\ Len(c) \in Nat
      /\ i \in Nat /\ j \in Nat /\ i + Len(a) <= Len(b) /\ j + Len(b) <= Len(c)
  BY Length DEF Piece
<1>2. \A k \in 1..Len(a) : a[k] = c[(j + i) + k]
  <2> TAKE k \in 1..Len(a)
  <2>1. i + k \in 1..Len(b) /\ j + (i + k) = (j + i) + k
    BY <1>1
  <2> QED
    BY <2>1 DEF Piece
<1> QED
  BY <1>1, <1>2 DEF Piece

\* A piece that lies within another is a piece of it.
LEMMA PieceWithin ==
  ASSUME NEW a \in Bytes, NEW b \in Bytes, NEW c \in Bytes, NEW i, NEW j,
         Piece(a, c, i), Piece(b, c, j), j <= i,
         i + Len(a) <= j + Len(b)
  PROVE  Piece(a, b, i - j)
<1>1. /\ Len(a) \in Nat /\ Len(b) \in Nat /\ Len(c) \in Nat
      /\ i \in Nat /\ j \in Nat
  BY Length DEF Piece
<1>2. i - j \in Nat /\ i - j + Len(a) <= Len(b)
  BY <1>1
<1>3. \A k \in 1..Len(a) : a[k] = b[(i - j) + k]
  <2> TAKE k \in 1..Len(a)
  <2>1. i - j + k \in 1..Len(b) /\ j + (i - j + k) = i + k
    BY <1>1
  <2> QED
    BY <2>1 DEF Piece
<1> QED
  BY <1>2, <1>3 DEF Piece

LEMMA SamePiece ==
  ASSUME NEW a \in Bytes, NEW b \in Bytes, NEW c \in Bytes, NEW i,
         Piece(a, c, i), Piece(b, c, i), Len(a) = Len(b)
  PROVE  a = b
<1>1. \A k \in 1..Len(a) : a[k] = b[k]
  BY DEF Piece
<1> QED
  BY <1>1, SeqEqual DEF Bytes

LEMMA Glue ==
  ASSUME NEW a \in Bytes, NEW b \in Bytes
  PROVE  /\ a \o b \in Bytes /\ Len(a \o b) = Len(a) + Len(b)
         /\ Piece(a, a \o b, 0) /\ Piece(b, a \o b, Len(a))
<1>1. /\ a \o b \in Bytes /\ Len(a \o b) = Len(a) + Len(b)
      /\ \A i \in 1..(Len(a) + Len(b)) :
           (a \o b)[i] = IF i <= Len(a) THEN a[i] ELSE b[i - Len(a)]
  BY ConcatProperties DEF Bytes
<1>2. Len(a) \in Nat /\ Len(b) \in Nat
  BY Length
<1>3. \A i \in 1..Len(a) : a[i] = (a \o b)[0 + i]
  BY <1>1, <1>2
<1>4. \A i \in 1..Len(b) : b[i] = (a \o b)[Len(a) + i]
  <2> TAKE i \in 1..Len(b)
  <2>1. /\ Len(a) + i \in 1..(Len(a) + Len(b))
        /\ ~(Len(a) + i <= Len(a)) /\ Len(a) + i - Len(a) = i
    BY <1>2
  <2> QED
    BY <1>1, <2>1
<1> QED
  BY <1>1, <1>2, <1>3, <1>4 DEF Piece

\* Pieces that lie next to each other are glued to a piece.
LEMMA Adjacent ==
  ASSUME NEW a \in Bytes, NEW b \in Bytes, NEW c \in Bytes, NEW i,
         Piece(a, c, i), Piece(b, c, i + Len(a))
  PROVE  Piece(a \o b, c, i)
<1>1. /\ a \o b \in Bytes /\ Len(a \o b) = Len(a) + Len(b)
      /\ \A k \in 1..(Len(a) + Len(b)) :
           (a \o b)[k] = IF k <= Len(a) THEN a[k] ELSE b[k - Len(a)]
  BY ConcatProperties DEF Bytes
<1>2. /\ Len(a) \in Nat /\ Len(b) \in Nat /\ Len(c) \in Nat /\ i \in Nat
      /\ i + Len(a) + Len(b) <= Len(c)
  BY Length DEF Piece
<1>3. \A k \in 1..(Len(a) + Len(b)) : (a \o b)[k] = c[i + k]
  <2> TAKE k \in 1..(Len(a) + Len(b))
  <2>1. CASE k <= Len(a)
    <3>1. k \in 1..Len(a)
      BY <1>2, <2>1
    <3> QED
      BY <1>1, <2>1, <3>1 DEF Piece
  <2>2. CASE ~(k <= Len(a))
    <3>1. k - Len(a) \in 1..Len(b) /\ (i + Len(a)) + (k - Len(a)) = i + k
      BY <1>2, <2>2
    <3>2. b[k - Len(a)] = c[(i + Len(a)) + (k - Len(a))]
      BY <3>1 DEF Piece
    <3> QED
      BY <1>1, <2>2, <3>1, <3>2
  <2> QED
    BY <2>1, <2>2
<1>4. i + Len(a \o b) <= Len(c)
  BY <1>1, <1>2
<1> QED
  BY <1>1, <1>2, <1>3, <1>4 DEF Piece

LEMMA Slice ==
  ASSUME NEW s \in Bytes, NEW k \in Nat, NEW n \in Nat, k + n <= Len(s)
  PROVE  /\ SubSeq(s, k + 1, k + n) \in Bytes
         /\ Len(SubSeq(s, k + 1, k + n)) = n
         /\ Piece(SubSeq(s, k + 1, k + n), s, k)
<1>1. Len(s) \in Nat
  BY Length
<1>2. k + 1 \in 1..(Len(s) + 1) /\ k + n \in (k + 1) - 1 .. Len(s)
  BY <1>1
<1> DEFINE r == SubSeq(s, k + 1, k + n)
<1>3. /\ r \in Bytes
      /\ Len(r) = IF k + 1 <= k + n THEN (k + n) - (k + 1) + 1 ELSE 0
      /\ \A i \in 1..((k + n) - (k + 1) + 1) : r[i] = s[(k + 1) + i - 1]
  BY <1>1, <1>2, SubSeqProperties DEF Bytes
<1> HIDE DEF r
<1>4. Len(r) = n
  BY <1>3
<1>5. \A i \in 1..n : r[i] = s[k + i]
  <2> TAKE i \in 1..n
  <2>1. i \in 1..((k + n) - (k + 1) + 1) /\ (k + 1) + i - 1 = k + i
    OBVIOUS
  <2> QED
    BY <1>3, <2>1
<1>6. r \in Bytes /\ Len(r) = n /\ Piece(r, s, k)
  BY <1>1, <1>3, <1>4, <1>5 DEF Piece
<1> QED
  BY <1>6 DEF r
-----------------------------------------------------------------------------
(* Pieces of byte strings in the parser.                                   *)
L == Len(Token)

LEMMA Constants ==
  /\ Token \in Bytes /\ L \in Nat \ {0}
  /\ NumNixies \in Nat \ {0}
  /\ FragmentSizes \subseteq Nat \ {0}
  /\ Zero \in PageDigit /\ PageNul \notin PageDigit
  /\ Parser!required_len = L + NumNixies
  /\ Parser!max_cyclic_buffer_len = 2 * (L + NumNixies)
<1>1. /\ Token \in Bytes /\ Token # <<>>
      /\ NumNixies \in Nat \ {0}
      /\ FragmentSizes \subseteq Nat \ {0}
      /\ Zero \in PageDigit /\ PageNul \notin PageDigit
  BY TextPathsAssumption DEF Parser!ParserAssumption, Bytes
<1>2. L \in Nat \ {0}
  BY <1>1, EmptySeq, LenProperties DEF L, Bytes
<1> QED
  BY <1>1, <1>2 DEF Parser!required_len, Parser!max_cyclic_buffer_len, L

LEMMA MinOf ==
  ASSUME NEW a \in Int, NEW b \in Int
  PROVE  /\ Parser!min_zz(a, b) \in {a, b}
         /\ Parser!min_zz(a, b) <= a /\ Parser!min_zz(a, b) <= b
BY DEF Parser!min_zz

LEMMA FirstPiece ==
  ASSUME NEW s \in Bytes, NEW n \in Nat
  PROVE  /\ Parser!First(s, n) \in Bytes
         /\ Len(Parser!First(s, n)) = Parser!min_zz(n, Len(s))
         /\ Piece(Parser!First(s, n), s, 0)
<1> DEFINE m == Parser!min_zz(n, Len(s))
           o == 0
<1>1. m \in Nat /\ o \in Nat /\ o + m <= Len(s)
  BY Length, MinOf
<1>2. Parser!First(s, n) = SubSeq(s, o + 1, o + m)
  BY <1>1 DEF Parser!First
<1> HIDE DEF m, o
<1>3. /\ SubSeq(s, o + 1, o + m) \in Bytes
      /\ Len(SubSeq(s, o + 1, o + m)) = m
      /\ Piece(SubSeq(s, o + 1, o + m), s, o)
  BY <1>1, Slice
<1> QED
  BY <1>2, <1>3 DEF m, o

LEMMA DropPiece ==
  ASSUME NEW s \in Bytes, NEW n \in Nat, n <= Len(s)
  PROVE  /\ Parser!Drop(s, n) \in Bytes
         /\ Len(Parser!Drop(s, n)) = Len(s) - n
         /\ Piece(Parser!Drop(s, n), s, n)
<1> DEFINE l == Len(s) - n
<1>1. l \in Nat /\ n + l = Len(s)
  BY Length
<1> HIDE DEF l
<1>2. Parser!Drop(s, n) = SubSeq(s, n + 1, n + l)
  BY <1>1 DEF Parser!Drop
<1>3. /\ SubSeq(s, n + 1, n + l) \in Bytes
      /\ Len(SubSeq(s, n + 1, n + l)) = l
      /\ Piece(SubSeq(s, n + 1, n + l), s, n)
  <2>1. n + l <= Len(s)
    BY <1>1
  <2> QED
    BY <1>1, <2>1, Slice
<1> QED
  BY <1>2, <1>3 DEF l

LEMMA LastPiece ==
  ASSUME NEW s \in Bytes, NEW n \in Nat
  PROVE  /\ Parser!Last(s, n) \in Bytes
         /\ Len(Parser!Last(s, n)) = Parser!min_zz(n, Len(s))
         /\ Piece(Parser!Last(s, n), s, Len(s) - Len(Parser!Last(s, n)))
<1> DEFINE m == Parser!min_zz(n, Len(s))
<1>1. m \in Nat /\ m <= Len(s) /\ Len(s) \in Nat
  BY Length, MinOf
<1>2. Parser!Last(s, n) = Parser!Drop(s, Len(s) - m)
  BY DEF Parser!Last
<1> HIDE DEF m
<1>3. Len(s) - m \in Nat /\ Len(s) - m <= Len(s) /\ Len(s) - (Len(s) - m) = m
  BY <1>1
<1>4. /\ Parser!Last(s, n) \in Bytes /\ Len(Parser!Last(s, n)) = m
      /\ Piece(Parser!Last(s, n), s, Len(s) - m)
  BY <1>2, <1>3, DropPiece
<1> QED
  BY <1>4 DEF m

LEMMA OccurrenceIs ==
  ASSUME NEW s \in Bytes
  PROVE  \A k : k \in Parser!Occurrences(s) <=> Piece(Token, s, k)
<1>1. Len(s) \in Nat /\ L \in Nat \ {0} /\ Token \in Bytes
  BY Length, Constants
<1> TAKE k
<1>2. k \in 0..(Len(s) - L) <=> k \in Nat /\ k + L <= Len(s)
  BY <1>1
<1>3. ASSUME k \in Nat, k + L <= Len(s)
      PROVE  SubSeq(s, k + 1, k + L) = Token <=> Piece(Token, s, k)
  <2>1. /\ SubSeq(s, k + 1, k + L) \in Bytes
        /\ Len(SubSeq(s, k + 1, k + L)) = L
        /\ Piece(SubSeq(s, k + 1, k + L), s, k)
    BY <1>1, <1>3, Slice
  <2>2. Piece(Token, s, k) => SubSeq(s, k + 1, k + L) = Token
    BY <1>1, <2>1, SamePiece DEF L
  <2> QED
    BY <2>1, <2>2
<1> QED
  BY <1>2, <1>3 DEF Parser!Occurrences, Piece, L

FirstAt(s, f) == Piece(Token, s, f) /\ \A k : Piece(Token, s, k) => f <= k

NowhereIn(s) == \A k : ~Piece(Token, s, k)

\* What strstr_len answers.
LEMMA FirstIsMin ==
  ASSUME NEW s \in Bytes
  PROVE  /\ ~Parser!Contains(s) <=> NowhereIn(s)
         /\ Parser!Contains(s) => FirstAt(s, Parser!strstr_len(s))
         /\ \A f : FirstAt(s, f) =>
              Parser!Contains(s) /\ Parser!strstr_len(s) = f
<1> DEFINE all == Parser!Occurrences(s)
<1>1. all \subseteq Nat /\ \A k : k \in all <=> Piece(Token, s, k)
  BY OccurrenceIs DEF Piece
<1>2. Parser!Contains(s) <=> all # {}
  BY DEF Parser!Contains
<1>3. all # {} => /\ Parser!strstr_len(s) \in all
                  /\ \A k \in all : Parser!strstr_len(s) <= k
  <2> SUFFICES ASSUME all # {}
               PROVE  /\ Parser!strstr_len(s) \in all
                      /\ \A k \in all : Parser!strstr_len(s) <= k
    OBVIOUS
  <2>1. PICK m \in all : \A k \in all : m <= k
    BY <1>1, LeastElement
  <2> HIDE DEF all
  <2> QED
    BY <2>1 DEF Parser!strstr_len, Parser!Min, all
<1> HIDE DEF all
<1>4. ASSUME NEW f, FirstAt(s, f)
      PROVE  Parser!Contains(s) /\ Parser!strstr_len(s) = f
  <2>1. f \in all /\ \A k \in all : f <= k
    BY <1>1, <1>4 DEF FirstAt
  <2>2. Parser!strstr_len(s) \in Nat /\ f \in Nat
    BY <1>1, <1>3, <2>1
  <2>3. Parser!strstr_len(s) <= f /\ f <= Parser!strstr_len(s)
    BY <1>3, <2>1
  <2> QED
    BY <1>2, <2>1, <2>2, <2>3
<1> QED
  BY <1>1, <1>2, <1>3, <1>4 DEF NowhereIn, FirstAt
-----------------------------------------------------------------------------
(* The value behind a token.                                               *)
LEMMA DigitsCounted ==
  ASSUME NEW s \in Bytes
  PROVE  /\ Parser!NumDigits(s) \in Nat
         /\ Parser!NumDigits(s) <= NumNixies /\ Parser!NumDigits(s) <= Len(s)
         /\ \A i \in 1..Parser!NumDigits(s) : s[i] \in PageDigit
<1> DEFINE k == Parser!min_zz(Len(s), NumNixies)
           S == {n \in 0..k : \A i \in 1..n : s[i] \in PageDigit}
<1>1. k \in Nat /\ k <= NumNixies /\ k <= Len(s)
  BY Length, Constants, MinOf
<1>2. Parser!NumDigits(s) = Parser!Max(S)
  BY DEF Parser!NumDigits
<1> HIDE DEF k
<1>3. S \subseteq 0..k /\ 0 \in S
  BY <1>1
<1>4. PICK m \in S : \A n \in S : n <= m
  BY <1>1, <1>3, GreatestElement
<1>5. Parser!Max(S) \in S
  <2> HIDE DEF S
  <2> QED
    BY <1>4 DEF Parser!Max
<1> QED
  BY <1>1, <1>2, <1>5, Length, Constants

\* A string that is long enough, or all there is, is parsed as any longer one.
LEMMA ParseOfPrefix ==
  ASSUME NEW s \in Bytes, NEW t \in Bytes, Piece(s, t, 0),
         NumNixies <= Len(s) \/ Len(s) = Len(t)
  PROVE  Parser!parseValueFromBuffer(s) = Parser!parseValueFromBuffer(t)
<1>1. /\ Len(s) \in Nat /\ Len(t) \in Nat /\ Len(s) <= Len(t)
      /\ NumNixies \in Nat \ {0}
  BY Length, Constants DEF Piece
<1>2. \A i \in 1..Len(s) : s[i] = t[i]
  BY DEF Piece
<1>3. Parser!min_zz(Len(s), NumNixies) = Parser!min_zz(Len(t), NumNixies)
  BY <1>1 DEF Parser!min_zz
<1> DEFINE k == Parser!min_zz(Len(s), NumNixies)
<1>4. k \in Nat /\ k <= Len(s)
  BY <1>1, MinOf
<1> HIDE DEF k
<1>5. {n \in 0..k : \A i \in 1..n : s[i] \in PageDigit}
        = {n \in 0..k : \A i \in 1..n : t[i] \in PageDigit}
  <2>1. \A n \in 0..k : \A i \in 1..n : s[i] = t[i]
    BY <1>1, <1>2, <1>4
  <2> QED
    BY <2>1
<1>6. Parser!NumDigits(s) = Parser!NumDigits(t)
  BY <1>3, <1>5 DEF Parser!NumDigits, k
<1> DEFINE d == Parser!NumDigits(s)
<1>7. d \in Nat /\ d <= Len(s)
  BY DigitsCounted
<1>8. Parser!NumDigits(t) = d
  BY <1>6
<1>9. /\ Parser!parseValueFromBuffer(s) =
           [i \in Parser!Tube |-> IF NumNixies - i <= d
                                  THEN s[NumNixies - i] ELSE PageNul]
      /\ Parser!parseValueFromBuffer(t) =
           [i \in Parser!Tube |-> IF NumNixies - i <= d
                                  THEN t[NumNixies - i] ELSE PageNul]
  BY <1>8 DEF Parser!parseValueFromBuffer
<1> HIDE DEF d
<1>10. \A i \in Parser!Tube :
         NumNixies - i <= d => s[NumNixies - i] = t[NumNixies - i]
  <2> TAKE i \in Parser!Tube
  <2>1. NumNixies - i \in Nat \ {0}
    BY <1>1 DEF Parser!Tube
  <2>2. NumNixies - i <= d => NumNixies - i \in 1..Len(s)
    BY <1>1, <1>7, <2>1
  <2> QED
    BY <1>2, <2>2
<1> QED
  BY <1>9, <1>10

Rest(s, f) == Parser!Drop(s, f + L)

ValueAt(s, f) == Parser!parseValueFromBuffer(Rest(s, f))

LEMMA RestPiece ==
  ASSUME NEW s \in Bytes, NEW f, Piece(Token, s, f)
  PROVE  /\ f \in Nat /\ f + L <= Len(s) /\ Len(s) \in Nat
         /\ Rest(s, f) \in Bytes /\ Len(Rest(s, f)) = Len(s) - (f + L)
         /\ Piece(Rest(s, f), s, f + L)
<1>1. f \in Nat /\ f + L <= Len(s) /\ f + L \in Nat
  BY Constants DEF Piece, L
<1> QED
  BY <1>1, DropPiece, Length DEF Rest

\* What lies behind the token in a piece of the page that begins with it.
LEMMA ParsedBehindToken ==
  ASSUME NEW s \in Bytes, NEW t \in Bytes, NEW f,
         Piece(Token, t, f), Piece(s, t, f),
         L + NumNixies <= Len(s) \/ f + Len(s) = Len(t), L <= Len(s)
  PROVE  Parser!parseValueFromBuffer(Parser!Drop(s, L)) = ValueAt(t, f)
<1>1. /\ f \in Nat /\ Len(s) \in Nat /\ Len(t) \in Nat
      /\ L \in Nat \ {0} /\ NumNixies \in Nat \ {0}
      /\ Rest(t, f) \in Bytes /\ Len(Rest(t, f)) = Len(t) - (f + L)
      /\ Piece(Rest(t, f), t, f + L)
  BY Length, Constants, RestPiece
<1> DEFINE r == Parser!Drop(s, L)
<1>2. r \in Bytes /\ Len(r) = Len(s) - L /\ Piece(r, s, L)
  BY <1>1, DropPiece
<1> HIDE DEF r
<1>3. Piece(r, t, f + L)
  BY <1>2, PieceOfPiece
<1>4. f + Len(s) <= Len(t)
  BY DEF Piece
<1>5. f + L + Len(r) <= f + L + Len(Rest(t, f))
  BY <1>1, <1>2, <1>4
<1>6. f + L <= f + L /\ (f + L) - (f + L) = 0
  BY <1>1
<1>7. Piece(r, Rest(t, f), 0)
  BY <1>1, <1>2, <1>3, <1>5, <1>6, PieceWithin
<1>8. NumNixies <= Len(r) \/ Len(r) = Len(Rest(t, f))
  BY <1>1, <1>2
<1> QED
  BY <1>1, <1>2, <1>7, <1>8, ParseOfPrefix DEF ValueAt, r

\* A value that is there stays when the page goes on.
LEMMA StillFound ==
  ASSUME NEW s \in Bytes, NEW t \in Bytes, NEW f, FirstAt(s, f)
  PROVE  /\ FirstAt(s \o t, f)
         /\ f + L + NumNixies <= Len(s) => ValueAt(s \o t, f) = ValueAt(s, f)
<1> DEFINE w == s \o t
<1>1. /\ w \in Bytes /\ Len(w) = Len(s) + Len(t) /\ Piece(s, w, 0)
      /\ Len(s) \in Nat /\ Len(t) \in Nat
  BY Glue, Length
<1> HIDE DEF w
<1>2. /\ Piece(Token, s, f) /\ f \in Nat /\ f + L <= Len(s)
      /\ L \in Nat \ {0} /\ Token \in Bytes /\ NumNixies \in Nat \ {0}
  BY Constants DEF FirstAt, Piece, L
<1>3. Piece(Token, w, f)
  BY <1>1, <1>2, PieceOfPiece
<1>4. ASSUME NEW k, Piece(Token, w, k) PROVE f <= k
  <2> SUFFICES ASSUME ~(f <= k) PROVE FALSE
    OBVIOUS
  <2>1. k \in Nat /\ 0 <= k /\ k + L <= 0 + Len(s) /\ k - 0 = k
    BY <1>1, <1>2, <1>4 DEF Piece
  <2>2. Piece(Token, s, k)
    BY <1>1, <1>2, <1>4, <2>1, PieceWithin DEF L
  <2> QED
    BY <2>2 DEF FirstAt
<1>5. ASSUME f + L + NumNixies <= Len(s)
      PROVE  ValueAt(w, f) = ValueAt(s, f)
  <2>1. /\ Rest(s, f) \in Bytes /\ Piece(Rest(s, f), s, f + L)
        /\ Len(Rest(s, f)) = Len(s) - (f + L)
        /\ Rest(w, f) \in Bytes /\ Piece(Rest(w, f), w, f + L)
        /\ Len(Rest(w, f)) = Len(w) - (f + L)
    BY <1>1, <1>2, <1>3, RestPiece
  <2>2. Piece(Rest(s, f), w, f + L)
    <3>1. 0 + (f + L) = f + L
      BY <1>2
    <3> QED
      BY <1>1, <2>1, <3>1, PieceOfPiece
  <2>3. /\ f + L <= f + L /\ (f + L) - (f + L) = 0
        /\ f + L + Len(Rest(s, f)) <= f + L + Len(Rest(w, f))
    BY <1>1, <1>2, <2>1
  <2>4. Piece(Rest(s, f), Rest(w, f), 0)
    BY <1>1, <2>1, <2>2, <2>3, PieceWithin
  <2>5. NumNixies <= Len(Rest(s, f))
    BY <1>1, <1>2, <1>5, <2>1
  <2> QED
    BY <2>1, <2>4, <2>5, ParseOfPrefix DEF ValueAt
<1> QED
  BY <1>3, <1>4, <1>5 DEF FirstAt, w
-----------------------------------------------------------------------------
(* A fragment arrives.  What is kept of the page so far is its end, from b *)
(* on; the first token of the page and the fragment is not before it.      *)
R == L + NumNixies

EndOfPage(b) ==
  /\ cyclic_buffer \in Bytes /\ page \in Bytes
  /\ Piece(cyclic_buffer, page, b)
  /\ b + Len(cyclic_buffer) = Len(page) /\ Len(cyclic_buffer) <= R

NoneBefore(w, b) == \A k : Piece(Token, w, k) => b <= k

LEMMA Lengths ==
  ASSUME NEW b, EndOfPage(b), NEW buffer \in Bytes
  PROVE  /\ b \in Nat /\ Len(cyclic_buffer) \in Nat /\ Len(page) \in Nat
         /\ Len(buffer) \in Nat
         /\ page \o buffer \in Bytes
         /\ Len(page \o buffer) = Len(page) + Len(buffer)
         /\ Piece(page, page \o buffer, 0)
         /\ Piece(cyclic_buffer, page \o buffer, b)
         /\ Piece(buffer, page \o buffer, Len(page))
         /\ L \in Nat \ {0} /\ NumNixies \in Nat \ {0} /\ R = L + NumNixies
         /\ Token \in Bytes
         /\ Parser!required_len = R /\ Parser!max_cyclic_buffer_len = 2 * R
<1>1. /\ cyclic_buffer \in Bytes /\ page \in Bytes
      /\ Piece(cyclic_buffer, page, b)
  BY DEF EndOfPage
<1>2. /\ b \in Nat /\ Len(cyclic_buffer) \in Nat /\ Len(page) \in Nat
      /\ Len(buffer) \in Nat
  BY <1>1, Length DEF Piece
<1>3. /\ page \o buffer \in Bytes
      /\ Len(page \o buffer) = Len(page) + Len(buffer)
      /\ Piece(page, page \o buffer, 0)
      /\ Piece(buffer, page \o buffer, Len(page))
  BY <1>1, Glue
<1>4. Piece(cyclic_buffer, page \o buffer, 0 + b)
  BY <1>1, <1>3, PieceOfPiece
<1>5. 0 + b = b
  BY <1>2
<1>6. Piece(cyclic_buffer, page \o buffer, b)
  BY <1>4, <1>5
<1> QED
  BY <1>2, <1>3, <1>6, Constants DEF R

\* As much of the fragment is appended as the cyclic buffer takes.
LEMMA Gluing ==
  ASSUME NEW b, EndOfPage(b), NEW buffer \in Bytes
  PROVE  LET g == Parser!Glued(buffer)
             n == Parser!append_suffix_len(buffer)
         IN  /\ g \in Bytes /\ Len(g) = Len(cyclic_buffer) + n
             /\ Piece(g, page \o buffer, b) /\ Piece(cyclic_buffer, g, 0)
             /\ n \in Nat /\ n <= Len(buffer)
             /\ n = Len(buffer) \/ Len(cyclic_buffer) + n = 2 * R
<1> DEFINE n == Parser!append_suffix_len(buffer)
           a == Parser!First(buffer, n)
           w == page \o buffer
<1>1. cyclic_buffer \in Bytes /\ page \in Bytes /\ Len(cyclic_buffer) <= R
      /\ b + Len(cyclic_buffer) = Len(page)
  BY DEF EndOfPage
<1>2. /\ b \in Nat /\ Len(cyclic_buffer) \in Nat /\ Len(page) \in Nat
      /\ Len(buffer) \in Nat /\ w \in Bytes
      /\ Piece(cyclic_buffer, w, b) /\ Piece(buffer, w, Len(page))
      /\ R \in Nat /\ Parser!max_cyclic_buffer_len = 2 * R
  BY Lengths
<1>3. n = IF Len(buffer) < 2 * R - Len(cyclic_buffer)
          THEN Len(buffer) ELSE 2 * R - Len(cyclic_buffer)
  BY <1>2 DEF Parser!append_suffix_len, Parser!min_zz
<1> HIDE DEF n, w
<1>4. /\ n \in Nat /\ n <= Len(buffer)
      /\ n = Len(buffer) \/ Len(cyclic_buffer) + n = 2 * R
  BY <1>1, <1>2, <1>3
<1>5. a \in Bytes /\ Len(a) = n /\ Piece(a, buffer, 0)
  <2>1. /\ Len(a) = Parser!min_zz(n, Len(buffer)) /\ a \in Bytes
        /\ Piece(a, buffer, 0)
    BY <1>4, FirstPiece
  <2>2. Parser!min_zz(n, Len(buffer)) = n
    BY <1>2, <1>4 DEF Parser!min_zz
  <2> QED
    BY <2>1, <2>2
<1> HIDE DEF a
<1>6. Piece(a, w, b + Len(cyclic_buffer))
  <2>1. Piece(a, w, Len(page) + 0)
    BY <1>2, <1>5, PieceOfPiece
  <2>2. Len(page) + 0 = b + Len(cyclic_buffer)
    BY <1>1, <1>2
  <2> QED
    BY <2>1, <2>2
<1>7. Piece(cyclic_buffer \o a, w, b)
  BY <1>1, <1>2, <1>5, <1>6, Adjacent
<1>8. /\ cyclic_buffer \o a \in Bytes
      /\ Len(cyclic_buffer \o a) = Len(cyclic_buffer) + n
      /\ Piece(cyclic_buffer, cyclic_buffer \o a, 0)
  BY <1>1, <1>5, Glue
<1>9. Parser!Glued(buffer) = cyclic_buffer \o a
  BY DEF Parser!Glued, a, n
<1> DEFINE g == Parser!Glued(buffer)
<1>10. /\ g \in Bytes /\ Len(g) = Len(cyclic_buffer) + n
       /\ Piece(g, w, b) /\ Piece(cyclic_buffer, g, 0)
  BY <1>7, <1>8, <1>9
<1> HIDE DEF g
<1> QED
  BY <1>4, <1>10 DEF g, n, w

\* A token in what is glued is the first one of the page.
LEMMA FirstInGlued ==
  ASSUME NEW b, EndOfPage(b), NEW buffer \in Bytes, NEW p,
         NoneBefore(page \o buffer, b), FirstAt(Parser!Glued(buffer), p)
  PROVE  FirstAt(page \o buffer, b + p)
<1> DEFINE g == Parser!Glued(buffer)
           w == page \o buffer
<1>1. /\ b \in Nat /\ w \in Bytes /\ Token \in Bytes /\ L \in Nat \ {0}
  BY Lengths
<1>2. g \in Bytes /\ Piece(g, w, b) /\ Len(g) \in Nat
  BY Gluing, Length
<1>3. FirstAt(g, p) /\ NoneBefore(w, b)
  OBVIOUS
<1> HIDE DEF g, w
<1>4. Piece(Token, g, p) /\ p \in Nat /\ p + L <= Len(g)
  BY <1>3 DEF FirstAt, Piece, L
<1>5. Piece(Token, w, b + p)
  BY <1>1, <1>2, <1>4, PieceOfPiece
<1>6. ASSUME NEW k, Piece(Token, w, k) PROVE b + p <= k
  <2> SUFFICES ASSUME ~(b + p <= k) PROVE FALSE
    OBVIOUS
  <2>1. k \in Nat /\ b <= k
    BY <1>3, <1>6 DEF NoneBefore, Piece
  <2>2. k + L <= b + Len(g)
    BY <1>1, <1>2, <1>4, <2>1
  <2>3. Piece(Token, g, k - b)
    BY <1>1, <1>2, <1>6, <2>1, <2>2, PieceWithin DEF L
  <2>4. p <= k - b
    BY <1>3, <2>3 DEF FirstAt
  <2> QED
    BY <1>1, <1>4, <2>1, <2>4
<1>7. FirstAt(w, b + p)
  BY <1>5, <1>6 DEF FirstAt
<1> QED
  BY <1>7 DEF w

\* If it is not in what is glued, it is not before the fragment.
LEMMA NotInGlued ==
  ASSUME NEW b, EndOfPage(b), NEW buffer \in Bytes,
         NoneBefore(page \o buffer, b), NowhereIn(Parser!Glued(buffer))
  PROVE  NoneBefore(page \o buffer, Len(page))
<1> DEFINE g == Parser!Glued(buffer)
           w == page \o buffer
           n == Parser!append_suffix_len(buffer)
<1>1. /\ b \in Nat /\ w \in Bytes /\ Token \in Bytes /\ L \in Nat \ {0}
      /\ NumNixies \in Nat \ {0} /\ R = L + NumNixies
      /\ Len(cyclic_buffer) \in Nat /\ Len(page) \in Nat /\ Len(buffer) \in Nat
      /\ Len(w) = Len(page) + Len(buffer)
  BY Lengths
<1>2. b + Len(cyclic_buffer) = Len(page) /\ Len(cyclic_buffer) <= R
  BY DEF EndOfPage
<1>3. /\ g \in Bytes /\ Piece(g, w, b) /\ Len(g) = Len(cyclic_buffer) + n
      /\ n \in Nat
      /\ n = Len(buffer) \/ Len(cyclic_buffer) + n = 2 * R
  BY Gluing
<1>4. NoneBefore(w, b) /\ NowhereIn(g)
  OBVIOUS
<1> HIDE DEF g, w, n
<1>5. ASSUME NEW k, Piece(Token, w, k) PROVE Len(page) <= k
  <2> SUFFICES ASSUME ~(Len(page) <= k) PROVE FALSE
    OBVIOUS
  <2>1. k \in Nat /\ b <= k /\ k + L <= Len(w)
    BY <1>4, <1>5 DEF NoneBefore, Piece, L
  <2>2. k + L <= b + Len(g)
    BY <1>1, <1>2, <1>3, <2>1
  <2>3. Piece(Token, g, k - b)
    BY <1>1, <1>3, <1>5, <2>1, <2>2, PieceWithin DEF L
  <2> QED
    BY <1>4, <2>3 DEF NowhereIn
<1> QED
  BY <1>5 DEF NoneBefore, w

\* Then the first token of the fragment is the first one of the page.
LEMMA FirstInFragment ==
  ASSUME NEW b, EndOfPage(b), NEW buffer \in Bytes,
         NoneBefore(page \o buffer, Len(page))
  PROVE  /\ \A p : FirstAt(buffer, p) => FirstAt(page \o buffer, Len(page) + p)
         /\ NowhereIn(buffer) => NowhereIn(page \o buffer)
<1> DEFINE w == page \o buffer
<1>1. /\ w \in Bytes /\ Token \in Bytes /\ L \in Nat \ {0}
      /\ Len(page) \in Nat /\ Len(buffer) \in Nat
      /\ Len(w) = Len(page) + Len(buffer) /\ Piece(buffer, w, Len(page))
  BY Lengths
<1>2. NoneBefore(w, Len(page))
  OBVIOUS
<1> HIDE DEF w
<1>3. ASSUME NEW k, Piece(Token, w, k)
      PROVE  k \in Nat /\ Len(page) <= k /\ Piece(Token, buffer, k - Len(page))
  <2>1. k \in Nat /\ Len(page) <= k /\ k + L <= Len(page) + Len(buffer)
    BY <1>1, <1>2, <1>3 DEF NoneBefore, Piece, L
  <2> QED
    BY <1>1, <1>3, <2>1, PieceWithin DEF L
<1>4. ASSUME NEW p, FirstAt(buffer, p) PROVE FirstAt(w, Len(page) + p)
  <2>1. p \in Nat /\ Piece(Token, buffer, p)
    BY <1>4 DEF FirstAt, Piece
  <2>2. Piece(Token, w, Len(page) + p)
    BY <1>1, <2>1, PieceOfPiece
  <2>3. ASSUME NEW k, Piece(Token, w, k) PROVE Len(page) + p <= k
    <3>1. p <= k - Len(page) /\ k \in Nat
      BY <1>3, <1>4, <2>3 DEF FirstAt
    <3> QED
      BY <1>1, <2>1, <3>1
  <2> QED
    BY <2>2, <2>3 DEF FirstAt
<1>5. NowhereIn(buffer) => NowhereIn(w)
  BY <1>3 DEF NowhereIn
<1> QED
  BY <1>4, <1>5 DEF w

\* What is known while the value is not parsed: no token yet, and the end of
\* the page is kept; or all of the page from its first token on is.
NoneYet(b) ==
  /\ EndOfPage(b) /\ NowhereIn(page)
  /\ b = 0 \/ Len(cyclic_buffer) = R

Started(b) ==
  /\ EndOfPage(b) /\ FirstAt(page, b)
  /\ Len(cyclic_buffer) < R

Holds == \E b : NoneYet(b) \/ Started(b)

LEMMA BeforeIsSearched ==
  ASSUME NEW b, NoneYet(b) \/ Started(b), NEW buffer \in Bytes
  PROVE  NoneBefore(page \o buffer, b)
<1> DEFINE w == page \o buffer
<1>1. EndOfPage(b) /\ b + Len(cyclic_buffer) = Len(page) /\ page \in Bytes
  BY DEF NoneYet, Started, EndOfPage
<1>2. /\ b \in Nat /\ w \in Bytes /\ Token \in Bytes /\ L \in Nat \ {0}
      /\ NumNixies \in Nat \ {0} /\ R = L + NumNixies
      /\ Len(cyclic_buffer) \in Nat /\ Len(page) \in Nat
      /\ Piece(page, w, 0)
  BY <1>1, Lengths
<1> HIDE DEF w
<1>3. ASSUME NEW k, Piece(Token, w, k), k + L <= Len(page)
      PROVE  Piece(Token, page, k)
  <2>1. k \in Nat /\ 0 <= k /\ k + L <= 0 + Len(page) /\ k - 0 = k
    BY <1>2, <1>3 DEF Piece
  <2> QED
    BY <1>1, <1>2, <1>3, <2>1, PieceWithin DEF L
<1>4. ASSUME NEW k, Piece(Token, w, k) PROVE b <= k
  <2> SUFFICES ASSUME ~(b <= k) PROVE FALSE
    OBVIOUS
  <2>1. k \in Nat
    BY <1>4 DEF Piece
  <2>2. CASE NoneYet(b)
    <3>1. Len(cyclic_buffer) = R
      BY <1>2, <2>1, <2>2 DEF NoneYet
    <3>2. k + L <= Len(page)
      BY <1>1, <1>2, <2>1, <3>1
    <3> QED
      BY <1>3, <1>4, <2>2, <3>2 DEF NoneYet, NowhereIn
  <2>3. CASE Started(b)
    <3>1. Piece(Token, page, b) /\ b + L <= Len(page)
      BY <2>3 DEF Started, FirstAt, Piece, L
    <3>2. k + L <= Len(page)
      BY <1>1, <1>2, <2>1, <3>1
    <3>3. Piece(Token, page, k)
      BY <1>3, <1>4, <3>2
    <3> QED
      BY <2>3, <3>3 DEF Started, FirstAt
  <2> QED
    BY <2>2, <2>3
<1> QED
  BY <1>4 DEF NoneBefore, w

\* What TokenInCyclicBuffer moves to the beginning: all of the page from the
\* token on, as far as there is room.
LEMMA Moving ==
  ASSUME NEW b, EndOfPage(b), NEW buffer \in Bytes, NEW p,
         FirstAt(Parser!Glued(buffer), p)
  PROVE  LET m == Parser!Moved(buffer)
         IN  /\ m \in Bytes /\ Piece(m, page \o buffer, b + p)
             /\ b + p + Len(m) = Len(page \o buffer) \/ R <= Len(m)
             /\ L <= Len(m)
<1> DEFINE g == Parser!Glued(buffer)
           w == page \o buffer
           n == Parser!append_suffix_len(buffer)
           d == Parser!Drop(g, p)
           e == Parser!Drop(buffer, n)
           a == Parser!First(e, p)
<1>1. /\ b \in Nat /\ w \in Bytes /\ L \in Nat \ {0}
      /\ NumNixies \in Nat \ {0} /\ R = L + NumNixies
      /\ Len(cyclic_buffer) \in Nat /\ Len(page) \in Nat /\ Len(buffer) \in Nat
      /\ Len(w) = Len(page) + Len(buffer) /\ Piece(buffer, w, Len(page))
  BY Lengths
<1>2. b + Len(cyclic_buffer) = Len(page) /\ Len(cyclic_buffer) <= R
  BY DEF EndOfPage
<1>3. /\ g \in Bytes /\ Piece(g, w, b) /\ Len(g) = Len(cyclic_buffer) + n
      /\ n \in Nat /\ n <= Len(buffer)
      /\ n = Len(buffer) \/ Len(cyclic_buffer) + n = 2 * R
  BY Gluing
<1>4. Parser!Moved(buffer) = d \o a
  <2>1. Parser!strstr_len(g) = p
    BY <1>3, FirstIsMin
  <2> QED
    BY <2>1 DEF Parser!Moved
<1>5. p \in Nat /\ p + L <= Len(g)
  BY DEF FirstAt, Piece, L
<1> HIDE DEF g, w, n
<1>6. d \in Bytes /\ Len(d) = Len(g) - p /\ Piece(d, g, p)
  <2>1. p <= Len(g)
    BY <1>1, <1>3, <1>5
  <2> QED
    BY <1>3, <1>5, <2>1, DropPiece
<1>7. e \in Bytes /\ Len(e) = Len(buffer) - n /\ Piece(e, buffer, n)
  BY <1>3, DropPiece
<1> HIDE DEF d, e
<1>8. /\ a \in Bytes /\ Piece(a, e, 0)
      /\ Len(a) = Parser!min_zz(p, Len(e))
  BY <1>5, <1>7, FirstPiece
<1>9. Len(a) = IF p < Len(e) THEN p ELSE Len(e)
  BY <1>8 DEF Parser!min_zz
<1> HIDE DEF a
<1>10. Piece(d, w, b + p)
  BY <1>1, <1>3, <1>6, PieceOfPiece
<1>11. Piece(a, w, b + p + Len(d))
  <2>1. Piece(a, buffer, n + 0)
    BY <1>7, <1>8, PieceOfPiece
  <2>2. Piece(a, w, Len(page) + (n + 0))
    BY <1>1, <1>8, <2>1, PieceOfPiece
  <2>3. Len(page) + (n + 0) = b + p + Len(d)
    BY <1>1, <1>2, <1>3, <1>5, <1>6
  <2> QED
    BY <2>2, <2>3
<1>12. Piece(d \o a, w, b + p)
  BY <1>1, <1>6, <1>8, <1>10, <1>11, Adjacent
<1>13. d \o a \in Bytes /\ Len(d \o a) = Len(d) + Len(a)
  BY <1>6, <1>8, Glue
<1>14. /\ b + p + (Len(d) + Len(a)) = Len(w) \/ R <= Len(d) + Len(a)
       /\ L <= Len(d) + Len(a)
  <2>1. Len(a) \in Nat /\ Len(d) \in Nat /\ Len(e) \in Nat /\ Len(g) \in Nat
    BY <1>3, <1>6, <1>7, <1>8, Length
  <2>2. L <= Len(d)
    BY <1>1, <1>5, <1>6, <2>1
  <2>3. /\ b + p + Len(d) + Len(buffer) = Len(w) + n
        /\ L <= Len(d) + Len(a)
    <3>1. /\ b \in Nat /\ p \in Nat /\ n \in Nat /\ L \in Nat
          /\ Len(cyclic_buffer) \in Nat /\ Len(page) \in Nat
          /\ Len(buffer) \in Nat /\ Len(w) = Len(page) + Len(buffer)
      BY <1>1, <1>3, <1>5
    <3>2. Len(d) = Len(cyclic_buffer) + n - p
      BY <1>3, <1>6, <2>1, <3>1
    <3> QED
      BY <1>2, <2>1, <2>2, <3>1, <3>2
  <2>4. /\ b \in Nat /\ p \in Nat /\ n \in Nat /\ Len(buffer) \in Nat
        /\ Len(w) \in Nat
    BY <1>1, <1>3, <1>5
  <2>5. CASE n = Len(buffer)
    <3>1. Len(e) = 0
      BY <1>7, <2>4, <2>5
    <3>2. Len(a) = 0
      BY <1>9, <2>4, <3>1
    <3> QED
      BY <2>1, <2>3, <2>4, <2>5, <3>2
  <2>6. CASE Len(cyclic_buffer) + n = 2 * R
    <3>1. CASE p < Len(e)
      <4>1. Len(d) + Len(a) = 2 * R
        BY <1>1, <1>3, <1>5, <1>6, <1>9, <2>1, <2>6, <3>1
      <4> QED
        BY <1>1, <4>1
    <3>2. CASE ~(p < Len(e))
      <4>1. Len(a) = Len(buffer) - n
        BY <1>7, <1>9, <3>2
      <4>2. b + p + (Len(d) + Len(a)) = Len(w)
        BY <2>1, <2>3, <2>4, <4>1
      <4> QED
        BY <1>1, <2>1, <2>2, <4>2
    <3> QED
      BY <3>1, <3>2
  <2> QED
    BY <1>3, <2>5, <2>6
<1>15. /\ d \o a \in Bytes /\ Piece(d \o a, w, b + p)
       /\ b + p + Len(d \o a) = Len(w) \/ R <= Len(d \o a)
       /\ L <= Len(d \o a)
  BY <1>12, <1>13, <1>14
<1> QED
  BY <1>4, <1>15 DEF w

\* What NoToken keeps: the end of the page.
LEMMA Keeping ==
  ASSUME NEW b, NoneYet(b), NEW buffer \in Bytes
  PROVE  LET k == Parser!Kept(buffer)
         IN  /\ k \in Bytes /\ Len(k) <= R
             /\ Len(k) <= Len(page \o buffer)
             /\ Piece(k, page \o buffer, Len(page \o buffer) - Len(k))
             /\ Len(k) = Len(page \o buffer) \/ Len(k) = R
<1> DEFINE w == page \o buffer
           new == Parser!Last(buffer, R)
           old == Parser!Last(cyclic_buffer, R - Len(new))
<1>1. /\ EndOfPage(b) /\ b + Len(cyclic_buffer) = Len(page)
      /\ Len(cyclic_buffer) <= R /\ cyclic_buffer \in Bytes
      /\ b = 0 \/ Len(cyclic_buffer) = R
  BY DEF NoneYet, EndOfPage
<1>2. /\ b \in Nat /\ w \in Bytes /\ R \in Nat
      /\ Len(cyclic_buffer) \in Nat /\ Len(page) \in Nat /\ Len(buffer) \in Nat
      /\ Len(w) = Len(page) + Len(buffer)
      /\ Piece(buffer, w, Len(page)) /\ Piece(cyclic_buffer, w, b)
      /\ Parser!required_len = R
  BY <1>1, Lengths
<1> HIDE DEF w
<1>3. /\ new \in Bytes /\ Len(new) = Parser!min_zz(R, Len(buffer))
      /\ Piece(new, buffer, Len(buffer) - Len(new))
  BY <1>2, LastPiece
<1>4. /\ Len(new) = (IF R < Len(buffer) THEN R ELSE Len(buffer))
      /\ Len(new) \in Nat /\ R - Len(new) \in Nat
  BY <1>2, <1>3 DEF Parser!min_zz
<1> HIDE DEF new
<1>5. /\ old \in Bytes
      /\ Len(old) = Parser!min_zz(R - Len(new), Len(cyclic_buffer))
      /\ Piece(old, cyclic_buffer, Len(cyclic_buffer) - Len(old))
  BY <1>1, <1>4, LastPiece
<1>6. /\ Len(old) = (IF R - Len(new) < Len(cyclic_buffer)
                     THEN R - Len(new) ELSE Len(cyclic_buffer))
      /\ Len(old) \in Nat /\ Len(old) <= Len(cyclic_buffer)
  BY <1>2, <1>4, <1>5 DEF Parser!min_zz
<1> HIDE DEF old
<1> DEFINE at == Len(w) - (Len(old) + Len(new))
<1>7. /\ at \in Nat /\ at + Len(old) = Len(w) - Len(new)
      /\ at + Len(old) <= Len(w)
  <2>1. Len(new) <= Len(buffer) /\ Len(cyclic_buffer) <= Len(page)
    BY <1>1, <1>2, <1>4
  <2>2. Len(old) + Len(new) <= Len(w) /\ Len(w) \in Nat
    <3>1. Len(old) <= Len(page) /\ Len(old) \in Nat
      BY <1>2, <1>6, <2>1
    <3>2. Len(w) = Len(page) + Len(buffer) /\ Len(page) \in Nat
          /\ Len(buffer) \in Nat /\ Len(new) \in Nat
      BY <1>2, <1>4
    <3>3. Len(old) + Len(new) <= Len(page) + Len(buffer)
      BY <2>1, <3>1, <3>2
    <3> QED
      BY <3>2, <3>3
  <2> QED
    BY <1>4, <1>6, <2>2
<1>8. Piece(new, w, at + Len(old))
  <2>1. Piece(new, w, Len(page) + (Len(buffer) - Len(new)))
    BY <1>2, <1>3, PieceOfPiece
  <2>2. Len(page) + (Len(buffer) - Len(new)) = at + Len(old)
    BY <1>2, <1>4, <1>7
  <2> QED
    BY <2>1, <2>2
<1>9. Piece(old, w, at)
  <2>1. CASE Len(new) = R
    <3>1. Len(old) = 0 /\ 1..Len(old) = {}
      BY <1>2, <1>4, <1>6, <2>1
    <3> QED
      BY <1>7, <3>1 DEF Piece
  <2>2. CASE Len(new) = Len(buffer)
    <3>1. Piece(old, w, b + (Len(cyclic_buffer) - Len(old)))
      BY <1>1, <1>2, <1>5, PieceOfPiece
    <3>2. b + (Len(cyclic_buffer) - Len(old)) = at
      BY <1>1, <1>2, <1>6, <2>2
    <3> QED
      BY <3>1, <3>2
  <2> QED
    BY <1>4, <2>1, <2>2
<1> HIDE DEF at
<1>10. Piece(old \o new, w, at)
  BY <1>2, <1>3, <1>5, <1>8, <1>9, Adjacent
<1>11. old \o new \in Bytes /\ Len(old \o new) = Len(old) + Len(new)
  BY <1>3, <1>5, Glue
<1>12. /\ Len(old) + Len(new) <= R /\ Len(old) + Len(new) <= Len(w)
       /\ Len(old) + Len(new) = Len(w) \/ Len(old) + Len(new) = R
  <2>1. CASE R - Len(new) < Len(cyclic_buffer)
    BY <1>1, <1>2, <1>4, <1>6, <2>1
  <2>2. CASE ~(R - Len(new) < Len(cyclic_buffer))
    <3>1. Len(old) = Len(cyclic_buffer) /\ Len(cyclic_buffer) + Len(new) <= R
      BY <1>2, <1>4, <1>6, <2>2
    <3>2. CASE Len(cyclic_buffer) = R
      BY <1>1, <1>2, <1>4, <3>1, <3>2
    <3>3. CASE b = 0
      BY <1>1, <1>2, <1>4, <3>1, <3>3
    <3> QED
      BY <1>1, <3>2, <3>3
  <2> QED
    BY <2>1, <2>2
<1>13. Parser!Kept(buffer) = old \o new
  BY <1>2 DEF Parser!Kept, old, new
<1>14. /\ old \o new \in Bytes /\ Len(old \o new) <= R
       /\ Len(old \o new) <= Len(w)
       /\ Piece(old \o new, w, Len(w) - Len(old \o new))
       /\ Len(old \o new) = Len(w) \/ Len(old \o new) = R
  BY <1>10, <1>11, <1>12 DEF at
<1> QED
  BY <1>13, <1>14 DEF w
-----------------------------------------------------------------------------
(* The invariant of the page.                                              *)
Found(f) == FirstAt(page, f) /\ parsed_value = ValueAt(page, f)

PageInv ==
  /\ nixie_state \in Parser!State
  /\ cyclic_buffer \in Bytes /\ page \in Bytes
  /\ nixie_state = "waiting" /\ ~is_value_parsed => Holds
  /\ nixie_state = "waiting" /\ is_value_parsed =>
       \E f : Found(f) /\ f + R <= Len(page)
  /\ nixie_state = "shuffle" => is_value_parsed /\ \E f : Found(f)
  /\ nixie_state = "display" =>
       \E f : /\ FirstAt(page, f)
              /\ parsed_value = Parser!Shuffled(ValueAt(page, f))
  /\ nixie_state = "idle" => NowhereIn(page)

LEMMA EmptyPage ==
  /\ <<>> \in Bytes /\ NowhereIn(<<>>)
  /\ cyclic_buffer = <<>> /\ page = <<>> => NoneYet(0)
<1>1. <<>> \in Bytes /\ Len(<<>>) = 0
  BY EmptySeq DEF Bytes
<1>2. L \in Nat \ {0} /\ NumNixies \in Nat \ {0} /\ R \in Nat
  BY Constants DEF R
<1>3. NowhereIn(<<>>)
  <2> SUFFICES ASSUME NEW k, Piece(Token, <<>>, k) PROVE FALSE
    BY DEF NowhereIn
  <2>1. k \in Nat /\ k + L <= 0
    BY <1>1 DEF Piece, L
  <2> QED
    BY <1>2, <2>1
<1>4. Piece(<<>>, <<>>, 0)
  BY <1>1 DEF Piece
<1>5. cyclic_buffer = <<>> /\ page = <<>> => NoneYet(0)
  <2> SUFFICES ASSUME cyclic_buffer = <<>>, page = <<>> PROVE NoneYet(0)
    OBVIOUS
  <2>1. 0 + Len(<<>>) = Len(<<>>) /\ Len(<<>>) <= R
    BY <1>1, <1>2
  <2> QED
    BY <1>1, <1>3, <1>4, <2>1 DEF NoneYet, EndOfPage
<1> QED
  BY <1>1, <1>3, <1>5

\* A fragment, while the value is not parsed.
LEMMA SearchStep ==
  ASSUME NEW buffer \in Bytes, Holds, ~is_value_parsed,
         Parser!bufferReceivedCallback(buffer), page' = page \o buffer
  PROVE  /\ cyclic_buffer' \in Bytes /\ page' \in Bytes
         /\ ~is_value_parsed' => Holds'
         /\ is_value_parsed' => (\E f : Found(f) /\ f + R <= Len(page))'
<1>1. PICK b : NoneYet(b) \/ Started(b)
  BY DEF Holds
<1> DEFINE w == page \o buffer
<1>2. EndOfPage(b)
  BY <1>1 DEF NoneYet, Started
<1>3. /\ b \in Nat /\ w \in Bytes /\ L \in Nat \ {0} /\ Token \in Bytes
      /\ NumNixies \in Nat \ {0} /\ R = L + NumNixies
      /\ Len(page) \in Nat /\ Len(buffer) \in Nat /\ cyclic_buffer \in Bytes
      /\ Piece(buffer, w, Len(page)) /\ Len(w) = Len(page) + Len(buffer)
      /\ Parser!required_len = R
  BY <1>2, Lengths DEF EndOfPage
<1>4. NoneBefore(w, b)
  BY <1>1, BeforeIsSearched
<1>5. page' = w
  OBVIOUS
<1>6. Parser!Glued(buffer) \in Bytes
  BY <1>2, Gluing
<1> HIDE DEF w
\* A piece of the page that begins with its first token is kept or parsed.
<1>7. ASSUME NEW m \in Bytes, NEW f, FirstAt(w, f), Piece(m, w, f),
             f + Len(m) = Len(w) \/ R <= Len(m), L <= Len(m),
             IF Len(m) < R
             THEN cyclic_buffer' = m /\ is_value_parsed' = is_value_parsed
             ELSE Parser!Parse(Parser!Drop(m, L)),
             cyclic_buffer' \in Bytes
      PROVE  /\ ~is_value_parsed' => Holds'
             /\ is_value_parsed' => (\E g : Found(g) /\ g + R <= Len(page))'
  <2>1. Len(m) \in Nat /\ Len(w) \in Nat /\ f + Len(m) <= Len(w) /\ f \in Nat
    BY <1>3, <1>7, Length DEF Piece
  <2>2. CASE Len(m) < R
    <3>1. cyclic_buffer' = m /\ ~is_value_parsed' /\ f + Len(m) = Len(w)
      BY <1>3, <1>7, <2>1, <2>2
    <3>2. EndOfPage(f)'
      BY <1>3, <1>5, <1>7, <2>1, <2>2, <3>1 DEF EndOfPage
    <3>3. Started(f)'
      BY <1>5, <1>7, <2>2, <3>1, <3>2 DEF Started
    <3> QED
      BY <3>1, <3>3 DEF Holds
  <2>3. CASE ~(Len(m) < R)
    <3>1. /\ parsed_value' = Parser!parseValueFromBuffer(Parser!Drop(m, L))
          /\ is_value_parsed'
      BY <1>7, <2>3 DEF Parser!Parse
    <3>2. L + NumNixies <= Len(m) /\ R <= Len(m)
      BY <1>3, <2>1, <2>3
    <3>3. parsed_value' = ValueAt(w, f)
      BY <1>3, <1>7, <3>1, <3>2, ParsedBehindToken DEF FirstAt
    <3>4. f + R <= Len(w)
      BY <1>3, <2>1, <3>2
    <3> QED
      BY <1>5, <1>7, <3>1, <3>3, <3>4 DEF Found
  <2> QED
    BY <2>2, <2>3
<1>8. CASE Parser!TokenInCyclicBuffer(buffer)
  <2> DEFINE p == Parser!strstr_len(Parser!Glued(buffer))
             m == Parser!Moved(buffer)
  <2>1. FirstAt(Parser!Glued(buffer), p)
    BY <1>6, <1>8, FirstIsMin DEF Parser!TokenInCyclicBuffer
  <2> HIDE DEF p
  <2>2. FirstAt(w, b + p)
    BY <1>2, <1>4, <2>1, FirstInGlued DEF w
  <2>3. /\ m \in Bytes /\ Piece(m, w, b + p)
        /\ b + p + Len(m) = Len(w) \/ R <= Len(m)
        /\ L <= Len(m)
    BY <1>2, <2>1, Moving DEF w
  <2>4. /\ cyclic_buffer' = m
        /\ IF Len(m) < R
           THEN cyclic_buffer' = m /\ is_value_parsed' = is_value_parsed
           ELSE Parser!Parse(Parser!Drop(m, L))
    BY <1>3, <1>8 DEF Parser!TokenInCyclicBuffer, L
  <2> HIDE DEF m
  <2> QED
    BY <1>3, <1>5, <1>7, <2>2, <2>3, <2>4
<1>9. CASE Parser!TokenInFragment(buffer)
  <2> DEFINE p == Parser!strstr_len(buffer)
             m == Parser!Drop(buffer, p)
  <2>1. FirstAt(buffer, p) /\ NowhereIn(Parser!Glued(buffer))
    BY <1>6, <1>9, FirstIsMin DEF Parser!TokenInFragment
  <2>2. /\ Parser!TokenInFragment(buffer)
        /\ IF Len(m) < R
           THEN cyclic_buffer' = m /\ is_value_parsed' = is_value_parsed
           ELSE Parser!Parse(Parser!Drop(m, L)) /\ cyclic_buffer' = cyclic_buffer
    <3>1. IF Len(m) >= R
          THEN Parser!Parse(Parser!Drop(m, L)) /\ cyclic_buffer' = cyclic_buffer
          ELSE cyclic_buffer' = m /\ is_value_parsed' = is_value_parsed
      BY <1>3, <1>9 DEF Parser!TokenInFragment, L
    <3>2. p \in Nat /\ p <= Len(buffer)
      BY <1>3, <2>1 DEF FirstAt, Piece, L
    <3>3. Len(m) \in Nat /\ R \in Nat
      BY <1>3, <3>2, DropPiece
    <3> QED
      BY <1>9, <3>1, <3>3
  <2> HIDE DEF p
  <2>3. NoneBefore(w, Len(page))
    BY <1>2, <1>4, <2>1, NotInGlued DEF w
  <2>4. FirstAt(w, Len(page) + p)
    BY <1>2, <2>1, <2>3, FirstInFragment DEF w
  <2>5. p \in Nat /\ p + L <= Len(buffer)
    BY <2>1 DEF FirstAt, Piece, L
  <2>6. m \in Bytes /\ Len(m) = Len(buffer) - p /\ Piece(m, buffer, p)
    <3>1. p <= Len(buffer)
      BY <1>3, <2>5
    <3> QED
      BY <2>5, <3>1, DropPiece
  <2> HIDE DEF m
  <2>7. Piece(m, w, Len(page) + p)
    BY <1>3, <2>6, PieceOfPiece
  <2>8. Len(page) + p + Len(m) = Len(w) /\ L <= Len(m)
    BY <1>3, <2>5, <2>6
  <2>9. cyclic_buffer' \in Bytes
    BY <1>3, <2>2, <2>6
  <2> QED
    BY <1>3, <1>5, <1>7, <2>2, <2>4, <2>6, <2>7, <2>8, <2>9
<1>10. CASE Parser!NoToken(buffer)
  <2>1. NowhereIn(Parser!Glued(buffer)) /\ NowhereIn(buffer)
    BY <1>6, <1>10, FirstIsMin DEF Parser!NoToken
  <2>2. NowhereIn(w)
    BY <1>2, <1>4, <2>1, NotInGlued, FirstInFragment DEF w
  <2>3. NoneYet(b)
    <3> SUFFICES ASSUME Started(b) PROVE FALSE
      BY <1>1
    <3>1. FirstAt(w, b)
      BY <1>2, StillFound DEF Started, EndOfPage, w
    <3> QED
      BY <2>2, <3>1 DEF FirstAt, NowhereIn
  <2> DEFINE k == Parser!Kept(buffer)
  <2>4. /\ k \in Bytes /\ Len(k) <= R /\ Len(k) <= Len(w)
        /\ Piece(k, w, Len(w) - Len(k))
        /\ Len(k) = Len(w) \/ Len(k) = R
    BY <2>3, Keeping DEF w
  <2>5. cyclic_buffer' = k /\ ~is_value_parsed'
    BY <1>10 DEF Parser!NoToken
  <2> HIDE DEF k
  <2>6. PICK o : o = Len(w) - Len(k)
    OBVIOUS
  <2>7. /\ o + Len(k) = Len(w) /\ Piece(k, w, o)
        /\ o = 0 \/ Len(k) = R
    BY <1>3, <2>4, <2>6, Length
  <2>8. EndOfPage(o)'
    BY <1>3, <1>5, <2>4, <2>5, <2>7 DEF EndOfPage
  <2>9. NoneYet(o)'
    BY <1>5, <2>2, <2>5, <2>7, <2>8 DEF NoneYet
  <2> QED
    BY <1>3, <1>5, <2>4, <2>5, <2>9 DEF Holds
<1> QED
  BY <1>8, <1>9, <1>10 DEF Parser!bufferReceivedCallback

LEMMA ReceiveKeeps ==
  ASSUME NEW buffer \in Bytes, PageInv, Parser!Receive(buffer)
  PROVE  PageInv'
<1>1. /\ nixie_state = "waiting" /\ nixie_state' = "waiting"
      /\ page' = page \o buffer /\ Parser!bufferReceivedCallback(buffer)
  BY DEF Parser!Receive
<1>2. cyclic_buffer \in Bytes /\ page \in Bytes
  BY DEF PageInv
<1>3. CASE ~is_value_parsed
  <2>1. Holds
    BY <1>1, <1>3 DEF PageInv
  <2>2. /\ cyclic_buffer' \in Bytes /\ page' \in Bytes
        /\ ~is_value_parsed' => Holds'
        /\ is_value_parsed' => (\E f : Found(f) /\ f + R <= Len(page))'
    BY <1>1, <1>3, <2>1, SearchStep
  <2> QED
    BY <1>1, <2>2 DEF PageInv, Parser!State
<1>4. CASE is_value_parsed
  <2>1. /\ is_value_parsed' /\ parsed_value' = parsed_value
        /\ cyclic_buffer' = cyclic_buffer
    BY <1>1, <1>4 DEF Parser!bufferReceivedCallback
  <2>2. PICK f : Found(f) /\ f + R <= Len(page)
    BY <1>1, <1>4 DEF PageInv
  <2>3. /\ page \o buffer \in Bytes
        /\ Len(page \o buffer) = Len(page) + Len(buffer)
        /\ Len(page) \in Nat /\ Len(buffer) \in Nat /\ f \in Nat /\ R \in Nat
        /\ L \in Nat /\ NumNixies \in Nat /\ R = L + NumNixies
    BY <1>2, <2>2, Glue, Length, Constants DEF Found, FirstAt, Piece, R
  <2>4. /\ FirstAt(page \o buffer, f)
        /\ ValueAt(page \o buffer, f) = ValueAt(page, f)
    <3>1. f + L + NumNixies <= Len(page)
      BY <2>2, <2>3
    <3> QED
      BY <1>2, <2>2, <3>1, StillFound DEF Found
  <2>5. f + R <= Len(page \o buffer)
    BY <2>2, <2>3
  <2>6. Found(f)' /\ (f + R <= Len(page))'
    BY <1>1, <2>1, <2>2, <2>4, <2>5 DEF Found
  <2> QED
    BY <1>1, <1>2, <2>1, <2>3, <2>6 DEF PageInv, Parser!State
<1> QED
  BY <1>3, <1>4

LEMMA RequestHandledKeeps ==
  ASSUME PageInv, Parser!requestHandledCallback
  PROVE  PageInv'
<1>1. /\ nixie_state = "waiting"
      /\ nixie_state' = (IF is_value_parsed' THEN "shuffle" ELSE "idle")
      /\ cyclic_buffer' = cyclic_buffer /\ page' = page
  BY DEF Parser!requestHandledCallback
<1>2. cyclic_buffer \in Bytes /\ page \in Bytes
  BY DEF PageInv
<1>3. CASE is_value_parsed
  <2>1. PICK f : Found(f)
    BY <1>1, <1>3 DEF PageInv
  <2>2. is_value_parsed' = is_value_parsed /\ parsed_value' = parsed_value
    BY <1>3 DEF Parser!requestHandledCallback
  <2>3. Found(f)'
    BY <1>1, <2>1, <2>2 DEF Found
  <2> QED
    BY <1>1, <1>2, <1>3, <2>2, <2>3 DEF PageInv, Parser!State
<1>4. CASE ~is_value_parsed
  <2>1. PICK b : NoneYet(b) \/ Started(b)
    BY <1>1, <1>4 DEF PageInv, Holds
  <2>2. /\ EndOfPage(b) /\ Piece(cyclic_buffer, page, b)
        /\ b + Len(cyclic_buffer) = Len(page)
    BY <2>1 DEF NoneYet, Started, EndOfPage
  <2>3. /\ b \in Nat /\ Len(cyclic_buffer) \in Nat /\ Len(page) \in Nat
        /\ L \in Nat \ {0} /\ Token \in Bytes /\ NumNixies \in Nat \ {0}
    BY <1>2, <2>2, Length, Constants DEF Piece
  <2>4. CASE Started(b)
    <3>1. FirstAt(page, b) /\ Piece(Token, page, b) /\ b + L <= Len(page)
      BY <2>4 DEF Started, FirstAt, Piece, L
    <3>2. Piece(Token, cyclic_buffer, 0)
      <4>1. b + L <= b + Len(cyclic_buffer) /\ b <= b /\ b - b = 0
        BY <2>2, <2>3, <3>1
      <4> QED
        BY <1>2, <2>2, <2>3, <3>1, <4>1, PieceWithin DEF L
    <3>3. Parser!Contains(cyclic_buffer)
      BY <1>2, <3>2, FirstIsMin DEF NowhereIn
    <3>4. /\ parsed_value' = Parser!parseValueFromBuffer(
                               Parser!Drop(cyclic_buffer, L))
          /\ is_value_parsed'
      BY <1>4, <3>3 DEF Parser!requestHandledCallback, Parser!Parse, L
    <3>5. L <= Len(cyclic_buffer)
      BY <2>2, <2>3, <3>1
    <3>6. parsed_value' = ValueAt(page, b)
      BY <1>2, <2>2, <3>1, <3>4, <3>5, ParsedBehindToken
    <3>7. Found(b)'
      BY <1>1, <3>1, <3>6 DEF Found
    <3> QED
      BY <1>1, <1>2, <3>4, <3>7 DEF PageInv, Parser!State
  <2>5. CASE NoneYet(b)
    <3>1. NowhereIn(page)
      BY <2>5 DEF NoneYet
    <3>2. ~Parser!Contains(cyclic_buffer)
      <4> SUFFICES ASSUME NEW k, Piece(Token, cyclic_buffer, k) PROVE FALSE
        BY <1>2, FirstIsMin DEF NowhereIn
      <4>1. Piece(Token, page, b + k)
        BY <1>2, <2>2, <2>3, PieceOfPiece
      <4> QED
        BY <3>1, <4>1 DEF NowhereIn
    <3>3. ~is_value_parsed'
      BY <1>4, <3>2 DEF Parser!requestHandledCallback
    <3> QED
      BY <1>1, <1>2, <3>1, <3>3 DEF PageInv, Parser!State
  <2> QED
    BY <2>1, <2>4, <2>5
<1> QED
  BY <1>3, <1>4

LEMMA PageStep ==
  ASSUME PageInv, Parser!Next
  PROVE  PageInv'
<1>1. cyclic_buffer \in Bytes /\ page \in Bytes
  BY DEF PageInv
<1>2. CASE Parser!waitHttpsClientAndSendRequest
  <2>1. /\ ~is_value_parsed' /\ cyclic_buffer' = <<>> /\ page' = <<>>
        /\ nixie_state' \in {"waiting", "error"}
    BY <1>2 DEF Parser!waitHttpsClientAndSendRequest
  <2>2. (cyclic_buffer = <<>> /\ page = <<>> => NoneYet(0))'
    BY EmptyPage, PTL
  <2>3. Holds'
    BY <2>1, <2>2 DEF Holds
  <2> QED
    BY <2>1, <2>3, EmptyPage DEF PageInv, Parser!State
<1>3. ASSUME NEW n \in FragmentSizes, NEW buffer \in [1 .. n -> Byte],
             Parser!Receive(buffer)
      PROVE  PageInv'
  <2>1. n \in Nat
    BY Constants
  <2>2. buffer \in Bytes
    BY <2>1, SeqDef DEF Bytes
  <2> QED
    BY <1>3, <2>2, ReceiveKeeps
<1>4. CASE Parser!requestHandledCallback
  BY <1>4, RequestHandledKeeps
<1>5. CASE Parser!errorCallback
  BY <1>1, <1>5 DEF Parser!errorCallback, PageInv, Parser!State
<1>6. CASE Parser!shuffleServerValueDigits
  <2>1. /\ nixie_state = "shuffle" /\ nixie_state' = "display"
        /\ parsed_value' = Parser!Shuffled(parsed_value)
        /\ cyclic_buffer' = cyclic_buffer /\ page' = page
    BY <1>6 DEF Parser!shuffleServerValueDigits
  <2>2. PICK f : FirstAt(page, f) /\ parsed_value = ValueAt(page, f)
    BY <2>1 DEF PageInv, Found
  <2>3. /\ FirstAt(page, f)'
        /\ parsed_value' = Parser!Shuffled(ValueAt(page', f))
    BY <2>1, <2>2
  <2> QED
    BY <1>1, <2>1, <2>3 DEF PageInv, Parser!State
<1> QED
  BY <1>2, <1>3, <1>4, <1>5, <1>6 DEF Parser!Next

PageInvOnPath == path = "page" => PageInv

LEMMA PageInvariance == Spec => []PageInvOnPath
<1>1. Init => PageInvOnPath
  <2> SUFFICES ASSUME Init PROVE PageInv
    BY DEF PageInvOnPath
  <2>1. nixie_state = "idle" /\ cyclic_buffer = <<>> /\ page = <<>>
    BY DEF Init, Parser!Init
  <2> QED
    BY <2>1, EmptyPage DEF PageInv, Parser!State
<1>2. PageInvOnPath /\ [Next]_vars => PageInvOnPath'
  <2> SUFFICES ASSUME PageInvOnPath, [Next]_vars, path' = "page"
               PROVE  PageInv'
    BY DEF PageInvOnPath
  <2>1. CASE ServerPage
    BY <2>1, PageStep DEF ServerPage, PageInvOnPath
  <2>2. CASE DisplayedValue \/ RequestUrl \/ IwSecurity
    BY <2>2 DEF DisplayedValue, RequestUrl, IwSecurity
  <2>3. CASE UNCHANGED vars
    BY <2>3 DEF vars, page_vars, PageInvOnPath, PageInv, Holds, NoneYet, Started,
                EndOfPage, Found
  <2> QED
    BY <2>1, <2>2, <2>3 DEF Next
<1> QED
  BY <1>1, <1>2, PTL DEF Spec

\* The number of the page, as the properties speak of it.
LEMMA NumberIs ==
  ASSUME page \in Bytes, NEW f, FirstAt(page, f)
  PROVE  LET n == Len(Parser!Number)
         IN  /\ Parser!Contains(page)
             /\ n = Parser!NumDigits(Rest(page, f))
             /\ n \in Nat /\ n <= NumNixies
             /\ \A i \in 1..n : /\ Parser!Number[i] = Rest(page, f)[i]
                                /\ Parser!Number[i] \in PageDigit
<1> DEFINE rest == Rest(page, f)
           d == Parser!NumDigits(rest)
           number == Parser!First(rest, d)
<1>1. Parser!Contains(page) /\ Parser!strstr_len(page) = f
  BY FirstIsMin
<1>2. Parser!Number = number
  BY <1>1 DEF Parser!Number, Rest, L
<1>3. rest \in Bytes
  BY RestPiece DEF FirstAt
<1> HIDE DEF rest
<1>4. /\ d \in Nat /\ d <= NumNixies /\ d <= Len(rest)
      /\ \A i \in 1..d : rest[i] \in PageDigit
  BY <1>3, DigitsCounted
<1> HIDE DEF d
<1>5. /\ number \in Bytes /\ Piece(number, rest, 0)
      /\ Len(number) = Parser!min_zz(d, Len(rest))
  BY <1>3, <1>4, FirstPiece
<1> HIDE DEF number
<1>6. Len(number) = d
  BY <1>3, <1>4, <1>5, Length DEF Parser!min_zz
<1>7. \A i \in 1..d : number[i] = rest[i]
  <2> TAKE i \in 1..d
  <2>1. 0 + i = i /\ i \in 1..Len(number)
    BY <1>4, <1>6
  <2> QED
    BY <1>5, <2>1 DEF Piece
<1>8. /\ Len(number) = d /\ d \in Nat /\ d <= NumNixies
      /\ \A i \in 1..d : number[i] = rest[i] /\ number[i] \in PageDigit
  BY <1>4, <1>6, <1>7
<1> QED
  BY <1>1, <1>2, <1>8 DEF d, rest

\* What the tubes get for the value behind a token, before it is shuffled and
\* after.
LEMMA ValueIs ==
  ASSUME page \in Bytes, NEW f, FirstAt(page, f)
  PROVE  LET n == Len(Parser!Number)
         IN  /\ \A i \in Parser!Tube : ValueAt(page, f)[i] =
                  IF NumNixies - i <= n THEN Parser!Number[NumNixies - i]
                                        ELSE PageNul
             /\ \A i \in Parser!Tube : Parser!Shuffled(ValueAt(page, f))[i] =
                  IF i < n THEN Parser!Number[n - i] ELSE Zero
<1> DEFINE n == Len(Parser!Number)
           v == ValueAt(page, f)
           rest == Rest(page, f)
           used == {i \in Parser!Tube : v[i] # PageNul}
           lead == IF used = {} THEN NumNixies ELSE Parser!Min(used)
<1>1. /\ n = Parser!NumDigits(rest) /\ n \in Nat /\ n <= NumNixies
      /\ \A i \in 1..n :
           Parser!Number[i] = rest[i] /\ Parser!Number[i] \in PageDigit
  BY NumberIs
<1>2. /\ NumNixies \in Nat \ {0} /\ PageNul \notin PageDigit
      /\ Parser!Tube = 0 .. NumNixies - 1
  BY Constants DEF Parser!Tube
<1>3. v = [i \in Parser!Tube |-> IF NumNixies - i <= n
                                 THEN rest[NumNixies - i] ELSE PageNul]
  BY <1>1 DEF ValueAt, Parser!parseValueFromBuffer
<1> HIDE DEF n, v, rest
<1>4. \A i \in Parser!Tube :
        /\ v[i] = (IF NumNixies - i <= n THEN Parser!Number[NumNixies - i]
                                         ELSE PageNul)
        /\ v[i] # PageNul <=> NumNixies - i <= n
  <2> TAKE i \in Parser!Tube
  <2>1. v[i] = IF NumNixies - i <= n THEN rest[NumNixies - i] ELSE PageNul
    BY <1>3
  <2>2. NumNixies - i \in Nat \ {0}
    BY <1>2
  <2>3. CASE NumNixies - i <= n
    <3>1. NumNixies - i \in 1..n
      BY <1>1, <2>2, <2>3
    <3> QED
      BY <1>1, <1>2, <2>1, <2>3, <3>1
  <2>4. CASE ~(NumNixies - i <= n)
    BY <2>1, <2>4
  <2> QED
    BY <2>3, <2>4
<1>5. lead = NumNixies - n
  <2>1. \A i \in Parser!Tube : i \in used <=> NumNixies - i <= n
    BY <1>4
  <2>2. used \subseteq Parser!Tube
    OBVIOUS
  <2> HIDE DEF used
  <2>3. CASE n = 0
    <3>1. used = {}
      BY <1>2, <2>1, <2>2, <2>3
    <3> QED
      BY <1>2, <2>3, <3>1
  <2>4. CASE n # 0
    <3>1. NumNixies - n \in used
      BY <1>1, <1>2, <2>1, <2>4
    <3>2. \A i \in used : NumNixies - n <= i /\ i \in Nat
      BY <1>1, <1>2, <2>1, <2>2
    <3>3. Parser!Min(used) = NumNixies - n
      <4>1. /\ Parser!Min(used) \in used
            /\ \A i \in used : Parser!Min(used) <= i
        BY <3>1, <3>2 DEF Parser!Min
      <4>2. /\ Parser!Min(used) <= NumNixies - n
            /\ NumNixies - n <= Parser!Min(used)
            /\ Parser!Min(used) \in Nat /\ NumNixies - n \in Nat
        BY <3>1, <3>2, <4>1
      <4> QED
        BY <4>2
    <3> QED
      BY <3>1, <3>3
  <2> QED
    BY <2>3, <2>4
<1>6. Parser!Shuffled(v) =
        [i \in Parser!Tube |->
           IF i + lead < NumNixies THEN v[i + lead] ELSE Zero]
  BY DEF Parser!Shuffled
<1> HIDE DEF lead
<1>7. \A i \in Parser!Tube : Parser!Shuffled(v)[i] =
        IF i < n THEN Parser!Number[n - i] ELSE Zero
  <2> TAKE i \in Parser!Tube
  <2>1. i \in Nat
    BY <1>2
  <2>2. Parser!Shuffled(v)[i] =
          IF i + lead < NumNixies THEN v[i + lead] ELSE Zero
    BY <1>6
  <2>3. CASE i < n
    <3>1. /\ i + lead < NumNixies /\ i + lead \in Parser!Tube
          /\ NumNixies - (i + lead) = n - i /\ n - i <= n
      BY <1>1, <1>2, <1>5, <2>1, <2>3
    <3> QED
      BY <1>4, <2>2, <2>3, <3>1
  <2>4. CASE ~(i < n)
    <3>1. ~(i + lead < NumNixies)
      BY <1>1, <1>2, <1>5, <2>1, <2>4
    <3> QED
      BY <2>2, <2>4, <3>1
  <2> QED
    BY <2>3, <2>4
<1>8. \A i \in Parser!Tube : v[i] =
        IF NumNixies - i <= n THEN Parser!Number[NumNixies - i] ELSE PageNul
  BY <1>4
<1> QED
  BY <1>7, <1>8 DEF n, v

(* However the page is cut into fragments: until the value is parsed, what *)
(* bufferReceivedCallback keeps is the end of the page, and a token in it  *)
(* is at its beginning.                                                    *)
THEOREM BufferIsTail == Spec => []CyclicBufferIsTail
<1>1. PageInvOnPath => CyclicBufferIsTail
  <2> SUFFICES ASSUME PageInv, nixie_state = "waiting", ~is_value_parsed
               PROVE  /\ cyclic_buffer = Parser!Last(page, Len(cyclic_buffer))
                      /\ Parser!Contains(cyclic_buffer) =>
                           Parser!strstr_len(cyclic_buffer) = 0
    BY DEF PageInvOnPath, CyclicBufferIsTail, Parser!CyclicBufferIsTail
  <2>1. PICK b : NoneYet(b) \/ Started(b)
    BY DEF PageInv, Holds
  <2>2. /\ cyclic_buffer \in Bytes /\ page \in Bytes
        /\ Piece(cyclic_buffer, page, b)
        /\ b + Len(cyclic_buffer) = Len(page)
    BY <2>1 DEF NoneYet, Started, EndOfPage
  <2>3. /\ b \in Nat /\ Len(cyclic_buffer) \in Nat /\ Len(page) \in Nat
        /\ L \in Nat \ {0} /\ Token \in Bytes
    BY <2>2, Length, Constants DEF Piece
  <2>4. cyclic_buffer = Parser!Last(page, Len(cyclic_buffer))
    <3> DEFINE t == Parser!Last(page, Len(cyclic_buffer))
    <3>1. /\ t \in Bytes /\ Piece(t, page, Len(page) - Len(t))
          /\ Len(t) = Parser!min_zz(Len(cyclic_buffer), Len(page))
      BY <2>2, <2>3, LastPiece
    <3>2. Len(t) = Len(cyclic_buffer)
      BY <2>2, <2>3, <3>1 DEF Parser!min_zz
    <3> HIDE DEF t
    <3>3. Len(page) - Len(t) = b
      BY <2>2, <2>3, <3>2
    <3>4. cyclic_buffer = t
      BY <2>2, <3>1, <3>2, <3>3, SamePiece
    <3> QED
      BY <3>4 DEF t
  <2>5. ASSUME Parser!Contains(cyclic_buffer)
        PROVE  Parser!strstr_len(cyclic_buffer) = 0
    <3>1. PICK k : Piece(Token, cyclic_buffer, k)
      BY <2>2, <2>5, FirstIsMin DEF NowhereIn
    <3>2. Piece(Token, page, b + k)
      BY <2>2, <2>3, <3>1, PieceOfPiece
    <3>3. FirstAt(page, b) /\ Piece(Token, page, b) /\ b + L <= Len(page)
      BY <2>1, <3>2 DEF NoneYet, NowhereIn, Started, FirstAt, Piece, L
    <3>4. Piece(Token, cyclic_buffer, 0)
      <4>1. b + L <= b + Len(cyclic_buffer) /\ b <= b /\ b - b = 0
        BY <2>2, <2>3, <3>3
      <4> QED
        BY <2>2, <2>3, <3>3, <4>1, PieceWithin DEF L
    <3>5. FirstAt(cyclic_buffer, 0)
      BY <3>4 DEF FirstAt, Piece
    <3> QED
      BY <2>2, <3>5, FirstIsMin
  <2> QED
    BY <2>4, <2>5
<1> QED
  BY <1>1, PageInvariance, PTL

(* However the page is cut into fragments: the value behind its first      *)
(* token is found, none is made up, and the tubes get it aligned to the    *)
(* right (bufferReceivedCallback, requestHandledCallback,                  *)
(* shuffleServerValueDigits).                                              *)
THEOREM ValueFound == Spec => []ValueIsFound
<1>1. PageInvOnPath => ValueIsFound
  <2> SUFFICES ASSUME PageInv
               PROVE  /\ Parser!ParsedIsOnPage
                      /\ Parser!DisplayIsRightAligned
                      /\ Parser!TokenIsNotMissed
    BY DEF PageInvOnPath, ValueIsFound
  <2>1. page \in Bytes
    BY DEF PageInv
  <2>2. Parser!ParsedIsOnPage
    <3> SUFFICES ASSUME is_value_parsed, nixie_state \in {"waiting", "shuffle"}
                 PROVE  /\ Parser!Contains(page)
                        /\ \A i \in Parser!Tube : parsed_value[i] =
                             IF NumNixies - i <= Len(Parser!Number)
                             THEN Parser!Number[NumNixies - i] ELSE PageNul
      BY DEF Parser!ParsedIsOnPage
    <3>1. PICK f : FirstAt(page, f) /\ parsed_value = ValueAt(page, f)
      BY DEF PageInv, Found
    <3> QED
      BY <2>1, <3>1, NumberIs, ValueIs
  <2>3. Parser!DisplayIsRightAligned
    <3> SUFFICES ASSUME nixie_state = "display"
                 PROVE  \A i \in Parser!Tube : parsed_value[i] =
                          IF i < Len(Parser!Number)
                          THEN Parser!Number[Len(Parser!Number) - i] ELSE Zero
      BY DEF Parser!DisplayIsRightAligned
    <3>1. PICK f : /\ FirstAt(page, f)
                   /\ parsed_value = Parser!Shuffled(ValueAt(page, f))
      BY DEF PageInv
    <3> QED
      BY <2>1, <3>1, ValueIs
  <2>4. Parser!TokenIsNotMissed
    BY <2>1, FirstIsMin DEF PageInv, Parser!TokenIsNotMissed
  <2> QED
    BY <2>2, <2>3, <2>4
<1> QED
  BY <1>1, PageInvariance, PTL
-----------------------------------------------------------------------------
(* The wires of the tubes.  No two cathodes share one: Place tells from the *)
(* bit of a register which cathode it drives, counted over all tubes.       *)
Cathode == 1..10

Place ==
  [r \in Display!Register |->
     CASE r = 0 -> <<22, 24, 26, 28, 0, 29, 27, 25>>
       [] r = 1 -> <<18, 20, 21, 23, 16, 14, 12, 0>>
       [] r = 2 -> <<11, 13, 15, 17, 19, 10, 8, 6>>
       [] r = 3 -> <<4, 2, 0, 1, 3, 5, 7, 9>>
       [] r = 4 -> <<0, 0, 0, 0, 33, 31, 32, 0>>
       [] r = 5 -> <<35, 37, 39, 30, 40, 38, 36, 34>>]

LEMMA WirePlaces ==
  \A t \in Display!Tube, k \in Cathode :
    LET wire == Display!Wiring[t + 1][k]
    IN  /\ wire = <<wire[1], wire[2]>>
        /\ wire[1] \in Display!Register /\ wire[2] \in 0..7
        /\ Place[wire[1]][wire[2] + 1] = 10 * t + k
<1> SUFFICES ASSUME NEW t \in Display!Tube, NEW k \in Cathode
             PROVE  LET wire == Display!Wiring[t + 1][k]
                    IN  /\ wire = <<wire[1], wire[2]>>
                        /\ wire[1] \in Display!Register /\ wire[2] \in 0..7
                        /\ Place[wire[1]][wire[2] + 1] = 10 * t + k
  OBVIOUS
<1>1. t \in {0, 1, 2, 3}
  BY DEF Display!Tube, Display!num_nixies
<1>2. k \in {1, 2, 3, 4, 5, 6, 7, 8, 9, 10}
  BY DEF Cathode
<1>3. Display!Register = {0, 1, 2, 3, 4, 5}
  BY DEF Display!Register, Display!num_shift_registers
<1>4. /\ Place[0] = <<22, 24, 26, 28, 0, 29, 27, 25>>
      /\ Place[1] = <<18, 20, 21, 23, 16, 14, 12, 0>>
      /\ Place[2] = <<11, 13, 15, 17, 19, 10, 8, 6>>
      /\ Place[3] = <<4, 2, 0, 1, 3, 5, 7, 9>>
      /\ Place[4] = <<0, 0, 0, 0, 33, 31, 32, 0>>
      /\ Place[5] = <<35, 37, 39, 30, 40, 38, 36, 34>>
  BY <1>3 DEF Place
<1>5. CASE t = 0
  BY <1>2, <1>3, <1>4, <1>5 DEF Display!Wiring
<1>6. CASE t = 1
  BY <1>2, <1>3, <1>4, <1>6 DEF Display!Wiring
<1>7. CASE t = 2
  BY <1>2, <1>3, <1>4, <1>7 DEF Display!Wiring
<1>8. CASE t = 3
  BY <1>2, <1>3, <1>4, <1>8 DEF Display!Wiring
<1> QED
  BY <1>1, <1>5, <1>6, <1>7, <1>8

LEMMA NoSharedWire ==
  ASSUME NEW t \in Display!Tube, NEW k \in Cathode,
         NEW u \in Display!Tube, NEW j \in Cathode,
         Display!Wiring[t + 1][k] = Display!Wiring[u + 1][j]
  PROVE  t = u /\ k = j
<1>1. 10 * t + k = 10 * u + j
  BY WirePlaces
<1>2. t \in Nat /\ u \in Nat /\ k \in 1..10 /\ j \in 1..10
  BY DEF Display!Tube, Display!num_nixies, Cathode
<1> QED
  BY <1>1, <1>2

\* The cathode decodeDisplayValue finds for a character has its symbol.
LEMMA SymbolFound ==
  ASSUME NEW c \in Display!Char
  PROVE  LET k == Display!IN12A_SymbolToCathodeIndex(c)
         IN  /\ c \in Display!Digit => /\ k \in 2..11 /\ k - 1 \in Cathode
                                       /\ Display!SymbolOf(c) = {Display!Symbol[k - 1]}
             /\ c \notin Display!Digit => k = -1 /\ Display!SymbolOf(c) = {}
<1> DEFINE k == Display!IN12A_SymbolToCathodeIndex(c)
<1>1. c \in Int /\ (c \in Display!Digit <=> 48 <= c /\ c <= 57)
  BY DEF Display!Char, Display!Digit
<1>2. CASE c \notin Display!Digit
  <2>1. c # 48 /\ ~(c > 48 /\ c <= 57)
    BY <1>1, <1>2
  <2>2. k = -1
    BY <2>1 DEF Display!IN12A_SymbolToCathodeIndex
  <2> QED
    BY <1>2, <2>2 DEF Display!SymbolOf
<1>3. CASE c \in Display!Digit
  <2>1. c \in {48, 49, 50, 51, 52, 53, 54, 55, 56, 57}
    BY <1>1, <1>3
  <2>2. k = IF c = 48 THEN 2 ELSE 12 - (c - 48)
    BY <1>1, <1>3 DEF Display!IN12A_SymbolToCathodeIndex
  <2>3. Display!SymbolOf(c) =
          {<<"0", "1", "2", "3", "4", "5", "6", "7", "8", "9">>[c - 47]}
    BY <1>3 DEF Display!SymbolOf
  <2> HIDE DEF k
  <2>4. k \in 2..11 /\ k - 1 \in Cathode
    BY <2>1, <2>2 DEF Cathode
  <2>5. <<"0", "1", "2", "3", "4", "5", "6", "7", "8", "9">>[c - 47]
          = Display!Symbol[k - 1]
    BY <2>1, <2>2 DEF Display!Symbol
  <2>6. Display!SymbolOf(c) = {Display!Symbol[k - 1]}
    BY <2>3, <2>5
  <2> QED
    BY <1>3, <2>4, <2>6 DEF k
<1> QED
  BY <1>2, <1>3

\* What the registers hold when these cathodes are lit, and nothing else.
Lit(lit) ==
  [r \in Display!Register |->
     {bit \in 0..7 : \E t \in Display!Tube :
        lit[t] # -1 /\ Display!cathode_mapping(t, lit[t]) = <<r, bit>>}]

Lightable == [Display!Tube -> {-1} \cup 2..11]

LEMMA MappingIsWire ==
  ASSUME NEW lit \in Lightable, NEW t \in Display!Tube, lit[t] # -1
  PROVE  LET wire == Display!cathode_mapping(t, lit[t])
         IN  /\ lit[t] - 1 \in Cathode
             /\ wire = Display!Wiring[t + 1][lit[t] - 1]
             /\ wire = <<wire[1], wire[2]>>
             /\ wire[1] \in Display!Register /\ wire[2] \in 0..7
<1>1. lit[t] - 1 \in Cathode
  BY DEF Lightable, Cathode
<1> QED
  BY <1>1, WirePlaces DEF Display!cathode_mapping

\* The bytes encodeShiftRegister puts together light them.
LEMMA EncodedIsLit ==
  ASSUME cathodes \in Lightable
  PROVE  Display!Shifted(Display!EncodedRegisters) = Lit(cathodes)
<1> DEFINE data == Display!EncodedRegisters
           on == {t \in Display!Tube : cathodes[t] # -1}
           wire(t) == Display!cathode_mapping(t, cathodes[t])
<1>1. Display!Register = 0..5 /\ Display!num_shift_registers = 6
  BY DEF Display!Register, Display!num_shift_registers
<1>2. \A t \in on : /\ wire(t) = <<wire(t)[1], wire(t)[2]>>
                    /\ wire(t)[1] \in 0..5 /\ wire(t)[2] \in 0..7
  BY <1>1, MappingIsWire
<1>3. data = [n \in 0..5 |->
                {} \cup {wire(t)[2] : t \in {u \in Display!Tube :
                           cathodes[u] # -1 /\ n = 6 - wire(u)[1] - 1}}]
  BY <1>1 DEF Display!EncodedRegisters, Display!WithCathodes
<1>4. Display!Shifted(data) = [r \in 0..5 |-> data[6 - 1 - r]]
  BY <1>1 DEF Display!Shifted
<1>5. Lit(cathodes) =
        [r \in 0..5 |-> {bit \in 0..7 : \E t \in on : wire(t) = <<r, bit>>}]
  BY <1>1 DEF Lit
<1> HIDE DEF data, wire
<1>6. ASSUME NEW r \in 0..5
      PROVE  data[6 - 1 - r] =
               {bit \in 0..7 : \E t \in on : wire(t) = <<r, bit>>}
  <2>1. 6 - 1 - r \in 0..5
    OBVIOUS
  <2>2. data[6 - 1 - r] = {wire(t)[2] : t \in {u \in Display!Tube :
                             cathodes[u] # -1 /\ 6 - 1 - r = 6 - wire(u)[1] - 1}}
    BY <1>3, <2>1
  <2>3. \A t \in on : 6 - 1 - r = 6 - wire(t)[1] - 1 <=> wire(t)[1] = r
    BY <1>2
  <2>4. data[6 - 1 - r] = {wire(t)[2] : t \in {u \in on : wire(u)[1] = r}}
    BY <2>2, <2>3
  <2>5. ASSUME NEW bit
        PROVE  bit \in {wire(t)[2] : t \in {u \in on : wire(u)[1] = r}}
                 <=> bit \in 0..7 /\ \E t \in on : wire(t) = <<r, bit>>
    <3>1. ASSUME NEW t \in on, wire(t)[1] = r, bit = wire(t)[2]
          PROVE  bit \in 0..7 /\ wire(t) = <<r, bit>>
      BY <1>2, <3>1
    <3>2. ASSUME NEW t \in on, wire(t) = <<r, bit>>
          PROVE  wire(t)[1] = r /\ bit = wire(t)[2]
      BY <3>2
    <3> HIDE DEF on
    <3> QED
      BY <3>1, <3>2
  <2> HIDE DEF on
  <2> QED
    BY <2>4, <2>5
<1> HIDE DEF on
<1>7. Display!Shifted(data) = Lit(cathodes)
  BY <1>4, <1>5, <1>6
<1> QED
  BY <1>7 DEF data

\* By the diagram, what glows then are the symbols of these cathodes.
LEMMA LitGlows ==
  ASSUME NEW lit \in Lightable, outputs = Lit(lit)
  PROVE  /\ \A t \in Display!Tube : Display!Glow(t) =
              IF lit[t] = -1 THEN {} ELSE {Display!Symbol[lit[t] - 1]}
         /\ \A r \in Display!Register : \A bit \in outputs[r] :
              Cardinality({t \in Display!Tube :
                \E k \in Cathode : Display!Wiring[t + 1][k] = <<r, bit>>}) = 1
<1>1. DOMAIN Display!Symbol = Cathode
  BY DEF Display!Symbol, Cathode
<1>2. ASSUME NEW t \in Display!Tube, NEW k \in Cathode
      PROVE  LET wire == Display!Wiring[t + 1][k]
             IN  wire[2] \in outputs[wire[1]] <=> lit[t] # -1 /\ lit[t] - 1 = k
  <2> DEFINE wire == Display!Wiring[t + 1][k]
  <2>1. /\ wire = <<wire[1], wire[2]>>
        /\ wire[1] \in Display!Register /\ wire[2] \in 0..7
    BY WirePlaces
  <2>2. wire[2] \in outputs[wire[1]] <=> \E u \in Display!Tube :
          lit[u] # -1 /\ Display!cathode_mapping(u, lit[u]) = wire
    <3> HIDE DEF wire
    <3> QED
      BY <2>1 DEF Lit
  <2>3. \A u \in Display!Tube :
          lit[u] # -1 /\ Display!cathode_mapping(u, lit[u]) = wire
            => u = t /\ lit[u] - 1 = k
    <3> TAKE u \in Display!Tube
    <3>1. lit[u] # -1 => /\ lit[u] - 1 \in Cathode
                         /\ Display!cathode_mapping(u, lit[u])
                              = Display!Wiring[u + 1][lit[u] - 1]
      BY MappingIsWire
    <3> QED
      BY <3>1, NoSharedWire
  <2>4. lit[t] # -1 /\ lit[t] - 1 = k =>
          Display!cathode_mapping(t, lit[t]) = wire
    BY MappingIsWire
  <2> HIDE DEF wire
  <2>5. wire[2] \in outputs[wire[1]] <=> lit[t] # -1 /\ lit[t] - 1 = k
    BY <2>2, <2>3, <2>4
  <2> QED
    BY <2>5 DEF wire
<1>3. ASSUME NEW t \in Display!Tube
      PROVE  Display!Glow(t) =
               IF lit[t] = -1 THEN {} ELSE {Display!Symbol[lit[t] - 1]}
  <2>1. Display!Glow(t) = {Display!Symbol[k] : k \in {j \in Cathode :
                             lit[t] # -1 /\ lit[t] - 1 = j}}
    BY <1>1, <1>2 DEF Display!Glow
  <2>2. lit[t] # -1 => lit[t] - 1 \in Cathode
    BY MappingIsWire
  <2> QED
    BY <2>1, <2>2
<1>4. ASSUME NEW r \in Display!Register, NEW bit \in outputs[r]
      PROVE  Cardinality({t \in Display!Tube : \E k \in Cathode :
               Display!Wiring[t + 1][k] = <<r, bit>>}) = 1
  <2> DEFINE ends == {t \in Display!Tube : \E k \in Cathode :
                        Display!Wiring[t + 1][k] = <<r, bit>>}
  <2>1. PICK t \in Display!Tube :
          lit[t] # -1 /\ Display!cathode_mapping(t, lit[t]) = <<r, bit>>
    BY DEF Lit
  <2>2. /\ lit[t] - 1 \in Cathode
        /\ Display!Wiring[t + 1][lit[t] - 1] = <<r, bit>>
    BY <2>1, MappingIsWire
  <2>3. ends = {t}
    BY <2>2, NoSharedWire
  <2> HIDE DEF ends
  <2>4. Cardinality(ends) = 1
    BY <2>3, FS_Singleton
  <2> QED
    BY <2>4 DEF ends
<1> QED
  BY <1>3, <1>4
-----------------------------------------------------------------------------
(* The display sequence.                                                   *)
Filled == Len(requested) >= Display!num_nixies

IndexOf(c) == Display!IN12A_SymbolToCathodeIndex(c)

\* These cathodes are the ones of the characters asked for.
Asked(lit) ==
  Filled => \A t \in Display!Tube : lit[t] = IndexOf(requested[t + 1])

DisplayInv ==
  /\ nixie_state \in Display!State
  /\ requested \in Seq(Display!Char)
  /\ display_value \in [Display!Tube -> Display!Char]
  /\ nixie_state = "decode" /\ Filled =>
       \A t \in Display!Tube : display_value[3 - t] = requested[t + 1]
  /\ nixie_state \in {"encode", "write"} =>
       cathodes \in Lightable /\ Asked(cathodes)
  /\ nixie_state = "write" => register_shift_state = Display!EncodedRegisters
  /\ nixie_state = "idle" =>
       \E lit \in Lightable : outputs = Lit(lit) /\ Asked(lit)

LEMMA DisplayConstants ==
  /\ Display!num_nixies = 4 /\ Display!Tube = 0..3
  /\ Display!Digit \subseteq Display!Char /\ 0 \in Display!Char
  /\ \A argument \in Arguments : argument \in Seq(Display!Char \ {0})
  /\ ServerValues \subseteq [Display!Tube -> Display!Digit]
BY TextPathsAssumption
   DEF Display!DisplayAssumption, Display!num_nixies, Display!Tube,
       Display!Digit, Display!Char, Display!Nul

\* What a command copies into the display value.
LEMMA ConsoleStep ==
  ASSUME NEW argument \in Arguments, Display!APP_Nixie_Display(argument)
  PROVE  DisplayInv'
<1> DEFINE copy == Display!CopyOfArgument(argument)
           value == Display!reverse_bytes(copy)
<1>1. /\ display_value' = Display!UpToNul(value)
      /\ requested' = argument /\ nixie_state' = "decode"
  BY DEF Display!APP_Nixie_Display
<1>2. /\ argument \in Seq(Display!Char \ {0}) /\ Len(argument) \in Nat
      /\ \A i \in 1..Len(argument) :
           argument[i] \in Display!Char /\ argument[i] # 0
  BY DisplayConstants, LenProperties, ElementOfSeq
<1>3. argument \in Seq(Display!Char)
  BY <1>2, SeqDef
<1>4. copy = [i \in 0..3 |-> IF i < Len(argument) THEN argument[i + 1] ELSE 0]
  BY DisplayConstants DEF Display!CopyOfArgument, Display!Nul
<1>5. value = [i \in 0..3 |-> copy[4 - 1 - i]]
  BY DisplayConstants DEF Display!reverse_bytes
<1>6. Display!UpToNul(value) =
        [i \in 0..3 |-> IF \E j \in 0..i : value[j] = 0 THEN 0 ELSE value[i]]
  BY DisplayConstants DEF Display!UpToNul, Display!Nul
<1> HIDE DEF copy, value
<1>7. \A i \in 0..3 : copy[i] \in Display!Char
  <2> TAKE i \in 0..3
  <2>1. i < Len(argument) => i + 1 \in 1..Len(argument)
    BY <1>2
  <2> QED
    BY <1>2, <1>4, <2>1, DisplayConstants
<1>8. \A i \in 0..3 : 4 - 1 - i \in 0..3 /\ value[i] = copy[4 - 1 - i]
  BY <1>5
<1>9. display_value' \in [Display!Tube -> Display!Char]
  BY <1>1, <1>6, <1>7, <1>8, DisplayConstants
<1>10. ASSUME Len(argument) >= 4
       PROVE  \A t \in 0..3 : display_value'[3 - t] = argument[t + 1]
  <2>1. \A i \in 0..3 : copy[i] = argument[i + 1] /\ copy[i] # 0
    <3> TAKE i \in 0..3
    <3>1. i < Len(argument) /\ i + 1 \in 1..Len(argument)
      BY <1>2, <1>10
    <3> QED
      BY <1>2, <1>4, <3>1
  <2>2. \A i \in 0..3 : value[i] # 0
    BY <1>8, <2>1
  <2>3. \A i \in 0..3 : display_value'[i] = value[i]
    BY <1>1, <1>6, <2>2
  <2> TAKE t \in 0..3
  <2>4. 3 - t \in 0..3 /\ 4 - 1 - (3 - t) = t
    OBVIOUS
  <2> QED
    BY <1>8, <2>1, <2>3, <2>4
<1> QED
  BY <1>1, <1>3, <1>9, <1>10, DisplayConstants
  DEF DisplayInv, Filled, Display!State

\* What shuffleServerValueDigits leaves.
LEMMA ServerStep ==
  ASSUME NEW value \in ServerValues, Display!DisplayServerValue(value)
  PROVE  DisplayInv'
<1>1. /\ display_value' = value /\ nixie_state' = "decode"
      /\ requested' = [i \in 1..4 |-> value[4 - i]]
  BY DisplayConstants DEF Display!DisplayServerValue
<1>2. value \in [0..3 -> Display!Char]
  BY DisplayConstants
<1>3. \A i \in 1..4 : 4 - i \in 0..3
  OBVIOUS
<1>4. requested' \in [1..4 -> Display!Char]
  BY <1>1, <1>2, <1>3
<1>5. requested' \in Seq(Display!Char)
  BY <1>4, SeqDef
<1>6. \A t \in 0..3 : display_value'[3 - t] = requested'[t + 1]
  <2> TAKE t \in 0..3
  <2>1. t + 1 \in 1..4 /\ 4 - (t + 1) = 3 - t
    OBVIOUS
  <2> QED
    BY <1>1, <2>1
<1> QED
  BY <1>1, <1>2, <1>5, <1>6, DisplayConstants
  DEF DisplayInv, Filled, Display!State

LEMMA DisplayStep ==
  ASSUME DisplayInv, Display!Next
  PROVE  DisplayInv'
<1>1. /\ requested \in Seq(Display!Char)
      /\ display_value \in [Display!Tube -> Display!Char]
  BY DEF DisplayInv
<1>2. ASSUME NEW argument \in Arguments, Display!APP_Nixie_Display(argument)
      PROVE  DisplayInv'
  BY <1>2, ConsoleStep
<1>3. ASSUME NEW value \in ServerValues, Display!DisplayServerValue(value)
      PROVE  DisplayInv'
  BY <1>3, ServerStep
<1>4. CASE Display!decodeDisplayValue
  <2>1. /\ nixie_state = "decode" /\ nixie_state' = "encode"
        /\ display_value' = display_value /\ requested' = requested
        /\ cathodes' = [i \in 0..3 |-> IndexOf(display_value[4 - i - 1])]
    BY <1>4, DisplayConstants DEF Display!decodeDisplayValue, IndexOf
  <2>2. \A i \in 0..3 : 4 - i - 1 = 3 - i /\ 3 - i \in 0..3
    OBVIOUS
  <2>3. \A c \in Display!Char : IndexOf(c) \in {-1} \cup 2..11
    BY SymbolFound DEF IndexOf
  <2>4. cathodes' \in Lightable
    BY <1>1, <2>1, <2>2, <2>3, DisplayConstants DEF Lightable
  <2>5. Filled => \A t \in 0..3 : cathodes'[t] = IndexOf(requested[t + 1])
    BY <2>1, <2>2, DisplayConstants DEF DisplayInv
  <2>6. Asked(cathodes)'
    BY <2>1, <2>5, DisplayConstants DEF Asked, Filled
  <2> QED
    BY <1>1, <2>1, <2>4, <2>6 DEF DisplayInv, Display!State
<1>5. CASE Display!encodeShiftRegister
  <2>1. /\ nixie_state = "encode" /\ nixie_state' = "write"
        /\ display_value' = display_value /\ requested' = requested
        /\ cathodes' = cathodes
        /\ register_shift_state' = Display!EncodedRegisters
    BY <1>5 DEF Display!encodeShiftRegister
  <2>2. Display!EncodedRegisters' = Display!EncodedRegisters
    BY <2>1 DEF Display!EncodedRegisters, Display!WithCathodes
  <2>3. cathodes \in Lightable /\ Asked(cathodes)
    BY <2>1 DEF DisplayInv
  <2>4. Asked(cathodes)'
    BY <2>1, <2>3 DEF Asked, Filled
  <2> QED
    BY <1>1, <2>1, <2>2, <2>3, <2>4 DEF DisplayInv, Display!State
<1>6. CASE Display!writeShiftRegister
  <2>1. /\ nixie_state = "write" /\ nixie_state' = "idle"
        /\ display_value' = display_value /\ requested' = requested
        /\ outputs' = Display!Shifted(register_shift_state)
    BY <1>6 DEF Display!writeShiftRegister
  <2>2. /\ cathodes \in Lightable /\ Asked(cathodes)
        /\ register_shift_state = Display!EncodedRegisters
    BY <2>1 DEF DisplayInv
  <2>3. PICK lit \in Lightable : lit = cathodes
    BY <2>2
  <2>4. outputs' = Lit(lit)
    BY <2>1, <2>2, <2>3, EncodedIsLit
  <2>5. Asked(lit)'
    BY <2>1, <2>2, <2>3 DEF Asked, Filled
  <2>6. Lit(lit)' = Lit(lit)
    BY DEF Lit
  <2> QED
    BY <1>1, <2>1, <2>4, <2>5, <2>6 DEF DisplayInv, Display!State
<1> QED
  BY <1>2, <1>3, <1>4, <1>5, <1>6 DEF Display!Next

DisplayInvOnPath == path = "display" => DisplayInv

(* After writeShiftRegister every tube glows with exactly the symbol asked *)
(* for, for every argument of "nixie display" and every value of the       *)
(* server: the diagram read backwards undoes IN12A_SymbolToCathodeIndex,   *)
(* encodeShiftRegister and the order of the registers, and no two cathodes *)
(* share a wire.                                                           *)
THEOREM TubesShow == Spec => []TubesShowValue
<1>1. Init => DisplayInvOnPath
  <2> SUFFICES ASSUME Init PROVE DisplayInv
    BY DEF DisplayInvOnPath
  <2>1. /\ nixie_state = "idle" /\ requested = <<>>
        /\ display_value = [i \in Display!Tube |-> 0]
        /\ outputs = [r \in Display!Register |-> {}]
    BY DEF Init, Display!Init, Parser!Init, Display!Nul
  <2> DEFINE dark == [t \in Display!Tube |-> -1]
  <2>2. dark \in Lightable /\ outputs = Lit(dark)
    BY <2>1 DEF Lightable, Lit
  <2>3. <<>> \in Seq(Display!Char) /\ ~Filled
    BY <2>1, EmptySeq, DisplayConstants DEF Filled
  <2>4. display_value \in [Display!Tube -> Display!Char]
    BY <2>1, DisplayConstants
  <2> HIDE DEF dark
  <2> QED
    BY <2>1, <2>2, <2>3, <2>4 DEF DisplayInv, Display!State, Asked
<1>2. DisplayInvOnPath /\ [Next]_vars => DisplayInvOnPath'
  <2> SUFFICES ASSUME DisplayInvOnPath, [Next]_vars, path' = "display"
               PROVE  DisplayInv'
    BY DEF DisplayInvOnPath
  <2>1. CASE DisplayedValue
    BY <2>1, DisplayStep DEF DisplayedValue, DisplayInvOnPath
  <2>2. CASE ServerPage \/ RequestUrl \/ IwSecurity
    BY <2>2 DEF ServerPage, RequestUrl, IwSecurity
  <2>3. CASE UNCHANGED vars
    BY <2>3 DEF vars, display_vars, DisplayInvOnPath, DisplayInv, Filled, Asked,
                Lit, Display!EncodedRegisters, Display!WithCathodes
  <2> QED
    BY <2>1, <2>2, <2>3 DEF Next
<1>3. DisplayInvOnPath => TubesShowValue
  <2> SUFFICES ASSUME DisplayInv, nixie_state = "idle"
               PROVE  /\ Len(requested) >= 4 => \A t \in Display!Tube :
                           Display!Glow(t) = Display!SymbolOf(requested[t + 1])
                      /\ \A r \in Display!Register : \A bit \in outputs[r] :
                           Cardinality({t \in Display!Tube :
                             \E k \in DOMAIN Display!Symbol :
                               Display!Wiring[t + 1][k] = <<r, bit>>}) = 1
    <3>1. \A S : Display!Cardinality(S) = Cardinality(S)
      BY DEF Cardinality, Display!Cardinality
    <3> QED
      BY <3>1, DisplayConstants
      DEF DisplayInvOnPath, TubesShowValue, Display!TubesShowValue
  <2>1. PICK lit \in Lightable : outputs = Lit(lit) /\ Asked(lit)
    BY DEF DisplayInv
  <2>2. DOMAIN Display!Symbol = Cathode
    BY DEF Display!Symbol, Cathode
  <2>3. ASSUME Len(requested) >= 4, NEW t \in Display!Tube
        PROVE  Display!Glow(t) = Display!SymbolOf(requested[t + 1])
    <3>1. requested[t + 1] \in Display!Char
      <4>1. requested \in Seq(Display!Char) /\ Len(requested) \in Nat
        BY LenProperties DEF DisplayInv
      <4>2. t + 1 \in 1..Len(requested)
        BY <2>3, <4>1, DisplayConstants
      <4> QED
        BY <4>1, <4>2, ElementOfSeq
    <3>2. lit[t] = IndexOf(requested[t + 1])
      BY <2>1, <2>3, DisplayConstants DEF Asked, Filled
    <3>3. Display!Glow(t) =
            IF lit[t] = -1 THEN {} ELSE {Display!Symbol[lit[t] - 1]}
      BY <2>1, LitGlows
    <3>4. requested[t + 1] \in Display!Digit => lit[t] # -1
      BY <3>1, <3>2, SymbolFound DEF IndexOf
    <3> QED
      BY <3>1, <3>2, <3>3, <3>4, SymbolFound DEF IndexOf
  <2> QED
    BY <2>1, <2>2, <2>3, LitGlows
<1> QED
  BY <1>1, <1>2, <1>3, PTL DEF Spec
-----------------------------------------------------------------------------
(* The URL.  In the array, the first n characters of the text are followed *)
(* by a zero; nothing behind it is ever read into a part.                  *)
Copied(n) ==
  /\ asked.text \in Seq(STRING)
  /\ n \in Nat /\ n <= Len(asked.text) /\ n + 1 <= MaxUrl
  /\ \A i \in 1..n : Https!At(i) = asked.text[i]
  /\ Https!At(n + 1) = Https!Nul

FromText(s) ==
  \/ s \in {<<>>, <<"/">>}
  \/ \E i \in DOMAIN asked.text :
       /\ i + Len(s) - 1 <= Len(asked.text)
       /\ SubSeq(asked.text, i, i + Len(s) - 1) = s

FromTextParts == {"scheme", "path", "query", "fragment", "path_suffix"}

LEMMA UrlConstants ==
  /\ MaxUrl \in Nat \ {0} /\ MaxHost \in Nat \ {0} /\ MaxPart \in Nat \ {0}
  /\ \A text \in Texts \cup {Https!Text(q) : q \in Questions} :
       text \in Seq(STRING)
BY TextPathsAssumption DEF Https!UrlAssumption

LEMMA UrlMin ==
  /\ \A a \in Int, b \in Int : /\ Https!Min({a, b}) \in {a, b}
                               /\ Https!Min({a, b}) <= a
                               /\ Https!Min({a, b}) <= b
  /\ \A S : S \subseteq Nat /\ S # {} =>
       Https!Min(S) \in S /\ \A n \in S : Https!Min(S) <= n
<1>1. ASSUME NEW a \in Int, NEW b \in Int
      PROVE  /\ Https!Min({a, b}) \in {a, b}
             /\ Https!Min({a, b}) <= a /\ Https!Min({a, b}) <= b
  <2>1. \E x \in {a, b} : \A y \in {a, b} : x <= y
    <3>1. CASE a <= b
      BY <3>1
    <3>2. CASE ~(a <= b)
      BY <3>2
    <3> QED
      BY <3>1, <3>2
  <2> QED
    BY <2>1 DEF Https!Min
<1>2. ASSUME NEW S, S \subseteq Nat, S # {}
      PROVE  Https!Min(S) \in S /\ \A n \in S : Https!Min(S) <= n
  <2>1. PICK m \in S : \A n \in S : m <= n
    BY <1>2, LeastElement
  <2> QED
    BY <2>1 DEF Https!Min
<1> QED
  BY <1>1, <1>2

\* A copy that starts within the text is a piece of it.
LEMMA CopyIsFromText ==
  ASSUME NEW n, Copied(n), NEW i \in Nat \ {0}, i <= n + 1, NEW l \in Int
  PROVE  FromText(Https!CString(i, l))
<1> DEFINE nul == {k \in 0..(l - 1) : Https!At(i + k) = Https!Nul}
           m == IF nul = {} THEN l ELSE Https!Min(nul)
           s == [k \in 1..m |-> Https!At(i + k - 1)]
<1>1. Https!CString(i, l) = s
  BY DEF Https!CString
<1>2. /\ n \in Nat /\ Len(asked.text) \in Nat /\ n <= Len(asked.text)
      /\ asked.text \in Seq(STRING)
  BY LenProperties DEF Copied
<1>3. m \in Int /\ m <= n + 1 - i
  <2>1. nul \subseteq Nat
    OBVIOUS
  <2>2. n + 1 - i \in 0..(l - 1) => n + 1 - i \in nul
    <3>1. i + (n + 1 - i) = n + 1
      BY <1>2
    <3> QED
      BY <3>1 DEF Copied
  <2>3. CASE nul = {}
    <3>1. ~(n + 1 - i \in 0..(l - 1)) /\ m = l
      BY <2>2, <2>3
    <3> HIDE DEF m, nul
    <3> QED
      BY <1>2, <3>1
  <2>4. CASE nul # {}
    <3>1. m \in nul /\ \A k \in nul : m <= k
      BY <2>1, <2>4, UrlMin
    <3>2. m \in Nat /\ m <= l - 1
      BY <3>1
    <3> HIDE DEF m, nul
    <3>3. CASE n + 1 - i \in 0..(l - 1)
      BY <1>2, <2>2, <3>1, <3>2, <3>3
    <3>4. CASE ~(n + 1 - i \in 0..(l - 1))
      BY <1>2, <3>2, <3>4
    <3> QED
      BY <3>3, <3>4
  <2> QED
    BY <2>3, <2>4
<1> HIDE DEF m
<1>4. CASE m <= 0
  <2>1. s = <<>>
    BY <1>3, <1>4
  <2> QED
    BY <1>1, <2>1 DEF FromText
<1>5. CASE m >= 1
  <2>1. \A k \in 1..m : Https!At(i + k - 1) = asked.text[i + k - 1]
    <3> TAKE k \in 1..m
    <3>1. i + k - 1 \in 1..n
      BY <1>2, <1>3
    <3> QED
      BY <3>1 DEF Copied
  <2>2. /\ i + m - 1 \in 1..Len(asked.text) /\ i \in 1..Len(asked.text)
        /\ m \in Nat
    BY <1>2, <1>3, <1>5
  <2>3. s \in Seq(STRING) /\ Len(s) = m
    <3>1. \A k \in 1..m : Https!At(i + k - 1) \in STRING
      <4> TAKE k \in 1..m
      <4>1. i + k - 1 \in 1..Len(asked.text)
        BY <1>2, <1>3
      <4>2. asked.text[i + k - 1] \in STRING
        BY <1>2, <4>1, ElementOfSeq
      <4> QED
        BY <2>1, <4>2
    <3>2. s \in [1..m -> STRING]
      BY <3>1
    <3> HIDE DEF s
    <3>3. s \in Seq(STRING)
      BY <2>2, <3>2, SeqDef
    <3>4. Len(s) \in Nat /\ DOMAIN s = 1..Len(s) /\ DOMAIN s = 1..m
      BY <3>2, <3>3, LenProperties
    <3>5. Len(s) = m
      <4>1. 1..Len(s) = 1..m
        BY <3>4
      <4>2. m \in 1..m
        BY <1>5, <2>2
      <4>3. m \in 1..Len(s)
        BY <4>1, <4>2
      <4>4. Len(s) \in 1..Len(s)
        BY <3>4, <4>3
      <4>5. Len(s) \in 1..m
        BY <4>1, <4>4
      <4>6. m <= Len(s) /\ Len(s) <= m /\ m \in Int /\ Len(s) \in Int
        BY <2>2, <3>4, <4>3, <4>5
      <4> QED
        BY <4>6
    <3> QED
      BY <3>3, <3>5
  <2>4. SubSeq(asked.text, i, i + m - 1) = s
    <3>1. i..(i + m - 1) \subseteq 1..Len(asked.text) /\ i + m - 1 \in Int
      BY <1>2, <2>2
    <3>2. SubSeq(asked.text, i, i + m - 1)
            = [k \in 1..(i + m - 1) - i + 1 |-> asked.text[i + k - 1]]
      BY <3>1
    <3>3. (i + m - 1) - i + 1 = m
      BY <2>2
    <3> QED
      BY <2>1, <3>2, <3>3
  <2>5. i \in DOMAIN asked.text
    BY <1>2, <2>2, LenProperties
  <2> HIDE DEF s
  <2>6. i + Len(s) - 1 = i + m - 1 /\ i + m - 1 <= Len(asked.text)
    BY <2>2, <2>3
  <2>7. FromText(s)
    BY <2>4, <2>5, <2>6 DEF FromText
  <2> QED
    BY <1>1, <2>7
<1> QED
  BY <1>3, <1>4, <1>5

\* A search that starts within the text ends within it.
LEMMA SearchStaysInText ==
  ASSUME NEW n, Copied(n), NEW i \in Nat \ {0}, i <= n + 1, NEW l \in Int,
         NEW needles
  PROVE  LET found == Https!strchr_any_len(i, needles, l)
         IN  found # Https!NULL =>
               found \in Nat /\ i <= found /\ found <= n
<1> DEFINE all ==
             {k \in i..(i + l - 1) : Https!At(k) \in needles \cup {Https!Nul}}
           r == Https!strchr_any_len(i, needles, l)
<1>1. n \in Nat
  BY DEF Copied
<1>2. all \subseteq Nat
  OBVIOUS
<1> SUFFICES ASSUME r # Https!NULL PROVE r \in Nat /\ i <= r /\ r <= n
  OBVIOUS
<1>3. all # {} /\ Https!At(Https!Min(all)) # Https!Nul /\ r = Https!Min(all)
  BY DEF Https!strchr_any_len
<1>4. r \in all /\ \A k \in all : r <= k
  BY <1>2, <1>3, UrlMin
<1>5. r \in Nat /\ i <= r /\ r <= i + l - 1 /\ r # n + 1
  <2>1. Https!At(n + 1) = Https!Nul /\ Https!At(r) # Https!Nul
    BY <1>3 DEF Copied
  <2> QED
    BY <1>4, <2>1
<1>6. ~(n + 1 < r)
  <2> SUFFICES ASSUME n + 1 < r PROVE FALSE
    OBVIOUS
  <2>1. n + 1 \in i..(i + l - 1)
    <3> HIDE DEF r, all
    <3> QED
      BY <1>1, <1>5
  <2>2. n + 1 \in all
    BY <2>1 DEF Copied
  <2> HIDE DEF r, all
  <2> QED
    BY <1>1, <1>4, <1>5, <2>2
<1> HIDE DEF r, all
<1> QED
  BY <1>1, <1>5, <1>6

LEMMA SafeCopyIsFromText ==
  ASSUME NEW n, Copied(n), NEW i \in Nat \ {0}, i <= n + 1, NEW l \in Int,
         NEW max \in Int
  PROVE  FromText(Https!safe_strncpy_len(i, l, max))
<1>1. max - 1 \in Int
  OBVIOUS
<1>2. Https!Min({l, max - 1}) \in {l, max - 1}
  BY <1>1, UrlMin
<1>3. Https!Min({l, max - 1}) \in Int
  BY <1>1, <1>2
<1> QED
  BY <1>3, CopyIsFromText DEF Https!safe_strncpy_len

LEMMA PathIsFromText ==
  ASSUME NEW n, Copied(n), NEW i \in Nat \ {0}, i <= n + 1, NEW l \in Int
  PROVE  LET what == Https!urlParse_pathQueryAndFragment(i, l)
         IN  /\ FromText(what.path) /\ FromText(what.query)
             /\ FromText(what.fragment)
<1> DEFINE hash == Https!strchr_any_len(i, {"#"}, l)
           before == IF hash = Https!NULL THEN l ELSE hash - i
           mark == Https!strchr_any_len(i, {"?"}, before)
           what == Https!urlParse_pathQueryAndFragment(i, l)
           path_len == IF mark = Https!NULL THEN before ELSE mark - i
           query_len == before - (mark - i) - 1
           fragment_len == l - (hash - i) - 1
<1>1. n \in Nat /\ MaxPart \in Int /\ FromText(<<>>)
  BY UrlConstants DEF Copied, FromText
<1>2. hash # Https!NULL => hash \in Nat /\ i <= hash /\ hash <= n
  BY SearchStaysInText
<1>3. before \in Int
  BY <1>2
<1> HIDE DEF hash
<1>4. mark # Https!NULL => mark \in Nat /\ i <= mark /\ mark <= n
  <2> HIDE DEF before
  <2> QED
    BY <1>3, SearchStaysInText
<1> HIDE DEF before, mark
<1>5. FromText(Https!safe_strncpy_len(i, path_len, MaxPart))
  <2>1. path_len \in Int
    BY <1>3, <1>4
  <2> HIDE DEF path_len
  <2> QED
    BY <1>1, <2>1, SafeCopyIsFromText
<1>6. ASSUME mark # Https!NULL
      PROVE  FromText(Https!safe_strncpy_len(mark + 1, query_len, MaxPart))
  <2>1. /\ mark + 1 \in Nat \ {0} /\ mark + 1 <= n + 1
        /\ query_len \in Int
    BY <1>1, <1>3, <1>4, <1>6
  <2> HIDE DEF query_len
  <2> QED
    BY <1>1, <2>1, SafeCopyIsFromText
<1>7. ASSUME hash # Https!NULL
      PROVE  FromText(Https!safe_strncpy_len(hash + 1, fragment_len, MaxPart))
  <2>1. /\ hash + 1 \in Nat \ {0} /\ hash + 1 <= n + 1
        /\ fragment_len \in Int
    BY <1>1, <1>2, <1>7
  <2> HIDE DEF fragment_len
  <2> QED
    BY <1>1, <2>1, SafeCopyIsFromText
<1>8. /\ what.path = Https!safe_strncpy_len(i, path_len, MaxPart)
      /\ what.query = IF mark = Https!NULL THEN <<>>
           ELSE Https!safe_strncpy_len(mark + 1, query_len, MaxPart)
      /\ what.fragment = IF hash = Https!NULL THEN <<>>
           ELSE Https!safe_strncpy_len(hash + 1, fragment_len, MaxPart)
  BY DEF Https!urlParse_pathQueryAndFragment, hash, before, mark
<1> HIDE DEF what, path_len, query_len, fragment_len
<1>9. FromText(what.path) /\ FromText(what.query) /\ FromText(what.fragment)
  BY <1>1, <1>5, <1>6, <1>7, <1>8
<1> QED
  BY <1>9 DEF what

LEMMA PastSchemeIsFromText ==
  ASSUME NEW n, Copied(n), NEW i \in Nat \ {0}, i <= n + 1, NEW l \in Int,
         NEW port
  PROVE  LET rest == Https!urlParse_pastScheme(i, l, port)
         IN  /\ FromText(rest.text.path) /\ FromText(rest.text.query)
             /\ FromText(rest.text.fragment)
             /\ FromText(rest.text.path_suffix)
<1> DEFINE authority == l >= 3 /\ Https!At(i) = "/" /\ Https!At(i + 1) = "/"
           start == i + 2
           slash == Https!strchr_any_len(start, {"/", "?", "#"}, l + 2)
           first == IF slash = Https!NULL THEN l + 2 ELSE slash - start
           where == IF authority THEN slash ELSE i
           left == IF authority THEN l + 2 - first ELSE l
           what == Https!urlParse_pathQueryAndFragment(where, left)
           rest == Https!urlParse_pastScheme(i, l, port)
<1>1. n \in Nat /\ MaxPart \in Int /\ FromText(<<>>) /\ FromText(<<"/">>)
  BY UrlConstants DEF Copied, FromText
<1>2. ASSUME where = Https!NULL
      PROVE  /\ FromText(rest.text.path) /\ FromText(rest.text.query)
             /\ FromText(rest.text.fragment) /\ FromText(rest.text.path_suffix)
  <2>1. /\ rest.text.path = <<"/">> /\ rest.text.query = <<>>
        /\ rest.text.fragment = <<>> /\ rest.text.path_suffix = <<"/">>
    BY <1>2 DEF Https!urlParse_pastScheme
  <2> HIDE DEF rest
  <2> QED
    BY <1>1, <2>1
<1>3. ASSUME where # Https!NULL
      PROVE  /\ FromText(rest.text.path) /\ FromText(rest.text.query)
             /\ FromText(rest.text.fragment) /\ FromText(rest.text.path_suffix)
  <2>1. where \in Nat \ {0} /\ where <= n + 1 /\ left \in Int
    <3>1. CASE authority
      <4>1. start \in Nat \ {0} /\ start <= n + 1 /\ l + 2 \in Int
        <5>1. i # n + 1
          BY <3>1 DEF Copied, Https!Nul
        <5>2. i + 1 # n + 1
          BY <3>1 DEF Copied, Https!Nul
        <5> QED
          BY <1>1, <5>1, <5>2
      <4>2. slash # Https!NULL /\ where = slash /\ left = l + 2 - first
        BY <1>3, <3>1
      <4>3. slash \in Nat /\ start <= slash /\ slash <= n
        <5> HIDE DEF start
        <5> QED
          BY <4>1, <4>2, SearchStaysInText
      <4>4. first = slash - start
        BY <4>2
      <4> HIDE DEF slash, start, first, where, left
      <4> QED
        BY <1>1, <4>1, <4>2, <4>3, <4>4
    <3>2. CASE ~authority
      BY <1>1, <3>2
    <3> QED
      BY <3>1, <3>2
  <2>2. /\ rest.text.path = what.path /\ rest.text.query = what.query
        /\ rest.text.fragment = what.fragment
        /\ rest.text.path_suffix = Https!safe_strncpy_len(where, left, MaxPart)
    BY <1>3 DEF Https!urlParse_pastScheme
  <2> HIDE DEF where, left, rest
  <2>3. FromText(what.path) /\ FromText(what.query) /\ FromText(what.fragment)
    BY <2>1, PathIsFromText
  <2>4. FromText(Https!safe_strncpy_len(where, left, MaxPart))
    BY <1>1, <2>1, SafeCopyIsFromText
  <2> HIDE DEF what
  <2> QED
    BY <2>2, <2>3, <2>4
<1> HIDE DEF rest
<1>4. /\ FromText(rest.text.path) /\ FromText(rest.text.query)
      /\ FromText(rest.text.fragment) /\ FromText(rest.text.path_suffix)
  BY <1>2, <1>3
<1> QED
  BY <1>4 DEF rest

LEMMA PartsAreFromText ==
  ASSUME NEW n, Copied(n), Https!urlParseGetParts.ok, NEW p \in FromTextParts
  PROVE  FromText(Https!urlParseGetParts.text[p])
<1> DEFINE colon == Https!strchr_any_len(1, {":"}, MaxUrl)
           total_len == Len(Https!CString(1, MaxUrl))
           scheme_len == colon - 1
           scheme == Https!urlParse_scheme(scheme_len)
           l == Https!size_t(total_len - scheme_len - 3)
           rest == Https!urlParse_pastScheme(colon + 1, l, scheme.port)
<1>1. n \in Nat /\ MaxPart \in Int /\ MaxUrl \in Int
  BY UrlConstants DEF Copied
<1>2. colon \in Nat \ {0} /\ colon <= n
  <2>1. colon # Https!NULL
    BY DEF Https!urlParseGetParts
  <2> QED
    BY <1>1, <2>1, SearchStaysInText
<1>3. total_len \in Int
  <2>1. Https!CString(1, MaxUrl) \in Seq({Https!At(k) : k \in Nat})
    <3> DEFINE nul == {k \in 0..(MaxUrl - 1) : Https!At(1 + k) = Https!Nul}
               m == IF nul = {} THEN MaxUrl ELSE Https!Min(nul)
    <3>1. m \in Nat
      <4>1. nul \subseteq Nat
        OBVIOUS
      <4> QED
        BY <4>1, UrlConstants, UrlMin
    <3> HIDE DEF m
    <3>2. [k \in 1..m |-> Https!At(1 + k - 1)]
            \in [1..m -> {Https!At(k) : k \in Nat}]
      BY <3>1
    <3>3. Https!CString(1, MaxUrl) = [k \in 1..m |-> Https!At(1 + k - 1)]
      BY DEF Https!CString, m
    <3> QED
      BY <3>1, <3>2, <3>3, SeqDef
  <2> QED
    BY <2>1, LenProperties
<1>4. l \in Int
  BY <1>1, <1>2, <1>3 DEF Https!size_t
<1> HIDE DEF colon, total_len, l
<1>5. /\ FromText(rest.text.path) /\ FromText(rest.text.query)
      /\ FromText(rest.text.fragment) /\ FromText(rest.text.path_suffix)
  <2>1. colon + 1 \in Nat \ {0} /\ colon + 1 <= n + 1
    BY <1>1, <1>2
  <2> HIDE DEF scheme
  <2> QED
    BY <1>4, <2>1, PastSchemeIsFromText
<1>6. FromText(scheme.scheme)
  <2>1. scheme.scheme = Https!safe_strncpy_len(1, scheme_len, MaxPart)
    BY DEF Https!urlParse_scheme
  <2>2. scheme_len \in Int /\ 1 \in Nat \ {0} /\ 1 <= n + 1
    BY <1>1, <1>2
  <2> HIDE DEF scheme, scheme_len
  <2>3. FromText(Https!safe_strncpy_len(1, scheme_len, MaxPart))
    BY <1>1, <2>2, SafeCopyIsFromText
  <2> QED
    BY <2>1, <2>3
<1>7. Https!urlParseGetParts.text[p] =
        IF p = "scheme" THEN scheme.scheme ELSE rest.text[p]
  BY DEF Https!urlParseGetParts, Https!Part, FromTextParts, colon, total_len, l
<1> HIDE DEF rest, scheme
<1> QED
  BY <1>5, <1>6, <1>7 DEF FromTextParts

\* Whatever is parsed was copied from the text of the request.
UrlInv ==
  /\ https_state \in {"IDLE", "PARSE_REQUEST_URL", "PROCESS_REQUEST", "ERROR"}
  /\ https_state = "PARSE_REQUEST_URL" => \E n \in Nat : Copied(n)
  /\ NothingFromEarlierRequests

LEMMA RequestCopiesText ==
  ASSUME NEW question, NEW text \in Seq(STRING),
         Https!APP_HTTPS_Client_Request(question, text)
  PROVE  /\ https_state' = "PARSE_REQUEST_URL" /\ (\E n \in Nat : Copied(n))'
         /\ asked' = [parts |-> question, text |-> text]
         /\ Len(text) < MaxUrl => Copied(Len(text))'
<1> DEFINE n == Https!Min({Len(text), MaxUrl - 1})
<1>1. /\ https_state' = "PARSE_REQUEST_URL"
      /\ asked' = [parts |-> question, text |-> text]
      /\ request_url' = Https!safe_strncpy(text)
  BY DEF Https!APP_HTTPS_Client_Request
<1>2. asked'.text = text /\ Len(text) \in Nat /\ MaxUrl \in Nat \ {0}
  BY <1>1, LenProperties, UrlConstants
<1>3. /\ n \in Nat /\ n <= Len(text) /\ n + 1 <= MaxUrl
      /\ Len(text) < MaxUrl => n = Len(text)
  <2>1. Len(text) \in Int /\ MaxUrl - 1 \in Int /\ MaxUrl - 1 >= 0
    BY <1>2
  <2>2. /\ n \in {Len(text), MaxUrl - 1}
        /\ n <= Len(text) /\ n <= MaxUrl - 1
    BY <2>1, UrlMin
  <2> HIDE DEF n
  <2> QED
    BY <1>2, <2>1, <2>2
<1>4. request_url' = [i \in 1..MaxUrl |-> CASE i <= n -> text[i]
                                            [] i = n + 1 -> Https!Nul
                                            [] OTHER -> request_url[i]]
  BY <1>1 DEF Https!safe_strncpy
<1> HIDE DEF n
<1>5. \A i \in 1..n : request_url'[i] = text[i]
  <2> TAKE i \in 1..n
  <2>1. i \in 1..MaxUrl /\ i <= n /\ i # n + 1
    BY <1>2, <1>3
  <2> QED
    BY <1>4, <2>1
<1>6. request_url'[n + 1] = Https!Nul
  <2>1. n + 1 \in 1..MaxUrl /\ ~(n + 1 <= n)
    BY <1>2, <1>3
  <2> QED
    BY <1>4, <2>1
<1>7. /\ \A i \in 1..n : Https!At(i)' = text[i]
      /\ Https!At(n + 1)' = Https!Nul
  <2>1. \A i \in 1..n : i <= MaxUrl
    BY <1>2, <1>3
  <2> QED
    BY <1>3, <1>5, <1>6, <2>1 DEF Https!At
<1>8. Copied(n)'
  BY <1>2, <1>3, <1>7 DEF Copied, Https!Nul
<1>9. ASSUME Len(text) < MaxUrl PROVE Copied(Len(text))'
  <2>1. n = Len(text)
    BY <1>3, <1>9
  <2> QED
    BY <1>2, <1>3, <1>7, <2>1 DEF Copied, Https!Nul
<1> QED
  BY <1>1, <1>3, <1>8, <1>9

LEMMA UrlInvStep == UrlInv /\ [Next]_vars => UrlInv'
<1> SUFFICES ASSUME UrlInv, [Next]_vars PROVE UrlInv'
  OBVIOUS
<1>1. CASE UNCHANGED url_vars
  BY <1>1 DEF UrlInv, url_vars, Copied, Https!At, NothingFromEarlierRequests,
              Https!NothingFromEarlierRequests
<1>2. ASSUME NEW question, NEW text \in Seq(STRING),
             Https!APP_HTTPS_Client_Request(question, text)
      PROVE  UrlInv'
  BY <1>2, RequestCopiesText DEF UrlInv, NothingFromEarlierRequests,
                                 Https!NothingFromEarlierRequests
<1>3. ASSUME Https!pasreRequestURL
      PROVE  UrlInv'
  <2>1. PICK n \in Nat : Copied(n)
    BY <1>3 DEF UrlInv, Https!pasreRequestURL
  <2>2. CASE Https!urlParseGetParts.ok
    <3>1. /\ https_state' = "PROCESS_REQUEST" /\ asked' = asked
          /\ parts'.text = Https!urlParseGetParts.text
      BY <1>3, <2>2 DEF Https!pasreRequestURL
    <3>2. \A p \in FromTextParts : FromText(parts'.text[p])
      BY <2>1, <2>2, <3>1, PartsAreFromText
    <3>3. NothingFromEarlierRequests'
      BY <3>1, <3>2 DEF NothingFromEarlierRequests, FromText, FromTextParts,
                        Https!NothingFromEarlierRequests
    <3> QED
      BY <3>1, <3>3 DEF UrlInv
  <2>3. CASE ~Https!urlParseGetParts.ok
    BY <1>3, <2>3 DEF UrlInv, Https!pasreRequestURL,
         NothingFromEarlierRequests, Https!NothingFromEarlierRequests
  <2> QED
    BY <2>2, <2>3
<1>4. CASE RequestUrl
  <2>1. CASE \E question \in Questions :
               Https!APP_HTTPS_Client_Request(question, Https!Text(question))
    BY <1>2, <2>1, UrlConstants
  <2>2. CASE \E text \in Texts : Https!APP_HTTPS_Client_Request(<<>>, text)
    BY <1>2, <2>2, UrlConstants
  <2> QED
    BY <1>3, <1>4, <2>1, <2>2 DEF RequestUrl, Https!Next
<1> QED
  BY <1>1, <1>4 DEF Next, ServerPage, DisplayedValue, IwSecurity, vars

(* Whatever the text of a request is, and whatever the requests before it  *)
(* have left in the array: what urlParseGetParts finds is a piece of that  *)
(* text, although the lengths it hands on are wrong.                       *)
THEOREM NothingEarlier == Spec => []NothingFromEarlierRequests
<1>1. Init => UrlInv
  BY DEF Init, Https!Init, UrlInv, NothingFromEarlierRequests,
         Https!NothingFromEarlierRequests
<1>2. UrlInv => NothingFromEarlierRequests
  BY DEF UrlInv
<1> QED
  BY <1>1, <1>2, UrlInvStep, PTL DEF Spec
-----------------------------------------------------------------------------
(* The parts of a URL.  From position i on the array holds s: all of len   *)
(* characters, or less, and the text is at its end.  What the text is made *)
(* of is named, for the provers do not know of a literal that it is a      *)
(* string.                                                                 *)
Char == STRING \cup {":", "@", "/", "?", "#", "http", "https"}

There(s, i, len) ==
  /\ s \in Seq(Char) /\ i \in Nat \ {0} /\ len \in Int
  /\ \A k \in 1..Len(s) : Https!At(i + k - 1) = s[k] /\ s[k] # Https!Nul
  /\ \/ len = Len(s)
     \/ Len(s) < len /\ Https!At(i + Len(s)) = Https!Nul

LEMMA Parted ==
  ASSUME NEW a \in Seq(Char), NEW b \in Seq(Char), NEW i, NEW len,
         There(a \o b, i, len)
  PROVE  /\ There(a, i, Len(a)) /\ There(b, i + Len(a), len - Len(a))
         /\ Len(a) \in Nat /\ Len(b) \in Nat /\ Len(a \o b) = Len(a) + Len(b)
<1>1. /\ Len(a) \in Nat /\ Len(b) \in Nat /\ Len(a \o b) = Len(a) + Len(b)
      /\ \A k \in 1..(Len(a) + Len(b)) :
           (a \o b)[k] = IF k <= Len(a) THEN a[k] ELSE b[k - Len(a)]
  BY ConcatProperties, LenProperties
<1>2. /\ i \in Nat \ {0} /\ len \in Int
      /\ \A k \in 1..(Len(a) + Len(b)) :
           Https!At(i + k - 1) = (a \o b)[k] /\ (a \o b)[k] # Https!Nul
      /\ \/ len = Len(a) + Len(b)
         \/ /\ Len(a) + Len(b) < len
            /\ Https!At(i + (Len(a) + Len(b))) = Https!Nul
  BY <1>1 DEF There
<1>3. \A k \in 1..Len(a) : Https!At(i + k - 1) = a[k] /\ a[k] # Https!Nul
  <2> TAKE k \in 1..Len(a)
  <2>1. k \in 1..(Len(a) + Len(b)) /\ k <= Len(a)
    BY <1>1
  <2> QED
    BY <1>1, <1>2, <2>1
<1>4. \A k \in 1..Len(b) :
        Https!At((i + Len(a)) + k - 1) = b[k] /\ b[k] # Https!Nul
  <2> TAKE k \in 1..Len(b)
  <2>1. PICK j : j = Len(a) + k
    OBVIOUS
  <2>2. /\ j \in 1..(Len(a) + Len(b)) /\ ~(j <= Len(a))
        /\ j - Len(a) = k /\ i + j - 1 = (i + Len(a)) + k - 1
    BY <1>1, <1>2, <2>1
  <2>3. Https!At(i + j - 1) = (a \o b)[j] /\ (a \o b)[j] # Https!Nul
    BY <1>2, <2>2
  <2>4. (a \o b)[j] = b[j - Len(a)]
    BY <1>1, <2>2
  <2> QED
    BY <2>2, <2>3, <2>4
<1>5. i + Len(a) \in Nat \ {0} /\ len - Len(a) \in Int
  BY <1>1, <1>2
<1>6. \/ len - Len(a) = Len(b)
      \/ /\ Len(b) < len - Len(a)
         /\ Https!At((i + Len(a)) + Len(b)) = Https!Nul
  <2>1. i + (Len(a) + Len(b)) = (i + Len(a)) + Len(b)
    BY <1>1, <1>2
  <2> QED
    BY <1>1, <1>2, <2>1
<1> QED
  BY <1>1, <1>2, <1>3, <1>4, <1>5, <1>6 DEF There

\* A part that fits its buffer is copied.
LEMMA CopyOfPart ==
  ASSUME NEW s, NEW i, NEW len, There(s, i, len),
         NEW max \in Nat, Len(s) < max
  PROVE  Https!safe_strncpy_len(i, len, max) = s
<1> DEFINE m == Https!Min({len, max - 1})
           nul == {k \in 0..(m - 1) : Https!At(i + k) = Https!Nul}
           l == IF nul = {} THEN m ELSE Https!Min(nul)
<1>1. /\ s \in Seq(Char) /\ i \in Nat /\ len \in Int /\ Len(s) \in Nat
      /\ \A k \in 1..Len(s) : Https!At(i + k - 1) = s[k] /\ s[k] # Https!Nul
      /\ \/ len = Len(s)
         \/ Len(s) < len /\ Https!At(i + Len(s)) = Https!Nul
  BY LenProperties DEF There
<1>2. m \in Nat /\ Len(s) <= m /\ (len = Len(s) => m = Len(s))
  <2>1. max - 1 \in Int /\ Len(s) <= max - 1
    BY <1>1
  <2>2. m \in {len, max - 1} /\ m <= len /\ m <= max - 1
    BY <1>1, <2>1, UrlMin
  <2> HIDE DEF m
  <2> QED
    BY <1>1, <2>1, <2>2
<1>3. Https!safe_strncpy_len(i, len, max)
        = [k \in 1..l |-> Https!At(i + k - 1)]
  BY DEF Https!safe_strncpy_len, Https!CString
<1> HIDE DEF m
<1>4. \A k \in 0..(Len(s) - 1) : Https!At(i + k) # Https!Nul
  <2> TAKE k \in 0..(Len(s) - 1)
  <2>1. k + 1 \in 1..Len(s) /\ i + (k + 1) - 1 = i + k
    BY <1>1
  <2> QED
    BY <1>1, <2>1
<1>5. l = Len(s)
  <2>1. nul \subseteq Nat /\ \A k \in nul : Len(s) <= k
    <3>1. \A k \in nul : k \in Nat /\ Len(s) <= k
      <4> TAKE k \in nul
      <4>1. k \in Nat /\ Https!At(i + k) = Https!Nul
        BY <1>2
      <4>2. k \notin 0..(Len(s) - 1)
        BY <1>4, <4>1
      <4> QED
        BY <1>1, <4>1, <4>2
    <3> QED
      BY <3>1
  <2>2. CASE m = Len(s)
    <3>1. nul = {}
      BY <1>1, <2>1, <2>2
    <3> QED
      BY <2>2, <3>1
  <2>3. CASE Len(s) < m
    <3>1. Len(s) \in nul
      BY <1>1, <1>2, <2>3
    <3>2. Https!Min(nul) \in nul /\ Https!Min(nul) <= Len(s)
      BY <2>1, <3>1, UrlMin
    <3>3. Https!Min(nul) = Len(s)
      <4>1. Len(s) <= Https!Min(nul) /\ Https!Min(nul) \in Nat
        BY <2>1, <3>2
      <4> QED
        BY <1>1, <3>2, <4>1
    <3> QED
      BY <3>1, <3>3
  <2> QED
    BY <1>1, <1>2, <2>2, <2>3
<1> HIDE DEF l
<1>6. [k \in 1..l |-> Https!At(i + k - 1)] = s
  <2>1. s = [k \in 1..Len(s) |-> s[k]]
    BY <1>1, LenProperties
  <2> QED
    BY <1>1, <1>5, <2>1
<1> QED
  BY <1>3, <1>6

LEMMA NotMarked ==
  ASSUME NEW s, NEW i, NEW len, There(s, i, len), NEW marks,
         Https!Without(s, marks)
  PROVE  \A k \in i..(i + Len(s) - 1) :
           Https!At(k) \notin marks \cup {Https!Nul}
<1>1. /\ s \in Seq(Char) /\ i \in Nat /\ Len(s) \in Nat
      /\ \A k \in 1..Len(s) : Https!At(i + k - 1) = s[k] /\ s[k] # Https!Nul
      /\ DOMAIN s = 1..Len(s)
  BY LenProperties DEF There
<1> TAKE k \in i..(i + Len(s) - 1)
<1>2. k - i + 1 \in 1..Len(s) /\ i + (k - i + 1) - 1 = k
  BY <1>1
<1> QED
  BY <1>1, <1>2 DEF Https!Without

\* The first mark is the one the next part begins with.
LEMMA MarkFound ==
  ASSUME NEW a \in Seq(Char), NEW b \in Seq(Char), NEW i, NEW len,
         There(a \o b, i, len), NEW marks, Https!Without(a, marks),
         b # <<>>, b[1] \in marks
  PROVE  /\ Https!strchr_any_len(i, marks, len) = i + Len(a)
         /\ i + Len(a) # Https!NULL
<1> DEFINE found ==
             {k \in i..(i + len - 1) : Https!At(k) \in marks \cup {Https!Nul}}
<1>1. /\ There(a, i, Len(a)) /\ There(b, i + Len(a), len - Len(a))
      /\ Len(a) \in Nat /\ Len(b) \in Nat
  BY Parted
<1>2. i \in Nat \ {0} /\ len \in Int /\ Len(b) # 0 /\ Len(a) < len
  <2>1. Len(b) # 0
    BY EmptySeq
  <2> QED
    BY <1>1, <2>1 DEF There
<1>3. Https!At(i + Len(a)) = b[1] /\ b[1] # Https!Nul
  <2>1. 1 \in 1..Len(b) /\ (i + Len(a)) + 1 - 1 = i + Len(a)
    BY <1>1, <1>2
  <2> QED
    BY <1>1, <2>1 DEF There
<1>4. i + Len(a) \in found /\ found \subseteq Nat
  BY <1>1, <1>2, <1>3
<1>5. \A k \in found : i + Len(a) <= k
  <2> TAKE k \in found
  <2>1. \A j \in i..(i + Len(a) - 1) :
          Https!At(j) \notin marks \cup {Https!Nul}
    BY <1>1, NotMarked
  <2>2. k \notin i..(i + Len(a) - 1)
    BY <2>1
  <2> QED
    BY <1>1, <1>2, <2>2
<1>6. Https!Min(found) = i + Len(a)
  <2> HIDE DEF found
  <2>1. Https!Min(found) \in found /\ Https!Min(found) <= i + Len(a)
    BY <1>4, UrlMin
  <2>2. i + Len(a) <= Https!Min(found) /\ Https!Min(found) \in Nat
        /\ i + Len(a) \in Nat
    BY <1>4, <1>5, <2>1
  <2> QED
    BY <2>1, <2>2
<1>7. Https!strchr_any_len(i, marks, len) = i + Len(a)
  BY <1>3, <1>4, <1>6 DEF Https!strchr_any_len
<1> QED
  BY <1>1, <1>2, <1>7 DEF Https!NULL

LEMMA MarkMissing ==
  ASSUME NEW s, NEW i, NEW len, There(s, i, len), NEW marks,
         Https!Without(s, marks)
  PROVE  Https!strchr_any_len(i, marks, len) = Https!NULL
<1> DEFINE found ==
             {k \in i..(i + len - 1) : Https!At(k) \in marks \cup {Https!Nul}}
<1>1. /\ i \in Nat \ {0} /\ len \in Int /\ Len(s) \in Nat
      /\ \/ len = Len(s)
         \/ Len(s) < len /\ Https!At(i + Len(s)) = Https!Nul
  BY LenProperties DEF There
<1>2. \A k \in found : i + Len(s) <= k /\ k \in Nat
  <2> TAKE k \in found
  <2>1. \A j \in i..(i + Len(s) - 1) :
          Https!At(j) \notin marks \cup {Https!Nul}
    BY NotMarked
  <2>2. k \notin i..(i + Len(s) - 1)
    BY <2>1
  <2> QED
    BY <1>1, <2>2
<1>3. CASE len = Len(s)
  <2>1. found = {}
    BY <1>1, <1>2, <1>3
  <2> QED
    BY <2>1 DEF Https!strchr_any_len
<1>4. CASE Len(s) < len /\ Https!At(i + Len(s)) = Https!Nul
  <2>1. i + Len(s) \in found
    BY <1>1, <1>4
  <2>2. Https!Min(found) = i + Len(s)
    <3>1. found \subseteq Nat
      BY <1>2
    <3> HIDE DEF found
    <3>2. Https!Min(found) \in found /\ Https!Min(found) <= i + Len(s)
      BY <2>1, <3>1, UrlMin
    <3>3. i + Len(s) <= Https!Min(found) /\ Https!Min(found) \in Nat
          /\ i + Len(s) \in Nat
      BY <1>1, <1>2, <3>2
    <3> QED
      BY <3>2, <3>3
  <2> QED
    BY <1>4, <2>2 DEF Https!strchr_any_len
<1> QED
  BY <1>1, <1>3, <1>4

\* The recursive functions that make a number of digits d: they exist, and
\* the same digits make the same number, wherever they are.
Sums(f, d, a, b) ==
  f = [k \in a..b |-> IF k = a THEN 0 ELSE f[k - 1] * 10 + d[k]]

SameDigits(d, a, e, c, n) == \A k \in 1..n : d[a + k] = e[c + k]

LEMMA SumsExist ==
  ASSUME NEW a \in Int, NEW b \in Int, a <= b, NEW d
  PROVE  \E f : Sums(f, d, a, b)
<1> DEFINE bad == {n \in 0..(b - a) : ~\E f : Sums(f, d, a, a + n)}
<1> SUFFICES ASSUME ~\E f : Sums(f, d, a, b) PROVE FALSE
  OBVIOUS
<1>1. bad \subseteq Nat /\ bad # {}
  <2>1. b - a \in 0..(b - a) /\ a + (b - a) = b
    OBVIOUS
  <2>2. b - a \in bad
    BY <2>1
  <2> QED
    BY <2>2
<1>2. PICK n \in bad : \A m \in bad : n <= m
  BY <1>1, LeastElement
<1>3. n \in Nat /\ n <= b - a /\ ~\E f : Sums(f, d, a, a + n)
  OBVIOUS
<1>4. CASE n = 0
  <2> DEFINE g == [k \in a..a |-> 0]
  <2>1. g = [k \in a..a |-> IF k = a THEN 0 ELSE g[k - 1] * 10 + d[k]]
    OBVIOUS
  <2> HIDE DEF g
  <2>2. Sums(g, d, a, a + n)
    BY <1>4, <2>1 DEF Sums
  <2> QED
    BY <1>3, <2>2
<1>5. CASE n # 0
  <2>1. n - 1 \in 0..(b - a) /\ n - 1 \notin bad
    <3>1. n - 1 \in 0..(b - a) /\ ~(n <= n - 1)
      BY <1>3, <1>5
    <3> HIDE DEF bad
    <3> QED
      BY <1>2, <3>1
  <2>2. PICK f : Sums(f, d, a, a + (n - 1))
    BY <2>1
  <2>3. /\ \A k \in a..(a + (n - 1)) :
             f[k] = IF k = a THEN 0 ELSE f[k - 1] * 10 + d[k]
    BY <2>2 DEF Sums
  <2> DEFINE g == [k \in a..(a + n) |-> IF k = a + n
                                         THEN f[k - 1] * 10 + d[k] ELSE f[k]]
  <2>4. ASSUME NEW k \in a..(a + n)
        PROVE  g[k] = IF k = a THEN 0 ELSE g[k - 1] * 10 + d[k]
    <3>1. /\ k # a + n => k \in a..(a + (n - 1))
          /\ k # a => k - 1 \in a..(a + n) /\ k - 1 # a + n
          /\ k = a => k # a + n
      BY <1>3, <1>5
    <3> QED
      BY <2>3, <3>1
  <2>5. g = [k \in a..(a + n) |-> IF k = a THEN 0 ELSE g[k - 1] * 10 + d[k]]
    <3>1. g = [k \in a..(a + n) |-> g[k]]
      OBVIOUS
    <3> HIDE DEF g
    <3> QED
      BY <2>4, <3>1
  <2> HIDE DEF g
  <2>6. Sums(g, d, a, a + n)
    BY <2>5 DEF Sums
  <2> QED
    BY <1>3, <2>6
<1> QED
  BY <1>4, <1>5

LEMMA SumsAgree ==
  ASSUME NEW a \in Int, NEW b \in Int, NEW c \in Int, NEW z \in Int,
         NEW n \in Nat, b = a + n, z = c + n, NEW d, NEW e,
         SameDigits(d, a, e, c, n),
         NEW f, Sums(f, d, a, b), NEW g, Sums(g, e, c, z)
  PROVE  f[b] = g[z]
<1> DEFINE bad == {k \in 0..n : f[a + k] # g[c + k]}
<1> SUFFICES ASSUME f[a + n] # g[c + n] PROVE FALSE
  OBVIOUS
<1>1. bad \subseteq Nat /\ bad # {}
  <2>1. n \in bad /\ \A k \in bad : k \in Nat
    OBVIOUS
  <2> HIDE DEF bad
  <2> QED
    BY <2>1
<1>2. PICK k \in bad : \A m \in bad : k <= m
  BY <1>1, LeastElement
<1>3. k \in 0..n /\ f[a + k] # g[c + k]
  OBVIOUS
<1>4. /\ a + k \in a..(a + n) /\ c + k \in c..(c + n)
      /\ a + k = a <=> k = 0
      /\ c + k = c <=> k = 0
      /\ (a + k) - 1 = a + (k - 1) /\ (c + k) - 1 = c + (k - 1)
  BY <1>3
<1>5. /\ f[a + k] = IF k = 0 THEN 0 ELSE f[a + (k - 1)] * 10 + d[a + k]
      /\ g[c + k] = IF k = 0 THEN 0 ELSE g[c + (k - 1)] * 10 + e[c + k]
  <2>1. f[a + k] = IF a + k = a THEN 0 ELSE f[(a + k) - 1] * 10 + d[a + k]
    BY <1>4 DEF Sums
  <2>2. g[c + k] = IF c + k = c THEN 0 ELSE g[(c + k) - 1] * 10 + e[c + k]
    BY <1>4 DEF Sums
  <2> QED
    BY <1>4, <2>1, <2>2
<1>6. k # 0
  BY <1>3, <1>5
<1>7. f[a + (k - 1)] = g[c + (k - 1)]
  <2>1. k - 1 \in 0..n /\ ~(k <= k - 1)
    BY <1>3, <1>6
  <2>2. k - 1 \notin bad
    <3> HIDE DEF bad
    <3> QED
      BY <1>2, <2>1
  <2> QED
    BY <2>1, <2>2
<1>8. k \in 1..n
  BY <1>3, <1>6
<1> QED
  BY <1>3, <1>5, <1>6, <1>7, <1>8 DEF SameDigits

LEMMA NumberRead ==
  ASSUME NEW s, NEW i, NEW len, There(s, i, len), i + Len(s) <= MaxUrl + 1,
         \A k \in DOMAIN s : s[k] \in Https!Digit,
         Https!At(i + Len(s)) \notin Https!Digit
  PROVE  Https!atoi(i) = Https!uint16_t(Https!NumberOf(s))
<1> DEFINE stop == {k \in i..(MaxUrl + 1) : Https!At(k) \notin Https!Digit}
           end == Https!Min(stop)
           n == Len(s)
           d == [k \in i..(end - 1) |-> Https!ValueOf(Https!At(k))]
           e == [k \in 1..n |-> Https!ValueOf(s[k])]
           f == CHOOSE v : v = [k \in (i - 1)..(end - 1) |->
                  IF k = i - 1 THEN 0
                  ELSE v[k - 1] * 10 + Https!ValueOf(Https!At(k))]
           g == CHOOSE v : v = [k \in 0..n |->
                  IF k = 0 THEN 0 ELSE v[k - 1] * 10 + Https!ValueOf(s[k])]
<1>1. /\ i \in Nat \ {0} /\ n \in Nat /\ DOMAIN s = 1..n
      /\ \A k \in 1..n : Https!At(i + k - 1) = s[k]
      /\ MaxUrl \in Nat
  BY LenProperties, UrlConstants DEF There
<1>2. Https!atoi(i) = Https!uint16_t(f[end - 1])
  BY DEF Https!atoi
<1>3. Https!NumberOf(s) = g[n]
  BY DEF Https!NumberOf
<1>4. end = i + n
  <2>1. i + n \in stop /\ stop \subseteq Nat
    BY <1>1
  <2>2. \A k \in stop : i + n <= k
    <3> TAKE k \in stop
    <3> SUFFICES ASSUME ~(i + n <= k) PROVE FALSE
      OBVIOUS
    <3>1. k - i + 1 \in 1..n /\ i + (k - i + 1) - 1 = k
      BY <1>1
    <3>2. Https!At(k) = s[k - i + 1]
      BY <1>1, <3>1
    <3> QED
      BY <1>1, <3>1, <3>2
  <2> HIDE DEF stop
  <2>3. end \in stop /\ end <= i + n
    BY <2>1, UrlMin
  <2>4. i + n <= end /\ end \in Nat /\ i + n \in Nat
    BY <2>1, <2>2, <2>3
  <2> HIDE DEF end, n
  <2> QED
    BY <2>3, <2>4
<1> HIDE DEF end, n
<1>5. Sums(f, d, i - 1, end - 1)
  <2>1. i - 1 \in Int /\ end - 1 \in Int /\ i - 1 <= end - 1
    BY <1>1, <1>4
  <2> HIDE DEF d
  <2>2. PICK h : Sums(h, d, i - 1, end - 1)
    BY <2>1, SumsExist
  <2> USE DEF d
  <2>3. ASSUME NEW v
        PROVE  [k \in (i - 1)..(end - 1) |->
                  IF k = i - 1 THEN 0
                  ELSE v[k - 1] * 10 + Https!ValueOf(Https!At(k))]
               = [k \in (i - 1)..(end - 1) |->
                   IF k = i - 1 THEN 0 ELSE v[k - 1] * 10 + d[k]]
    <3>1. \A k \in (i - 1)..(end - 1) : k # i - 1 => k \in i..(end - 1)
      BY <1>1, <1>4
    <3> QED
      BY <3>1
  <2>4. h = [k \in (i - 1)..(end - 1) |->
               IF k = i - 1 THEN 0
               ELSE h[k - 1] * 10 + Https!ValueOf(Https!At(k))]
    BY <2>2, <2>3 DEF Sums
  <2>5. f = [k \in (i - 1)..(end - 1) |->
               IF k = i - 1 THEN 0
               ELSE f[k - 1] * 10 + Https!ValueOf(Https!At(k))]
    BY <2>4
  <2> HIDE DEF f, d
  <2> QED
    BY <2>3, <2>5 DEF Sums
<1>6. Sums(g, e, 0, n)
  <2>1. 0 \in Int /\ n \in Int /\ 0 <= n
    BY <1>1
  <2> HIDE DEF e
  <2>2. PICK h : Sums(h, e, 0, n)
    BY <2>1, SumsExist
  <2> USE DEF e
  <2>3. ASSUME NEW v
        PROVE  [k \in 0..n |-> IF k = 0 THEN 0
                  ELSE v[k - 1] * 10 + Https!ValueOf(s[k])]
               = [k \in 0..n |-> IF k = 0 THEN 0 ELSE v[k - 1] * 10 + e[k]]
    <3>1. \A k \in 0..n : k # 0 => k \in 1..n
      BY <1>1
    <3> QED
      BY <3>1
  <2>4. h = [k \in 0..n |-> IF k = 0 THEN 0
               ELSE h[k - 1] * 10 + Https!ValueOf(s[k])]
    BY <2>2, <2>3 DEF Sums
  <2>5. g = [k \in 0..n |-> IF k = 0 THEN 0
               ELSE g[k - 1] * 10 + Https!ValueOf(s[k])]
    BY <2>4
  <2> HIDE DEF g, e
  <2> QED
    BY <2>3, <2>5 DEF Sums
<1> HIDE DEF f, g
<1>7. \A k \in 1..n : d[(i - 1) + k] = e[0 + k]
  <2> TAKE k \in 1..n
  <2>1. PICK j : j = (i - 1) + k
    OBVIOUS
  <2>2. j \in i..(end - 1) /\ j = i + k - 1 /\ 0 + k = k
    BY <1>1, <1>4, <2>1
  <2>3. Https!At(j) = s[k]
    BY <1>1, <2>2
  <2> QED
    BY <2>1, <2>2, <2>3
<1> HIDE DEF d, e
<1>8. f[(i - 1) + n] = g[0 + n]
  <2>1. PICK a \in Int, b \in Int, c \in Int :
          a = i - 1 /\ b = (i - 1) + n /\ c = 0
    BY <1>1
  <2>2. b = end - 1 /\ 0 + n = n
    BY <1>1, <1>4, <2>1
  <2>3. Sums(f, d, a, b) /\ Sums(g, e, c, n)
    BY <1>5, <1>6, <2>1, <2>2
  <2>4. /\ SameDigits(d, a, e, c, n)
        /\ b = a + n /\ n = c + n /\ n \in Int
    BY <1>1, <1>7, <2>1 DEF SameDigits
  <2>5. f[b] = g[n]
    BY <1>1, <2>3, <2>4, SumsAgree
  <2> QED
    BY <2>1, <2>2, <2>5
<1>9. (i - 1) + n = end - 1 /\ 0 + n = n
  BY <1>1, <1>4
<1> QED
  BY <1>2, <1>3, <1>8, <1>9

LEMMA WithoutGlued ==
  ASSUME NEW a \in Seq(Char), NEW b \in Seq(Char), NEW marks,
         Https!Without(a, marks), Https!Without(b, marks)
  PROVE  Https!Without(a \o b, marks)
<1>1. /\ Len(a) \in Nat /\ Len(b) \in Nat
      /\ a \o b \in Seq(Char) /\ Len(a \o b) = Len(a) + Len(b)
      /\ \A k \in 1..(Len(a) + Len(b)) :
           (a \o b)[k] = IF k <= Len(a) THEN a[k] ELSE b[k - Len(a)]
  BY ConcatProperties, LenProperties
<1>2. /\ DOMAIN (a \o b) = 1..(Len(a) + Len(b))
      /\ DOMAIN a = 1..Len(a) /\ DOMAIN b = 1..Len(b)
  BY <1>1, LenProperties
<1>3. ASSUME NEW k \in 1..(Len(a) + Len(b)) PROVE (a \o b)[k] \notin marks
  <2>1. CASE k <= Len(a)
    <3>1. k \in DOMAIN a
      BY <1>1, <1>2, <2>1
    <3> QED
      BY <1>1, <2>1, <3>1 DEF Https!Without
  <2>2. CASE ~(k <= Len(a))
    <3>1. k - Len(a) \in DOMAIN b
      BY <1>1, <1>2, <2>2
    <3> QED
      BY <1>1, <2>2, <3>1 DEF Https!Without
  <2> QED
    BY <2>1, <2>2
<1> QED
  BY <1>2, <1>3 DEF Https!Without

LEMMA Single ==
  ASSUME NEW S, NEW x \in S
  PROVE  /\ <<x>> \in Seq(S) /\ Len(<<x>>) = 1 /\ <<x>>[1] = x
         /\ DOMAIN <<x>> = 1..1 /\ \A k \in 1..1 : <<x>>[k] = x
  OBVIOUS

LEMMA AMark ==
  ASSUME NEW mark \in Char, NEW s \in Seq(Char)
  PROVE  /\ <<mark>> \in Seq(Char) /\ Len(<<mark>>) = 1
         /\ <<mark>> \o s \in Seq(Char)
         /\ <<mark>> \o s # <<>> /\ (<<mark>> \o s)[1] = mark
         /\ \A marks : mark \notin marks => Https!Without(<<mark>>, marks)
<1>1. <<mark>> \in Seq(Char) /\ Len(<<mark>>) = 1 /\ <<mark>>[1] = mark
  BY Single
<1>2. /\ <<mark>> \o s \in Seq(Char) /\ Len(<<mark>> \o s) = 1 + Len(s)
      /\ \A k \in 1..(1 + Len(s)) :
           (<<mark>> \o s)[k] = IF k <= 1 THEN <<mark>>[k] ELSE s[k - 1]
      /\ Len(s) \in Nat
  BY <1>1, ConcatProperties, LenProperties
<1>3. 1 \in 1..(1 + Len(s)) /\ 1 + Len(s) # 0
  BY <1>2
<1>4. <<mark>> \o s # <<>>
  BY <1>2, <1>3, EmptySeq
<1>5. \A marks : mark \notin marks => Https!Without(<<mark>>, marks)
  <2> TAKE marks
  <2>1. DOMAIN <<mark>> = 1..1 /\ \A k \in 1..1 : <<mark>>[k] = mark
    BY Single
  <2> QED
    BY <2>1 DEF Https!Without
<1>6. (<<mark>> \o s)[1] = mark
  BY <1>1, <1>2, <1>3
<1> QED
  BY <1>1, <1>2, <1>4, <1>5, <1>6

LEMMA AfterMark ==
  ASSUME NEW mark \in Char, NEW part \in Seq(Char)
  PROVE  /\ Https!After(mark, part) \in Seq(Char)
         /\ part = <<>> => Https!After(mark, part) = <<>>
         /\ part # <<>> => Https!After(mark, part) = <<mark>> \o part
         /\ \A marks : Https!Without(part, marks) /\ mark \notin marks =>
              Https!Without(Https!After(mark, part), marks)
<1>1. CASE part = <<>>
  <2>1. Https!After(mark, part) = part
    BY <1>1 DEF Https!After
  <2> QED
    BY <1>1, <2>1, AMark
<1>2. CASE part # <<>>
  <2>1. Https!After(mark, part) = <<mark>> \o part
    BY <1>2 DEF Https!After
  <2>2. ASSUME NEW marks, Https!Without(part, marks), mark \notin marks
        PROVE  Https!Without(<<mark>> \o part, marks)
    <3>1. <<mark>> \in Seq(Char) /\ Https!Without(<<mark>>, marks)
      BY <2>2, AMark
    <3> QED
      BY <2>2, <3>1, WithoutGlued
  <2>3. <<mark>> \o part \in Seq(Char)
    BY AMark
  <2> QED
    BY <1>2, <2>1, <2>2, <2>3
<1> QED
  BY <1>1, <1>2

\* The next part begins behind a mark.
LEMMA Behind ==
  ASSUME NEW a \in Seq(Char), NEW mark \in Char, NEW part \in Seq(Char),
         NEW i, NEW len, There(a \o (<<mark>> \o part), i, len),
         Https!Without(a, {mark})
  PROVE  LET m == Https!strchr_any_len(i, {mark}, len)
         IN  /\ m = i + Len(a) /\ m # Https!NULL /\ m \in Nat
             /\ There(a, i, m - i) /\ There(part, m + 1, len - (m - i) - 1)
<1> DEFINE b == <<mark>> \o part
           m == Https!strchr_any_len(i, {mark}, len)
<1>1. /\ b \in Seq(Char) /\ b # <<>> /\ b[1] = mark
      /\ <<mark>> \in Seq(Char) /\ Len(<<mark>>) = 1
  BY AMark
<1> HIDE DEF b
<1>2. There(a \o b, i, len)
  BY DEF b
<1>3. m = i + Len(a) /\ m # Https!NULL
  <2>1. PICK marks : marks = {mark}
    OBVIOUS
  <2>2. Https!Without(a, marks) /\ b[1] \in marks
    BY <1>1, <2>1
  <2>3. /\ Https!strchr_any_len(i, marks, len) = i + Len(a)
        /\ i + Len(a) # Https!NULL
    BY <1>1, <1>2, <2>2, MarkFound
  <2> QED
    BY <2>1, <2>3
<1>4. /\ There(a, i, Len(a)) /\ There(b, i + Len(a), len - Len(a))
      /\ Len(a) \in Nat /\ i \in Nat \ {0} /\ len \in Int
  <2>1. i \in Nat \ {0} /\ len \in Int
    BY DEF There
  <2> QED
    BY <1>1, <1>2, <2>1, Parted
<1> HIDE DEF m
<1>5. There(<<mark>> \o part, m, len - Len(a))
  BY <1>3, <1>4 DEF b
<1>6. There(part, m + 1, (len - Len(a)) - 1)
  BY <1>1, <1>5, Parted
<1>7. /\ m \in Nat /\ m - i = Len(a)
      /\ len - (m - i) - 1 = (len - Len(a)) - 1
  BY <1>3, <1>4
<1>8. There(a, i, m - i) /\ There(part, m + 1, len - (m - i) - 1)
  BY <1>4, <1>6, <1>7
<1> QED
  BY <1>3, <1>7, <1>8 DEF m

LEMMA BehindIfAny ==
  ASSUME NEW a \in Seq(Char), NEW mark \in Char, NEW part \in Seq(Char),
         NEW i, NEW len, There(a \o Https!After(mark, part), i, len),
         Https!Without(a, {mark})
  PROVE  LET m == Https!strchr_any_len(i, {mark}, len)
         IN  /\ part = <<>> => m = Https!NULL /\ There(a, i, len)
             /\ part # <<>> =>
                  /\ m = i + Len(a) /\ m # Https!NULL /\ m \in Nat
                  /\ There(a, i, m - i)
                  /\ There(part, m + 1, len - (m - i) - 1)
<1>1. CASE part = <<>>
  <2>1. a \o Https!After(mark, part) = a
    BY <1>1, AfterMark, ConcatEmptySeq
  <2> QED
    BY <1>1, <2>1, MarkMissing
<1>2. CASE part # <<>>
  <2>1. There(a \o (<<mark>> \o part), i, len)
    BY <1>2, AfterMark
  <2> QED
    BY <1>2, <2>1, Behind
<1> QED
  BY <1>1, <1>2

LEMMA FewerMarks ==
  ASSUME NEW s, NEW marks, Https!Without(s, marks),
         NEW few, few \subseteq marks
  PROVE  Https!Without(s, few)
BY Zenon DEF Https!Without

LEMMA PartsAre ==
  ASSUME NEW q, Https!WellFormed(q)
  PROVE  /\ q.user \in Seq(Char) /\ q.password \in Seq(Char)
         /\ q.host \in Seq(Char) /\ q.port \in Seq(Char)
         /\ q.path \in Seq(Char) /\ q.query \in Seq(Char)
         /\ q.fragment \in Seq(Char)
<1>1. /\ q.user \in Seq(STRING) /\ q.password \in Seq(STRING)
      /\ q.host \in Seq(STRING) /\ q.port \in Seq(STRING)
      /\ q.path \in Seq(STRING) /\ q.query \in Seq(STRING)
      /\ q.fragment \in Seq(STRING)
  BY Zenon DEF Https!WellFormed
<1>2. STRING \subseteq Char
  BY DEF Char
<1> QED
  BY <1>1, <1>2, SeqMonotonic

LEMMA PartsHaveNo ==
  ASSUME NEW q, Https!WellFormed(q)
  PROVE  /\ Https!Without(q.user, {":"})
         /\ Https!Without(q.user, {"@"})
         /\ Https!Without(q.user, {"/", "?", "#"})
         /\ Https!Without(q.password, {"@"})
         /\ Https!Without(q.password, {"/", "?", "#"})
         /\ Https!Without(q.host, {":"})
         /\ Https!Without(q.host, {"@"})
         /\ Https!Without(q.host, {"/", "?", "#"})
         /\ Https!Without(q.path, {"?"}) /\ Https!Without(q.path, {"#"})
         /\ Https!Without(q.query, {"#"})
<1>1. PICK all : all = {":", "@", "/", "?", "#"}
  OBVIOUS
<1>2. PICK most : most = {"@", "/", "?", "#"}
  OBVIOUS
<1>3. PICK two : two = {"?", "#"}
  OBVIOUS
<1>4. /\ Https!Without(q.user, all) /\ Https!Without(q.host, all)
      /\ Https!Without(q.password, most)
      /\ Https!Without(q.path, two) /\ Https!Without(q.query, {"#"})
  BY <1>1, <1>2, <1>3, Zenon DEF Https!WellFormed
<1>5. /\ {":"} \subseteq all /\ {"@"} \subseteq all
      /\ {"/", "?", "#"} \subseteq all
      /\ {"@"} \subseteq most /\ {"/", "?", "#"} \subseteq most
      /\ {"?"} \subseteq two /\ {"#"} \subseteq two
  BY <1>1, <1>2, <1>3
<1> QED
  BY <1>4, <1>5, FewerMarks, Zenon

LEMMA Marks ==
  /\ ":" \in Char /\ "@" \in Char /\ "/" \in Char
  /\ "?" \in Char /\ "#" \in Char
  /\ "http" \in Char /\ "https" \in Char
  /\ "?" \notin {"#"} /\ ":" \notin {"@"}
  /\ \A mark \in {"/", "?", "#"} : mark \notin {":", "@"}
BY DEF Char

LEMMA PartsMore ==
  ASSUME NEW q, Https!WellFormed(q)
  PROVE  /\ q.user = <<>> => q.password = <<>>
         /\ \A k \in DOMAIN q.port : q.port[k] \in Https!Digit
         /\ Https!uint16_t(Https!NumberOf(q.port)) = Https!NumberOf(q.port)
         /\ q.path # <<>> => q.path[1] = "/"
         /\ q.scheme \in {"http", "https"}
BY Zenon DEF Https!WellFormed

LEMMA PartsFit ==
  ASSUME NEW q, Https!Fits(q)
  PROVE  /\ Len(Https!Text(q)) < MaxUrl /\ Len(q.host) < MaxHost
         /\ Len(q.user) < MaxPart /\ Len(q.password) < MaxPart
         /\ Len(q.path) < MaxPart /\ Len(q.query) < MaxPart
         /\ Len(q.fragment) < MaxPart /\ Len(Https!Suffix(q)) < MaxPart
         /\ MaxPart \in Nat /\ MaxHost \in Nat /\ MaxUrl \in Nat
BY UrlConstants, Zenon DEF Https!Fits

LEMMA PathParsed ==
  ASSUME NEW q, Https!WellFormed(q), Https!Fits(q), NEW i, NEW len,
         There(Https!Suffix(q), i, len)
  PROVE  LET what == Https!urlParse_pathQueryAndFragment(i, len)
         IN  /\ what.path = q.path /\ what.query = q.query
             /\ what.fragment = q.fragment
<1> DEFINE a == q.path \o Https!After("?", q.query)
           hash == Https!strchr_any_len(i, {"#"}, len)
           before == IF hash = Https!NULL THEN len ELSE hash - i
           mark == Https!strchr_any_len(i, {"?"}, before)
           path_len == IF mark = Https!NULL THEN before ELSE mark - i
           what == Https!urlParse_pathQueryAndFragment(i, len)
<1>1. /\ q.path \in Seq(Char) /\ q.query \in Seq(Char)
      /\ q.fragment \in Seq(Char)
      /\ Len(q.path) < MaxPart /\ Len(q.query) < MaxPart
      /\ Len(q.fragment) < MaxPart /\ MaxPart \in Nat
  BY PartsAre, PartsFit
<1>2. /\ Https!Without(q.path, {"?"}) /\ Https!Without(q.path, {"#"})
      /\ Https!Without(q.query, {"#"})
      /\ "?" \in Char /\ "#" \in Char /\ "?" \notin {"#"}
  BY PartsHaveNo, Marks, Zenon
<1>3. a \in Seq(Char) /\ Https!Without(a, {"#"})
  <2>1. /\ Https!After("?", q.query) \in Seq(Char)
        /\ Https!Without(Https!After("?", q.query), {"#"})
    BY <1>1, <1>2, AfterMark
  <2> QED
    BY <1>1, <1>2, <2>1, WithoutGlued, ConcatProperties
<1>4. There(a \o Https!After("#", q.fragment), i, len)
  BY DEF Https!Suffix
<1>5. /\ q.fragment = <<>> => hash = Https!NULL /\ There(a, i, len)
      /\ q.fragment # <<>> =>
           /\ hash # Https!NULL /\ There(a, i, hash - i)
           /\ There(q.fragment, hash + 1, len - (hash - i) - 1)
  <2> HIDE DEF a
  <2> QED
    BY <1>1, <1>2, <1>3, <1>4, BehindIfAny
<1>6. There(a, i, before)
  <2> HIDE DEF hash, a
  <2> QED
    BY <1>5
<1>7. /\ q.query = <<>> => mark = Https!NULL /\ There(q.path, i, before)
      /\ q.query # <<>> =>
           /\ mark # Https!NULL /\ There(q.path, i, mark - i)
           /\ There(q.query, mark + 1, before - (mark - i) - 1)
  <2> HIDE DEF before
  <2>1. There(q.path \o Https!After("?", q.query), i, before)
    BY <1>6
  <2> QED
    BY <1>1, <1>2, <2>1, BehindIfAny
<1>8. /\ what.path = Https!safe_strncpy_len(i, path_len, MaxPart)
      /\ what.query = IF mark = Https!NULL THEN <<>>
           ELSE Https!safe_strncpy_len(mark + 1, before - (mark - i) - 1,
                                       MaxPart)
      /\ what.fragment = IF hash = Https!NULL THEN <<>>
           ELSE Https!safe_strncpy_len(hash + 1, len - (hash - i) - 1, MaxPart)
  BY DEF Https!urlParse_pathQueryAndFragment
<1> HIDE DEF what, a, hash, before, mark
<1>9. There(q.path, i, path_len)
  BY <1>7
<1> HIDE DEF path_len
<1>10. what.path = q.path
  BY <1>1, <1>8, <1>9, CopyOfPart
<1>11. what.query = q.query
  <2>1. CASE q.query = <<>>
    BY <1>7, <1>8, <2>1
  <2>2. CASE q.query # <<>>
    <3>1. /\ mark # Https!NULL
          /\ There(q.query, mark + 1, before - (mark - i) - 1)
      BY <1>7, <2>2
    <3>2. Https!safe_strncpy_len(mark + 1, before - (mark - i) - 1, MaxPart)
            = q.query
      BY <1>1, <3>1, CopyOfPart
    <3> QED
      BY <1>8, <3>1, <3>2
  <2> QED
    BY <2>1, <2>2
<1>12. what.fragment = q.fragment
  <2>1. CASE q.fragment = <<>>
    BY <1>5, <1>8, <2>1
  <2>2. CASE q.fragment # <<>>
    <3>1. /\ hash # Https!NULL
          /\ There(q.fragment, hash + 1, len - (hash - i) - 1)
      BY <1>5, <2>2
    <3>2. Https!safe_strncpy_len(hash + 1, len - (hash - i) - 1, MaxPart)
            = q.fragment
      BY <1>1, <3>1, CopyOfPart
    <3> QED
      BY <1>8, <3>1, <3>2
  <2> QED
    BY <2>1, <2>2
<1> QED
  BY <1>10, <1>11, <1>12 DEF what

LEMMA UserParsed ==
  ASSUME NEW q, Https!WellFormed(q), Https!Fits(q), NEW i, NEW len,
         There(q.user \o Https!After(":", q.password), i, len)
  PROVE  LET user == Https!urlParse_userAndPassword(i, len)
         IN  user.user = q.user /\ user.password = q.password
<1> DEFINE colon == Https!strchr_any_len(i, {":"}, len)
           user == Https!urlParse_userAndPassword(i, len)
<1>1. /\ q.user \in Seq(Char) /\ q.password \in Seq(Char)
      /\ Len(q.user) < MaxPart /\ Len(q.password) < MaxPart
      /\ MaxPart \in Nat
  BY PartsAre, PartsFit
<1>2. Https!Without(q.user, {":"}) /\ ":" \in Char
  BY PartsHaveNo, Marks, Zenon
<1>3. /\ q.password = <<>> => colon = Https!NULL /\ There(q.user, i, len)
      /\ q.password # <<>> =>
           /\ colon = i + Len(q.user) /\ colon # Https!NULL /\ colon \in Nat
           /\ There(q.user, i, colon - i)
           /\ There(q.password, colon + 1, len - (colon - i) - 1)
  BY <1>1, <1>2, BehindIfAny
<1>4. CASE q.password = <<>>
  <2>1. /\ user.user = Https!safe_strncpy_len(i, len, MaxPart)
        /\ user.password = <<>>
    BY <1>3, <1>4 DEF Https!urlParse_userAndPassword
  <2> HIDE DEF user, colon
  <2>2. user.user = q.user /\ user.password = q.password
    BY <1>1, <1>3, <1>4, <2>1, CopyOfPart
  <2> QED
    BY <2>2 DEF user
<1>5. CASE q.password # <<>>
  <2>1. /\ user.user = Https!safe_strncpy_len(i, colon - i, MaxPart)
        /\ user.password = Https!safe_strncpy_len(colon + 1,
                             len - (colon - i + 1), MaxPart)
    BY <1>3, <1>5 DEF Https!urlParse_userAndPassword
  <2>2. i \in Nat /\ len \in Int
    BY DEF There
  <2> HIDE DEF user, colon
  <2>3. len - (colon - i + 1) = len - (colon - i) - 1
    BY <1>3, <1>5, <2>2
  <2>4. user.user = q.user /\ user.password = q.password
    BY <1>1, <1>3, <1>5, <2>1, <2>3, CopyOfPart
  <2> QED
    BY <2>4 DEF user
<1> QED
  BY <1>4, <1>5

HostInfo(q) == q.host \o Https!After(":", q.port)

LEMMA HostParsed ==
  ASSUME NEW q, Https!WellFormed(q), Https!Fits(q), NEW i, NEW len,
         There(HostInfo(q), i, len),
         i + Len(HostInfo(q)) <= MaxUrl + 1,
         Https!At(i + Len(HostInfo(q))) \notin Https!Digit, NEW port
  PROVE  LET host == Https!urlParse_hostAndPort(i, len, port)
         IN  /\ host.host = q.host
             /\ host.port = IF q.port = <<>> THEN port
                            ELSE Https!NumberOf(q.port)
<1> DEFINE colon == Https!strchr_any_len(i, {":"}, len)
           host == Https!urlParse_hostAndPort(i, len, port)
<1>1. /\ q.host \in Seq(Char) /\ q.port \in Seq(Char)
      /\ \A k \in DOMAIN q.port : q.port[k] \in Https!Digit
      /\ Https!uint16_t(Https!NumberOf(q.port)) = Https!NumberOf(q.port)
      /\ Len(q.host) < MaxHost /\ MaxHost \in Nat
  BY PartsAre, PartsFit, PartsMore
<1>2. Https!Without(q.host, {":"}) /\ ":" \in Char
  BY PartsHaveNo, Marks, Zenon
<1>3. /\ q.port = <<>> => colon = Https!NULL /\ There(q.host, i, len)
      /\ q.port # <<>> =>
           /\ colon = i + Len(q.host) /\ colon # Https!NULL /\ colon \in Nat
           /\ There(q.host, i, colon - i)
           /\ There(q.port, colon + 1, len - (colon - i) - 1)
  BY <1>1, <1>2, BehindIfAny DEF HostInfo
<1>4. CASE q.port = <<>>
  <2>1. /\ host.host = Https!safe_strncpy_len(i, len, MaxHost)
        /\ host.port = port
    BY <1>3, <1>4 DEF Https!urlParse_hostAndPort
  <2> HIDE DEF host, colon
  <2>2. host.host = q.host
    BY <1>1, <1>3, <1>4, <2>1, CopyOfPart
  <2> QED
    BY <1>4, <2>1, <2>2 DEF host
<1>5. CASE q.port # <<>>
  <2>1. /\ host.host = Https!safe_strncpy_len(i, colon - i, MaxHost)
        /\ host.port = Https!atoi(colon + 1)
    BY <1>3, <1>5 DEF Https!urlParse_hostAndPort
  <2> HIDE DEF host, colon
  <2>2. host.host = q.host
    BY <1>1, <1>3, <1>5, <2>1, CopyOfPart
  <2>3. /\ i \in Nat /\ Len(q.host) \in Nat /\ Len(q.port) \in Nat
        /\ Len(HostInfo(q)) = Len(q.host) + (1 + Len(q.port))
    <3>1. /\ <<":">> \in Seq(Char) /\ Len(<<":">>) = 1
          /\ <<":">> \o q.port \in Seq(Char)
      BY <1>1, <1>2, AMark, Zenon
    <3>2. HostInfo(q) = q.host \o (<<":">> \o q.port)
      BY <1>1, <1>2, <1>5, AfterMark, Zenon DEF HostInfo
    <3>3. Len(<<":">> \o q.port) = 1 + Len(q.port)
      BY <1>1, <3>1, ConcatProperties
    <3>4. Len(HostInfo(q)) = Len(q.host) + Len(<<":">> \o q.port)
      BY <1>1, <3>1, <3>2, ConcatProperties
    <3> QED
      BY <1>1, <3>3, <3>4, LenProperties DEF There
  <2>4. (colon + 1) + Len(q.port) = i + Len(HostInfo(q))
    <3>1. PICK a \in Nat, b \in Nat : a = Len(q.host) /\ b = Len(q.port)
      BY <2>3
    <3>2. Len(HostInfo(q)) = a + (1 + b) /\ colon = i + a
      BY <1>3, <1>5, <2>3, <3>1, Zenon
    <3>3. ((i + a) + 1) + b = i + (a + (1 + b))
      BY <2>3, SMT
    <3> QED
      BY <3>1, <3>2, <3>3, Zenon
  <2>5. Https!atoi(colon + 1) = Https!uint16_t(Https!NumberOf(q.port))
    <3>1. /\ There(q.port, colon + 1, len - (colon - i) - 1)
          /\ (colon + 1) + Len(q.port) <= MaxUrl + 1
          /\ Https!At((colon + 1) + Len(q.port)) \notin Https!Digit
      BY <1>3, <1>5, <2>4
    <3> QED
      BY <1>1, <3>1, NumberRead
  <2> QED
    BY <1>1, <1>5, <2>1, <2>2, <2>5 DEF host
<1> QED
  BY <1>4, <1>5

UserInfo(q) ==
  IF q.user = <<>> THEN <<>>
  ELSE (q.user \o Https!After(":", q.password)) \o <<"@">>

Who(q) == UserInfo(q) \o HostInfo(q)

LEMMA Regrouped ==
  ASSUME NEW a \in Seq(Char), NEW b \in Seq(Char), NEW c \in Seq(Char)
  PROVE  (a \o b) \o c = a \o (b \o c)
BY ConcatAssociative

LEMMA HostInfoIs ==
  ASSUME NEW q, Https!WellFormed(q)
  PROVE  /\ HostInfo(q) \in Seq(Char)
         /\ Https!Without(HostInfo(q), {"@"})
         /\ Https!Without(HostInfo(q), {"/", "?", "#"})
<1>1. q.host \in Seq(Char) /\ q.port \in Seq(Char)
  BY PartsAre
<1>2. Https!Without(q.port, {"@"}) /\ Https!Without(q.port, {"/", "?", "#"})
  <2>1. \A k \in DOMAIN q.port : q.port[k] \in Https!Digit
    BY PartsMore
  <2>2. \A c \in Https!Digit : c \notin {"@"} /\ c \notin {"/", "?", "#"}
    BY DEF Https!Digit
  <2> QED
    BY <2>1, <2>2, Zenon DEF Https!Without
<1>3. ":" \in Char /\ ":" \notin {"@"} /\ ":" \notin {"/", "?", "#"}
  BY Marks
<1>4. PICK mark : mark = ":"
  OBVIOUS
<1>5. /\ Https!After(mark, q.port) \in Seq(Char)
      /\ Https!Without(Https!After(mark, q.port), {"@"})
      /\ Https!Without(Https!After(mark, q.port), {"/", "?", "#"})
  BY <1>1, <1>2, <1>3, <1>4, AfterMark
<1>6. Https!Without(q.host, {"@"}) /\ Https!Without(q.host, {"/", "?", "#"})
  BY PartsHaveNo, Zenon
<1>7. PICK after : after = Https!After(mark, q.port)
  OBVIOUS
<1>8. PICK one, three : one = {"@"} /\ three = {"/", "?", "#"}
  OBVIOUS
<1>9. /\ q.host \o after \in Seq(Char)
      /\ Https!Without(q.host \o after, one)
      /\ Https!Without(q.host \o after, three)
  BY <1>1, <1>5, <1>6, <1>7, <1>8, WithoutGlued, ConcatProperties
<1> QED
  BY <1>4, <1>7, <1>8, <1>9, Zenon DEF HostInfo

LEMMA UserInfoIs ==
  ASSUME NEW q, Https!WellFormed(q)
  PROVE  /\ q.user \o Https!After(":", q.password) \in Seq(Char)
         /\ Https!Without(q.user \o Https!After(":", q.password), {"@"})
         /\ <<"@">> \in Seq(Char) /\ Len(<<"@">>) = 1
         /\ UserInfo(q) \in Seq(Char)
         /\ Https!Without(UserInfo(q), {"/", "?", "#"})
<1>1. q.user \in Seq(Char) /\ q.password \in Seq(Char)
  BY PartsAre
<1>2. PICK one, three : one = {"@"} /\ three = {"/", "?", "#"}
  OBVIOUS
<1>3. /\ Https!Without(q.user, one) /\ Https!Without(q.user, three)
      /\ Https!Without(q.password, one) /\ Https!Without(q.password, three)
  BY <1>2, PartsHaveNo, Zenon
<1>4. PICK mark, at : mark = ":" /\ at = "@"
  OBVIOUS
<1>5. /\ mark \in Char /\ at \in Char
      /\ mark \notin one /\ mark \notin three /\ at \notin three
  BY <1>2, <1>4, Marks
<1>6. PICK after : after = Https!After(mark, q.password)
  OBVIOUS
<1>7. /\ after \in Seq(Char) /\ Https!Without(after, one)
      /\ Https!Without(after, three)
  BY <1>1, <1>3, <1>5, <1>6, AfterMark
<1>8. PICK a : a = q.user \o after
  OBVIOUS
<1>9. a \in Seq(Char) /\ Https!Without(a, one) /\ Https!Without(a, three)
  BY <1>1, <1>3, <1>7, <1>8, WithoutGlued, ConcatProperties
<1>10. <<at>> \in Seq(Char) /\ Len(<<at>>) = 1 /\ Https!Without(<<at>>, three)
  <2>1. <<>> \in Seq(Char)
    BY EmptySeq
  <2> QED
    BY <1>5, <2>1, AMark
<1>11. a \o <<at>> \in Seq(Char) /\ Https!Without(a \o <<at>>, three)
  BY <1>9, <1>10, WithoutGlued, ConcatProperties
<1>12. <<>> \in Seq(Char) /\ Https!Without(<<>>, three)
  BY EmptySeq DEF Https!Without
<1>13. UserInfo(q) = IF q.user = <<>> THEN <<>> ELSE a \o <<at>>
  BY <1>4, <1>6, <1>8, Zenon DEF UserInfo
<1>14. UserInfo(q) \in Seq(Char) /\ Https!Without(UserInfo(q), three)
  BY <1>11, <1>12, <1>13, Zenon
<1> QED
  BY <1>2, <1>4, <1>6, <1>8, <1>9, <1>10, <1>14, Zenon

LEMMA WhoParsed ==
  ASSUME NEW q, Https!WellFormed(q), Https!Fits(q), NEW i, NEW len,
         There(Who(q), i, len), i + Len(Who(q)) <= MaxUrl + 1,
         Https!At(i + Len(Who(q))) \notin Https!Digit, NEW port
  PROVE  LET who == Https!urlParse_userPasswordHostAndPort(i, len, port)
         IN  /\ who.user = q.user /\ who.password = q.password
             /\ who.host = q.host
             /\ who.port = IF q.port = <<>> THEN port
                           ELSE Https!NumberOf(q.port)
<1> DEFINE at == Https!strchr_any_len(i, {"@"}, len)
           who == Https!urlParse_userPasswordHostAndPort(i, len, port)
<1>1. /\ HostInfo(q) \in Seq(Char) /\ Https!Without(HostInfo(q), {"@"})
      /\ i \in Nat /\ len \in Int
  BY HostInfoIs DEF There
<1>2. CASE q.user = <<>>
  <2>1. Who(q) = HostInfo(q)
    <3>1. UserInfo(q) = <<>>
      BY <1>2 DEF UserInfo
    <3> QED
      BY <1>1, <3>1, ConcatEmptySeq DEF Who
  <2>2. at = Https!NULL
    BY <1>1, <2>1, MarkMissing
  <2>3. PICK host : host = Https!urlParse_hostAndPort(i, len, port)
    OBVIOUS
  <2>4. /\ who.user = <<>> /\ who.password = <<>>
        /\ who.host = host.host /\ who.port = host.port
    BY <2>2, <2>3 DEF Https!urlParse_userPasswordHostAndPort
  <2>5. /\ host.host = q.host
        /\ host.port = IF q.port = <<>> THEN port ELSE Https!NumberOf(q.port)
    BY <2>1, <2>3, HostParsed
  <2>6. q.password = <<>>
    BY <1>2, PartsMore
  <2> HIDE DEF who
  <2>7. /\ who.user = q.user /\ who.password = q.password
        /\ who.host = q.host
        /\ who.port = IF q.port = <<>> THEN port ELSE Https!NumberOf(q.port)
    BY <1>2, <2>4, <2>5, <2>6
  <2> QED
    BY <2>7 DEF who
<1>3. CASE q.user # <<>>
  <2>1. PICK a : a = q.user \o Https!After(":", q.password)
    OBVIOUS
  <2>2. /\ a \in Seq(Char) /\ Https!Without(a, {"@"})
        /\ <<"@">> \in Seq(Char) /\ Len(<<"@">>) = 1 /\ "@" \in Char
    BY <2>1, UserInfoIs, Marks
  <2>3. /\ Who(q) = a \o (<<"@">> \o HostInfo(q))
        /\ Len(Who(q)) = Len(a) + (1 + Len(HostInfo(q)))
        /\ Len(a) \in Nat /\ Len(HostInfo(q)) \in Nat
    <3>1. Who(q) = (a \o <<"@">>) \o HostInfo(q)
      BY <1>3, <2>1, Zenon DEF Who, UserInfo
    <3>2. PICK h : h = HostInfo(q)
      OBVIOUS
    <3>3. PICK w : w = <<"@">>
      OBVIOUS
    <3>4. a \in Seq(Char) /\ h \in Seq(Char) /\ w \in Seq(Char) /\ Len(w) = 1
      BY <1>1, <2>2, <3>2, <3>3, Zenon
    <3>5. w \o h \in Seq(Char) /\ Len(w \o h) = Len(w) + Len(h)
      BY <3>4, ConcatProperties
    <3>6. /\ (a \o w) \o h = a \o (w \o h)
          /\ Len(a \o (w \o h)) = Len(a) + Len(w \o h)
      <4>1. (a \o w) \o h = a \o (w \o h)
        BY <3>4, Regrouped
      <4>2. Len(a \o (w \o h)) = Len(a) + Len(w \o h)
        BY <3>4, <3>5, ConcatProperties
      <4> QED
        BY <4>1, <4>2
    <3>7. Len(a) \in Nat /\ Len(h) \in Nat
      BY <3>4, LenProperties
    <3> QED
      BY <3>1, <3>2, <3>3, <3>4, <3>5, <3>6, <3>7, Zenon
  <2>4. /\ at = i + Len(a) /\ at # Https!NULL /\ at \in Nat
        /\ There(a, i, at - i)
        /\ There(HostInfo(q), at + 1, len - (at - i) - 1)
    BY <1>1, <2>2, <2>3, Behind
  <2>5. PICK user, host :
          /\ user = Https!urlParse_userAndPassword(i, at - i)
          /\ host = Https!urlParse_hostAndPort(at + 1, len - (at - i + 1),
                                               port)
    OBVIOUS
  <2>6. /\ who.user = user.user /\ who.password = user.password
        /\ who.host = host.host /\ who.port = host.port
    BY <2>4, <2>5 DEF Https!urlParse_userPasswordHostAndPort
  <2> HIDE DEF who, at
  <2>7. user.user = q.user /\ user.password = q.password
    <3>1. PICK l : l = at - i
      OBVIOUS
    <3>2. /\ There(q.user \o Https!After(":", q.password), i, l)
          /\ user = Https!urlParse_userAndPassword(i, l)
      BY <2>1, <2>4, <2>5, <3>1, Zenon
    <3> QED
      BY <3>2, UserParsed
  <2>8. len - (at - i + 1) = len - (at - i) - 1
    BY <1>1, <2>4
  <2>9. (at + 1) + Len(HostInfo(q)) = i + Len(Who(q))
    BY <1>1, <2>3, <2>4
  <2>10. /\ host.host = q.host
         /\ host.port = IF q.port = <<>> THEN port ELSE Https!NumberOf(q.port)
    <3>1. PICK j, l : j = at + 1 /\ l = len - (at - i) - 1
      OBVIOUS
    <3>2. /\ There(HostInfo(q), j, l)
          /\ j + Len(HostInfo(q)) <= MaxUrl + 1
          /\ Https!At(j + Len(HostInfo(q))) \notin Https!Digit
          /\ host = Https!urlParse_hostAndPort(j, l, port)
      BY <2>4, <2>5, <2>8, <2>9, <3>1
    <3> QED
      BY <3>2, HostParsed
  <2>11. /\ who.user = q.user /\ who.password = q.password
         /\ who.host = q.host
         /\ who.port = IF q.port = <<>> THEN port ELSE Https!NumberOf(q.port)
    BY <2>6, <2>7, <2>10
  <2> QED
    BY <2>11 DEF who
<1> QED
  BY <1>2, <1>3

LEMMA SuffixIs ==
  ASSUME NEW q, Https!WellFormed(q)
  PROVE  /\ Https!Suffix(q) \in Seq(Char)
         /\ Https!Suffix(q) = <<>> =>
              q.path = <<>> /\ q.query = <<>> /\ q.fragment = <<>>
         /\ Https!Suffix(q) # <<>> => Https!Suffix(q)[1] \in {"/", "?", "#"}
<1>1. /\ q.path \in Seq(Char) /\ q.query \in Seq(Char)
      /\ q.fragment \in Seq(Char) /\ "?" \in Char /\ "#" \in Char
      /\ q.path # <<>> => q.path[1] = "/"
  BY PartsAre, PartsMore, Marks, Zenon
<1>2. PICK b, c : /\ b = Https!After("?", q.query)
                  /\ c = Https!After("#", q.fragment)
  OBVIOUS
<1>3. /\ b \in Seq(Char) /\ c \in Seq(Char)
      /\ q.query = <<>> => b = <<>>
      /\ q.query # <<>> => b # <<>> /\ b[1] = "?"
      /\ q.fragment = <<>> => c = <<>>
      /\ q.fragment # <<>> => c # <<>> /\ c[1] = "#"
  <2>1. /\ b \in Seq(Char)
        /\ q.query = <<>> => b = <<>>
        /\ q.query # <<>> => b # <<>> /\ b[1] = "?"
    <3>1. PICK mark \in Char, part \in Seq(Char) : mark = "?" /\ part = q.query
      BY <1>1, Zenon
    <3>2. b = Https!After(mark, part)
      BY <1>2, <3>1, Zenon
    <3>3. /\ b \in Seq(Char)
          /\ part = <<>> => b = <<>>
          /\ part # <<>> => b = <<mark>> \o part
      BY <3>2, AfterMark
    <3>4. <<mark>> \o part # <<>> /\ (<<mark>> \o part)[1] = mark
      BY AMark
    <3> QED
      BY <3>1, <3>3, <3>4, Zenon
  <2>2. /\ c \in Seq(Char)
        /\ q.fragment = <<>> => c = <<>>
        /\ q.fragment # <<>> => c # <<>> /\ c[1] = "#"
    <3>1. PICK mark \in Char, part \in Seq(Char) :
            mark = "#" /\ part = q.fragment
      BY <1>1, Zenon
    <3>2. c = Https!After(mark, part)
      BY <1>2, <3>1, Zenon
    <3>3. /\ c \in Seq(Char)
          /\ part = <<>> => c = <<>>
          /\ part # <<>> => c = <<mark>> \o part
      BY <3>2, AfterMark
    <3>4. <<mark>> \o part # <<>> /\ (<<mark>> \o part)[1] = mark
      BY AMark
    <3> QED
      BY <3>1, <3>3, <3>4, Zenon
  <2> QED
    BY <2>1, <2>2
<1>4. Https!Suffix(q) = (q.path \o b) \o c
  BY <1>2 DEF Https!Suffix
<1>5. q.path \o b \in Seq(Char) /\ (q.path \o b) \o c \in Seq(Char)
  BY <1>1, <1>3, ConcatProperties
<1>6. ASSUME NEW s \in Seq(Char), NEW t \in Seq(Char)
      PROVE  /\ s \o t = <<>> <=> s = <<>> /\ t = <<>>
             /\ s # <<>> => (s \o t)[1] = s[1]
             /\ s = <<>> => s \o t = t
  <2>1. s \o t = <<>> <=> s = <<>> /\ t = <<>>
    BY ConcatEqualIffEmpty
  <2>2. ASSUME s # <<>> PROVE (s \o t)[1] = s[1]
    <3>1. Len(s) \in Nat \ {0} /\ Len(t) \in Nat
      BY <2>2, EmptySeq, LenProperties
    <3>2. 1 \in 1..(Len(s) + Len(t)) /\ 1 <= Len(s)
      BY <3>1
    <3> QED
      BY <3>2, ConcatProperties
  <2>3. s = <<>> => s \o t = t
    BY ConcatEmptySeq
  <2> QED
    BY <2>1, <2>2, <2>3
<1>7. PICK a, d : a = q.path /\ d = a \o b
  OBVIOUS
<1>8. /\ a \in Seq(Char) /\ d \in Seq(Char)
      /\ a # <<>> => a[1] = "/"
      /\ d = <<>> <=> a = <<>> /\ b = <<>>
      /\ a # <<>> => d[1] = a[1]
      /\ a = <<>> => d = b
  BY <1>1, <1>3, <1>5, <1>6, <1>7
<1>9. /\ d \o c = <<>> <=> d = <<>> /\ c = <<>>
      /\ d # <<>> => (d \o c)[1] = d[1]
      /\ d = <<>> => d \o c = c
  BY <1>3, <1>6, <1>8
<1>10. Https!Suffix(q) = d \o c
  BY <1>4, <1>7
<1>11. ASSUME d \o c # <<>> PROVE (d \o c)[1] \in {"/", "?", "#"}
  BY <1>3, <1>8, <1>9, <1>11, Zenon
<1> QED
  BY <1>3, <1>5, <1>7, <1>8, <1>9, <1>10, <1>11, Zenon

\* What the buffers hold of a URL is what they should.
Right(text, q) ==
  /\ text.user = q.user /\ text.password = q.password /\ text.host = q.host
  /\ text.query = q.query /\ text.fragment = q.fragment
  /\ q.path # <<>> => text.path = q.path
  /\ IF Https!Suffix(q) = <<>>
     THEN text.path = <<"/">> /\ text.path_suffix = <<"/">>
     ELSE text.path_suffix = Https!Suffix(q)

LEMMA PastScheme ==
  ASSUME NEW q, Https!WellFormed(q), Https!Fits(q), NEW i \in Nat,
         NEW len \in Int, len >= 3, Https!At(i) = "/", Https!At(i + 1) = "/",
         There(Who(q) \o Https!Suffix(q), i + 2, len + 2), NEW n \in Nat,
         n = (i + 2) + Len(Who(q) \o Https!Suffix(q)), n <= MaxUrl,
         Https!At(n) = Https!Nul, NEW port
  PROVE  LET rest == Https!urlParse_pastScheme(i, len, port)
         IN  /\ Right(rest.text, q)
             /\ rest.port = IF q.port = <<>> THEN port
                            ELSE Https!NumberOf(q.port)
<1> DEFINE start == i + 2
           slash == Https!strchr_any_len(start, {"/", "?", "#"}, len + 2)
           first == IF slash = Https!NULL THEN len + 2 ELSE slash - start
           who == Https!urlParse_userPasswordHostAndPort(start, first, port)
           left == len + 2 - first
           what == Https!urlParse_pathQueryAndFragment(slash, left)
           rest == Https!urlParse_pastScheme(i, len, port)
           has_path == slash # Https!NULL
<1>1. /\ rest.port = who.port
      /\ rest.text.user = who.user /\ rest.text.password = who.password
      /\ rest.text.host = who.host
      /\ ~has_path => /\ rest.text.path = <<"/">>
                      /\ rest.text.path_suffix = <<"/">>
                      /\ rest.text.query = <<>> /\ rest.text.fragment = <<>>
      /\ has_path =>
           /\ rest.text.path = what.path /\ rest.text.query = what.query
           /\ rest.text.fragment = what.fragment
           /\ rest.text.path_suffix
                = Https!safe_strncpy_len(slash, left, MaxPart)
  BY DEF Https!urlParse_pastScheme
<1> HIDE DEF rest
<1>2. /\ Who(q) \in Seq(Char) /\ Https!Suffix(q) \in Seq(Char)
      /\ start \in Nat /\ MaxUrl \in Nat /\ MaxPart \in Nat
      /\ Len(Https!Suffix(q)) < MaxPart
      /\ Len(Who(q)) \in Nat /\ Len(Https!Suffix(q)) \in Nat
      /\ Len(Who(q) \o Https!Suffix(q)) = Len(Who(q)) + Len(Https!Suffix(q))
  <2>1. Who(q) \in Seq(Char)
    BY HostInfoIs, UserInfoIs, ConcatProperties DEF Who
  <2>2. Https!Suffix(q) \in Seq(Char)
    BY SuffixIs
  <2>3. /\ Len(Who(q)) \in Nat /\ Len(Https!Suffix(q)) \in Nat
        /\ Len(Who(q) \o Https!Suffix(q)) = Len(Who(q)) + Len(Https!Suffix(q))
    BY <2>1, <2>2, ConcatProperties, LenProperties
  <2> QED
    BY <2>1, <2>2, <2>3, PartsFit
<1>3. PICK marks : marks = {"/", "?", "#"}
  OBVIOUS
<1>4. Https!Without(Who(q), marks)
  BY <1>3, HostInfoIs, UserInfoIs, WithoutGlued DEF Who
<1>5. There(Who(q) \o Https!Suffix(q), start, len + 2)
  OBVIOUS
<1>6. /\ n = start + (Len(Who(q)) + Len(Https!Suffix(q)))
      /\ Https!At(n) = Https!Nul /\ n <= MaxUrl
  BY <1>2
<1>7. /\ Https!Nul \notin Https!Digit
      /\ \A c \in {"/", "?", "#"} : c \notin Https!Digit
  BY DEF Https!Nul, Https!Digit
<1> SUFFICES /\ Right(rest.text, q)
             /\ rest.port = IF q.port = <<>> THEN port
                            ELSE Https!NumberOf(q.port)
  BY DEF rest
<1>8. CASE Https!Suffix(q) = <<>>
  <2>1. Who(q) \o Https!Suffix(q) = Who(q) /\ Len(Https!Suffix(q)) = 0
    BY <1>2, <1>8, ConcatEmptySeq, EmptySeq
  <2>2. There(Who(q), start, len + 2)
    BY <1>5, <2>1
  <2>3. slash = Https!NULL
    BY <1>3, <1>4, <2>2, MarkMissing
  <2>4. There(Who(q), start, first)
    BY <2>2, <2>3
  <2> HIDE DEF first, slash, start
  <2>5. /\ start + Len(Who(q)) <= MaxUrl + 1
        /\ Https!At(start + Len(Who(q))) \notin Https!Digit
    <3>1. n = start + Len(Who(q))
      BY <1>2, <1>6, <2>1
    <3> QED
      BY <1>2, <1>6, <1>7, <3>1
  <2>6. /\ who.user = q.user /\ who.password = q.password
        /\ who.host = q.host
        /\ who.port = IF q.port = <<>> THEN port ELSE Https!NumberOf(q.port)
    BY <2>4, <2>5, WhoParsed
  <2> HIDE DEF who, what
  <2>7. q.path = <<>> /\ q.query = <<>> /\ q.fragment = <<>>
    BY <1>8, SuffixIs
  <2> QED
    BY <1>1, <1>8, <2>3, <2>6, <2>7 DEF Right
<1>9. CASE Https!Suffix(q) # <<>>
  <2>1. Https!Suffix(q)[1] \in marks
    BY <1>3, <1>9, SuffixIs
  <2>2. slash = start + Len(Who(q)) /\ slash # Https!NULL
    <3>1. /\ Https!strchr_any_len(start, marks, len + 2) = start + Len(Who(q))
          /\ start + Len(Who(q)) # Https!NULL
      BY <1>2, <1>4, <1>5, <1>9, <2>1, MarkFound
    <3> QED
      BY <1>3, <3>1
  <2>3. /\ There(Who(q), start, Len(Who(q)))
        /\ There(Https!Suffix(q), start + Len(Who(q)), len + 2 - Len(Who(q)))
    BY <1>2, <1>5, Parted
  <2> HIDE DEF slash, start
  <2>4. first = Len(Who(q))
    BY <1>2, <2>2
  <2>5. There(Who(q), start, first) /\ There(Https!Suffix(q), slash, left)
    BY <2>2, <2>3, <2>4
  <2> HIDE DEF first, left
  <2>6. /\ start + Len(Who(q)) <= MaxUrl + 1
        /\ Https!At(start + Len(Who(q))) \notin Https!Digit
    <3>1. start + Len(Who(q)) <= MaxUrl + 1
      BY <1>2, <1>6
    <3>2. Https!At(slash) = Https!Suffix(q)[1]
      <4>1. Len(Https!Suffix(q)) # 0
        BY <1>2, <1>9, EmptySeq
      <4>2. 1 \in 1..Len(Https!Suffix(q)) /\ slash + 1 - 1 = slash
        BY <1>2, <2>2, <4>1
      <4> QED
        BY <2>5, <4>2 DEF There
    <3> QED
      BY <1>3, <1>7, <2>1, <2>2, <3>1, <3>2
  <2>7. /\ who.user = q.user /\ who.password = q.password
        /\ who.host = q.host
        /\ who.port = IF q.port = <<>> THEN port ELSE Https!NumberOf(q.port)
    BY <2>5, <2>6, WhoParsed
  <2>8. /\ what.path = q.path /\ what.query = q.query
        /\ what.fragment = q.fragment
    BY <2>5, PathParsed
  <2>9. Https!safe_strncpy_len(slash, left, MaxPart) = Https!Suffix(q)
    BY <1>2, <2>5, CopyOfPart
  <2> HIDE DEF who, what
  <2> QED
    BY <1>1, <1>9, <2>2, <2>7, <2>8, <2>9 DEF Right
<1> QED
  BY <1>8, <1>9

LEMMA QuestionsAre ==
  ASSUME NEW q \in Questions
  PROVE  /\ Https!WellFormed(q) /\ MaxPart \in Nat /\ 1 < MaxPart
         /\ \A k \in DOMAIN Https!Text(q) : Https!Text(q)[k] # Https!Nul
<1>1. Https!Text(q) \in Texts \cup {Https!Text(p) : p \in Questions}
  OBVIOUS
<1>2. /\ \A text \in Texts \cup {Https!Text(p) : p \in Questions} :
           \A k \in DOMAIN text : text[k] # Https!Nul
      /\ Https!WellFormed(q)
  BY TextPathsAssumption, Zenon DEF Https!UrlAssumption
<1>3. MaxPart \in Nat \ {0, 1}
  BY TextPathsAssumption, Zenon DEF Https!UrlAssumption
<1>4. MaxPart \in Nat /\ 1 < MaxPart
  BY <1>3
<1> QED
  BY <1>1, <1>2, <1>4, Zenon

LEMMA Four ==
  ASSUME NEW S, NEW a \in S, NEW b \in S, NEW c \in S, NEW d \in S
  PROVE  /\ <<a, b, c, d>> \in Seq(S) /\ Len(<<a, b, c, d>>) = 4
         /\ <<a, b, c, d>>[1] = a /\ <<a, b, c, d>>[2] = b
         /\ <<a, b, c, d>>[3] = c /\ <<a, b, c, d>>[4] = d
  OBVIOUS

\* The text begins with the scheme and three marks, behind them is who and
\* what is asked for.
Opening(q) == <<q.scheme, ":", "/", "/">>
Body(q) == Who(q) \o Https!Suffix(q)

LEMMA TextIs ==
  ASSUME NEW q, Https!WellFormed(q)
  PROVE  /\ Opening(q) \in Seq(Char) /\ Len(Opening(q)) = 4
         /\ Opening(q)[1] = q.scheme /\ Opening(q)[2] = ":"
         /\ Opening(q)[3] = "/" /\ Opening(q)[4] = "/"
         /\ Body(q) \in Seq(Char) /\ Https!Text(q) = Opening(q) \o Body(q)
<1>1. q.scheme \in Char /\ ":" \in Char /\ "/" \in Char
  BY PartsMore, Marks
<1>2. PICK scheme \in Char, colon \in Char, slash \in Char :
        scheme = q.scheme /\ colon = ":" /\ slash = "/"
  BY <1>1, Zenon
<1>3. Opening(q) = <<scheme, colon, slash, slash>>
  BY <1>2, Zenon DEF Opening
<1>4. /\ Opening(q) \in Seq(Char) /\ Len(Opening(q)) = 4
      /\ Opening(q)[1] = scheme /\ Opening(q)[2] = colon
      /\ Opening(q)[3] = slash /\ Opening(q)[4] = slash
  BY <1>3, Four
<1>5. PICK h, u, n, p, s : h = Opening(q) /\ u = UserInfo(q) /\ n = q.host
                           /\ p = Https!After(":", q.port)
                           /\ s = Https!Suffix(q)
  OBVIOUS
<1>6. /\ h \in Seq(Char) /\ u \in Seq(Char) /\ n \in Seq(Char)
      /\ p \in Seq(Char) /\ s \in Seq(Char)
  <2>1. PICK mark \in Char, part \in Seq(Char) : mark = ":" /\ part = q.port
    BY <1>1, PartsAre, Zenon
  <2>2. Https!After(mark, part) \in Seq(Char)
    BY AfterMark
  <2>3. p \in Seq(Char)
    BY <1>5, <2>1, <2>2, Zenon
  <2> QED
    BY <1>4, <1>5, <2>3, PartsAre, UserInfoIs, SuffixIs, Zenon
<1>7. Https!Text(q) = (((h \o u) \o n) \o p) \o s
  BY <1>5, Zenon DEF Https!Text, Opening, UserInfo
<1>8. Body(q) = (u \o (n \o p)) \o s
  BY <1>5, Zenon DEF Body, Who, HostInfo
<1>9. PICK x, y, w : x = h \o u /\ y = n \o p /\ w = u \o y
  OBVIOUS
<1>10. x \in Seq(Char) /\ y \in Seq(Char)
  BY <1>6, <1>9, ConcatProperties
<1>11. w \in Seq(Char)
  BY <1>6, <1>9, <1>10, ConcatProperties
<1>12. (x \o n) \o p = x \o (n \o p)
  <2>1. x \in Seq(Char) /\ n \in Seq(Char) /\ p \in Seq(Char)
    BY <1>6, <1>10
  <2> QED
    BY <2>1, Regrouped
<1>13. (h \o u) \o y = h \o (u \o y)
  BY <1>6, <1>10, Regrouped
<1>14. (h \o w) \o s = h \o (w \o s)
  BY <1>6, <1>11, Regrouped
<1>15. w \o s \in Seq(Char)
  BY <1>6, <1>11, ConcatProperties
<1>16. /\ Https!Text(q) = h \o (w \o s) /\ Body(q) = w \o s
  BY <1>7, <1>8, <1>9, <1>12, <1>13, <1>14, Zenon
<1> QED
  BY <1>2, <1>4, <1>5, <1>15, <1>16, Zenon

LEMMA TextThere ==
  ASSUME NEW q \in Questions, Https!WellFormed(q),
         asked.text = Https!Text(q), Copied(Len(asked.text))
  PROVE  /\ There(Https!Text(q), 1, MaxUrl)
         /\ Len(Https!Text(q)) \in Nat /\ Len(Https!Text(q)) < MaxUrl
<1>1. PICK t : t = Https!Text(q)
  OBVIOUS
<1>2. t \in Seq(Char)
  <2>1. PICK h, b : h = Opening(q) /\ b = Body(q)
    OBVIOUS
  <2>2. h \in Seq(Char) /\ b \in Seq(Char) /\ t = h \o b
    BY <1>1, <2>1, TextIs
  <2> QED
    BY <2>2, ConcatProperties
<1>3. /\ Len(t) \in Nat /\ Len(t) + 1 <= MaxUrl /\ MaxUrl \in Nat
      /\ \A k \in 1..Len(t) : Https!At(k) = t[k]
      /\ Https!At(Len(t) + 1) = Https!Nul
  BY <1>1, UrlConstants DEF Copied
<1>4. \A k \in 1..Len(t) : t[k] # Https!Nul
  BY <1>1, <1>2, QuestionsAre, LenProperties
<1>5. \A k \in 1..Len(t) : Https!At(1 + k - 1) = t[k] /\ t[k] # Https!Nul
  <2> TAKE k \in 1..Len(t)
  <2>1. 1 + k - 1 = k
    BY <1>3
  <2> QED
    BY <1>3, <1>4, <2>1
<1>6. 1 + Len(t) = Len(t) + 1 /\ Len(t) < MaxUrl
  BY <1>3
<1> QED
  BY <1>1, <1>2, <1>3, <1>5, <1>6 DEF There

LEMMA SchemeParsed ==
  ASSUME NEW q, Https!WellFormed(q), Https!At(1) = q.scheme,
         q.scheme # Https!Nul, MaxPart \in Nat, 1 < MaxPart
  PROVE  LET scheme == Https!urlParse_scheme(1)
         IN  /\ scheme.scheme = <<q.scheme>>
             /\ q.port = <<>> => scheme.port = Https!PortOf(q)
<1>1. q.scheme \in {"http", "https"} /\ q.scheme \in Char
  BY PartsMore, Marks
<1>2. PICK c \in Char : c = q.scheme
  BY <1>1
<1>3. PICK s : s = <<c>>
  OBVIOUS
<1>4. s \in Seq(Char) /\ Len(s) = 1 /\ \A k \in 1..1 : s[k] = c
  BY <1>3, Single
<1>5. There(s, 1, 1)
  <2>1. \A k \in 1..Len(s) : Https!At(1 + k - 1) = s[k] /\ s[k] # Https!Nul
    <3> TAKE k \in 1..Len(s)
    <3>1. k = 1 /\ 1 + k - 1 = 1 /\ s[k] = c
      BY <1>4
    <3> QED
      BY <1>2, <3>1
  <2> QED
    BY <1>4, <2>1 DEF There
<1>6. Https!safe_strncpy_len(1, 1, MaxPart) = s
  <2>1. Len(s) < MaxPart
    BY <1>4
  <2> QED
    BY <1>5, <2>1, CopyOfPart
<1>7. Https!urlParse_scheme(1).scheme = <<q.scheme>>
  BY <1>2, <1>3, <1>6, Zenon DEF Https!urlParse_scheme
<1>8. ASSUME q.port = <<>>
      PROVE  Https!urlParse_scheme(1).port = Https!PortOf(q)
  <2>1. CASE q.scheme = "https"
    BY <1>8, <2>1 DEF Https!urlParse_scheme, Https!PortOf
  <2>2. CASE q.scheme = "http"
    BY <1>8, <2>2 DEF Https!urlParse_scheme, Https!PortOf
  <2> QED
    BY <1>1, <2>1, <2>2
<1> QED
  BY <1>7, <1>8

LEMMA PartsGot ==
  ASSUME NEW q \in Questions, Https!Fits(q), Len(Https!Text(q)) >= 7,
         asked.text = Https!Text(q), Copied(Len(asked.text))
  PROVE  /\ Https!urlParseGetParts.ok
         /\ Https!urlParseGetParts.port = Https!PortOf(q)
         /\ Https!urlParseGetParts.text.scheme = <<q.scheme>>
         /\ Right(Https!urlParseGetParts.text, q)
<1> DEFINE colon == Https!strchr_any_len(1, {":"}, MaxUrl)
           total_len == Len(Https!CString(1, MaxUrl))
           scheme_len == colon - 1
           scheme == Https!urlParse_scheme(scheme_len)
           l == Https!size_t(total_len - scheme_len - 3)
           rest == Https!urlParse_pastScheme(colon + 1, l, scheme.port)
           got == Https!urlParseGetParts
<1>1. /\ Https!WellFormed(q) /\ MaxPart \in Nat /\ 1 < MaxPart
      /\ MaxUrl \in Nat
  BY QuestionsAre, UrlConstants
<1>2. PICK t, h, b : t = Https!Text(q) /\ h = Opening(q) /\ b = Body(q)
  OBVIOUS
<1>3. /\ h \in Seq(Char) /\ Len(h) = 4 /\ h[1] = q.scheme /\ h[2] = ":"
      /\ h[3] = "/" /\ h[4] = "/" /\ b \in Seq(Char) /\ t = h \o b
  BY <1>1, <1>2, TextIs
<1>4. There(t, 1, MaxUrl) /\ Len(t) \in Nat /\ Len(t) < MaxUrl /\ Len(t) >= 7
  BY <1>1, <1>2, TextThere
<1>5. There(h, 1, 4) /\ There(b, 5, MaxUrl - 4) /\ Len(t) = 4 + Len(b)
  <2>1. There(h \o b, 1, MaxUrl)
    BY <1>3, <1>4
  <2>2. /\ There(h, 1, Len(h)) /\ There(b, 1 + Len(h), MaxUrl - Len(h))
        /\ Len(h \o b) = Len(h) + Len(b)
    BY <1>3, <2>1, Parted
  <2> QED
    BY <1>3, <2>2
<1>6. /\ Https!At(1) = q.scheme /\ q.scheme # Https!Nul
      /\ Https!At(2) = ":" /\ Https!At(3) = "/" /\ Https!At(4) = "/"
  <2>1. \A k \in 1..4 : Https!At(1 + k - 1) = h[k] /\ h[k] # Https!Nul
    BY <1>3, <1>5 DEF There
  <2>2. /\ 1 \in 1..4 /\ 2 \in 1..4 /\ 3 \in 1..4 /\ 4 \in 1..4
        /\ 1 + 1 - 1 = 1 /\ 1 + 2 - 1 = 2 /\ 1 + 3 - 1 = 3 /\ 1 + 4 - 1 = 4
    OBVIOUS
  <2>3. /\ Https!At(1) = h[1] /\ h[1] # Https!Nul /\ Https!At(2) = h[2]
        /\ Https!At(3) = h[3] /\ Https!At(4) = h[4]
    BY <2>1, <2>2
  <2> QED
    BY <1>3, <2>3
<1>7. Https!At(Len(t) + 1) = Https!Nul
  BY <1>4, <1>5 DEF There
<1>8. colon = 2 /\ colon # Https!NULL
  <2> DEFINE found == {k \in 1..(1 + MaxUrl - 1) :
                         Https!At(k) \in {":"} \cup {Https!Nul}}
  <2>1. 2 \in found /\ 1 \notin found /\ found \subseteq Nat
    <3>1. 2 \in 1..(1 + MaxUrl - 1)
      BY <1>1, <1>4
    <3>2. Https!At(1) \notin {":"} \cup {Https!Nul}
      BY <1>1, <1>6, PartsMore
    <3> QED
      BY <1>6, <3>1, <3>2
  <2>2. \A k \in found : 1 <= k
    BY <1>1
  <2> HIDE DEF found
  <2>3. Https!Min(found) = 2
    <3>1. Https!Min(found) \in found /\ Https!Min(found) <= 2
      BY <2>1, UrlMin
    <3>2. Https!Min(found) \in Nat /\ 1 <= Https!Min(found)
          /\ Https!Min(found) # 1
      BY <2>1, <2>2, <3>1
    <3> QED
      BY <3>1, <3>2
  <2>4. Https!At(2) # Https!Nul
    BY <1>6 DEF Https!Nul
  <2>5. colon = 2
    BY <2>1, <2>3, <2>4 DEF Https!strchr_any_len, found
  <2> QED
    BY <2>5 DEF Https!NULL
<1>9. total_len = Len(t)
  <2>1. PICK max \in Nat : max = MaxUrl + 1
    BY <1>1
  <2>2. Https!safe_strncpy_len(1, MaxUrl, max) = t
    <3>1. Len(t) < max
      BY <1>1, <1>4, <2>1
    <3> QED
      BY <1>4, <3>1, CopyOfPart
  <2>3. Https!Min({MaxUrl, max - 1}) = MaxUrl
    <3>1. max - 1 = MaxUrl /\ MaxUrl \in Int
      BY <1>1, <2>1
    <3> QED
      BY <3>1, UrlMin
  <2> QED
    BY <2>2, <2>3 DEF Https!safe_strncpy_len
<1>10. scheme_len = 1
  BY <1>8
<1>11. /\ scheme.scheme = <<q.scheme>>
       /\ q.port = <<>> => scheme.port = Https!PortOf(q)
  BY <1>1, <1>6, <1>10, SchemeParsed
<1> HIDE DEF colon, total_len, scheme, scheme_len
<1>12. l = Len(t) - 4 /\ l \in Int /\ l >= 3
  <2>1. total_len - scheme_len - 3 = Len(t) - 4 /\ Len(t) - 4 >= 0
    BY <1>4, <1>9, <1>10
  <2> QED
    BY <1>4, <2>1 DEF Https!size_t
<1> HIDE DEF l
<1>13. /\ Right(rest.text, q)
       /\ rest.port = IF q.port = <<>> THEN scheme.port
                      ELSE Https!NumberOf(q.port)
  <2>1. PICK i \in Nat, n \in Nat : i = colon + 1 /\ n = Len(t) + 1
    BY <1>4, <1>8
  <2>2. /\ i = 3 /\ i + 1 = 4 /\ i + 2 = 5 /\ n <= MaxUrl
        /\ Https!At(n) = Https!Nul /\ Https!At(i) = "/"
        /\ Https!At(i + 1) = "/"
    BY <1>1, <1>4, <1>6, <1>7, <1>8, <2>1
  <2>3. n = (i + 2) + Len(b)
    <3>1. Len(b) \in Nat
      BY <1>3, LenProperties
    <3> QED
      BY <1>5, <2>1, <2>2, <3>1
  <2>4. There(b, i + 2, l + 2)
    <3>1. Len(b) < l + 2
      <4>1. Len(b) \in Nat
        BY <1>3, LenProperties
      <4> QED
        BY <1>5, <1>12, <4>1
    <3>2. Https!At(5 + Len(b)) = Https!Nul
      BY <2>2, <2>3
    <3>3. /\ b \in Seq(Char) /\ 5 \in Nat \ {0}
          /\ \A k \in 1..Len(b) :
               Https!At(5 + k - 1) = b[k] /\ b[k] # Https!Nul
      BY <1>5 DEF There
    <3> QED
      BY <1>12, <2>2, <3>1, <3>2, <3>3 DEF There
  <2>5. /\ There(Who(q) \o Https!Suffix(q), i + 2, l + 2)
        /\ n = (i + 2) + Len(Who(q) \o Https!Suffix(q))
    BY <1>2, <2>3, <2>4, Zenon DEF Body
  <2>6. rest = Https!urlParse_pastScheme(i, l, scheme.port)
    BY <2>1
  <2> HIDE DEF rest
  <2> QED
    BY <1>1, <1>12, <2>2, <2>5, <2>6, PastScheme
<1>14. /\ got.ok /\ got.port = rest.port
       /\ got.text.scheme = scheme.scheme
       /\ \A p \in Https!Part \ {"scheme"} : got.text[p] = rest.text[p]
  BY <1>8 DEF Https!urlParseGetParts, Https!Part, colon, total_len, scheme,
              scheme_len, l
<1> HIDE DEF rest, got
<1>15. got.port = Https!PortOf(q)
  BY <1>11, <1>13, <1>14 DEF Https!PortOf
<1>16. Right(got.text, q)
  <2>1. /\ got.text.user = rest.text.user
        /\ got.text.password = rest.text.password
        /\ got.text.host = rest.text.host /\ got.text.path = rest.text.path
        /\ got.text.query = rest.text.query
        /\ got.text.fragment = rest.text.fragment
        /\ got.text.path_suffix = rest.text.path_suffix
    BY <1>14 DEF Https!Part
  <2> QED
    BY <1>13, <2>1, Zenon DEF Right
<1> QED
  BY <1>11, <1>14, <1>15, <1>16 DEF got

\* A URL that is parsed was put together from the parts that are remembered,
\* and is there as a whole if it fits.
AskedInv ==
  /\ https_state \in {"IDLE", "PARSE_REQUEST_URL", "PROCESS_REQUEST", "ERROR"}
  /\ asked.parts # <<>> =>
       asked.parts \in Questions /\ asked.text = Https!Text(asked.parts)
  /\ https_state = "PARSE_REQUEST_URL" /\ Len(asked.text) < MaxUrl =>
       Copied(Len(asked.text))
  /\ PartsAreTheOnesAskedFor

LEMMA AskedInvStep == AskedInv /\ [Next]_vars => AskedInv'
<1> SUFFICES ASSUME AskedInv, [Next]_vars PROVE AskedInv'
  OBVIOUS
<1>1. CASE UNCHANGED url_vars
  BY <1>1 DEF AskedInv, url_vars, Copied, Https!At, PartsAreTheOnesAskedFor,
              Https!PartsAreTheOnesAskedFor
<1>2. ASSUME NEW question, NEW text \in Seq(STRING),
             Https!APP_HTTPS_Client_Request(question, text),
             question # <<>> =>
               question \in Questions /\ text = Https!Text(question)
      PROVE  AskedInv'
  <2>1. /\ https_state' = "PARSE_REQUEST_URL"
        /\ asked' = [parts |-> question, text |-> text]
        /\ Len(text) < MaxUrl => Copied(Len(text))'
    BY <1>2, RequestCopiesText
  <2>2. asked'.parts = question /\ asked'.text = text
    BY <2>1
  <2>3. PartsAreTheOnesAskedFor'
    BY <2>1 DEF PartsAreTheOnesAskedFor, Https!PartsAreTheOnesAskedFor
  <2>4. Len(asked'.text) < MaxUrl => Copied(Len(asked.text))'
    BY <2>1, <2>2 DEF Copied
  <2> QED
    BY <1>2, <2>1, <2>2, <2>3, <2>4 DEF AskedInv
<1>3. ASSUME Https!pasreRequestURL
      PROVE  AskedInv'
  <2>1. /\ https_state = "PARSE_REQUEST_URL" /\ asked' = asked
        /\ https_state' \in {"PROCESS_REQUEST", "ERROR"}
        /\ Https!urlParseGetParts.ok =>
             /\ https_state' = "PROCESS_REQUEST"
             /\ parts'.port = Https!urlParseGetParts.port
             /\ parts'.text = Https!urlParseGetParts.text
    BY <1>3 DEF Https!pasreRequestURL
  <2>2. ASSUME asked.parts # <<>>, Https!Fits(asked.parts),
               Len(Https!Text(asked.parts)) >= 7
        PROVE  /\ https_state' = "PROCESS_REQUEST"
               /\ parts'.port = Https!PortOf(asked.parts)
               /\ parts'.text.scheme = <<asked.parts.scheme>>
               /\ Right(parts'.text, asked.parts)
    <3>1. PICK q \in Questions : q = asked.parts /\ asked.text = Https!Text(q)
      BY <2>2 DEF AskedInv
    <3>2. Len(asked.text) < MaxUrl
      BY <2>2, <3>1, PartsFit
    <3>3. Copied(Len(asked.text))
      BY <2>1, <3>2 DEF AskedInv
    <3>4. /\ Https!urlParseGetParts.ok
          /\ Https!urlParseGetParts.port = Https!PortOf(q)
          /\ Https!urlParseGetParts.text.scheme = <<q.scheme>>
          /\ Right(Https!urlParseGetParts.text, q)
      BY <2>2, <3>1, <3>3, PartsGot
    <3> QED
      BY <2>1, <3>1, <3>4
  <2>3. PartsAreTheOnesAskedFor'
    BY <2>1, <2>2, Zenon DEF PartsAreTheOnesAskedFor, Right,
                             Https!PartsAreTheOnesAskedFor
  <2> QED
    BY <2>1, <2>3 DEF AskedInv
<1>4. CASE RequestUrl
  <2>1. CASE \E question \in Questions :
               Https!APP_HTTPS_Client_Request(question, Https!Text(question))
    BY <1>2, <2>1, UrlConstants
  <2>2. CASE \E text \in Texts : Https!APP_HTTPS_Client_Request(<<>>, text)
    BY <1>2, <2>2, UrlConstants
  <2> QED
    BY <1>3, <1>4, <2>1, <2>2 DEF RequestUrl, Https!Next
<1> QED
  BY <1>1, <1>4 DEF Next, ServerPage, DisplayedValue, IwSecurity, vars

(* However the parts of a URL are combined, as long as they fit the        *)
(* buffers, and whatever earlier requests have left in the array:          *)
(* urlParseGetParts finds every one of them as it was, in its own buffer,  *)
(* and the port that is given or belongs to the scheme.  Nothing is said   *)
(* of the path of a URL that goes on with its query or fragment.           *)
THEOREM PartsFound == Spec => []PartsAreTheOnesAskedFor
<1>1. Init => AskedInv
  BY DEF Init, Https!Init, AskedInv, PartsAreTheOnesAskedFor,
         Https!PartsAreTheOnesAskedFor
<1>2. AskedInv => PartsAreTheOnesAskedFor
  BY DEF AskedInv
<1> QED
  BY <1>1, <1>2, AskedInvStep, PTL DEF Spec
=============================================================================

----------------------------- MODULE BitVectors -----------------------------
(***************************************************************************)
(* Bit vectors as pydrofoil/bitvector.py keeps them: up to the width of a  *)
(* word in one word (SmallBitVector); wider ones in one word if the rest   *)
(* is known to be zero (SparseBitVector), else in an array of words        *)
(* (GenericBitVector).  A value has one small, or up to two wide           *)
(* representations: a generic vector may hold a number that would fit a    *)
(* sparse one.                                                             *)
(***************************************************************************)
EXTENDS Digits

CONSTANT WordBits  \* the width of a word: 64

ASSUME WordBitsAssumption == WordBits \in Nat \ {0, 1} /\ Base = Pow2[WordBits]

Small(size, val) == [kind |-> "small", size |-> size, data |-> <<val>>]
Sparse(size, val) == [kind |-> "sparse", size |-> size, data |-> <<val>>]
Generic(size, data) == [kind |-> "generic", size |-> size, data |-> data]

Val(v) == v.data[1]

(***************************************************************************)
(* Words.                                                                  *)
(***************************************************************************)

x & y == Combined(AndBit, WordBits, x, y)
x | y == Combined(OrBit, WordBits, x, y)
x ^^ y == Combined(XorBit, WordBits, x, y)
Shl(word, i) == Wrap(word * Pow2[i])
Shr(word, i) == word \div Pow2[i]
Complement(word) == Base - 1 - word
Ones(width) == Pow2[width] - 1
RuintMask(width, val) == val % Pow2[width]
WordIndex(pos) == pos \div WordBits
BitIndex(pos) == pos % WordBits
DataSize(bitwidth) == WordIndex(bitwidth) + Bit(BitIndex(bitwidth) # 0)

\* the word at a bit offset of an rbigint, in two's complement
ExtractRuint(n, offset) == Wrap(n \div Pow2[offset])

\* mutant of SizeMask: the highest word is left as it is
SizeMaskNot(size, data) == data

\* the bits of the highest word that do not belong to the vector are cleared
SizeMask(size, data) ==
  [data EXCEPT ![WordIndex(size - 1) + 1] = RuintMask(BitIndex(size - 1) + 1, @)]

FromRuint(size, val) ==
  IF size <= WordBits THEN Small(size, RuintMask(size, val)) ELSE Sparse(size, val)

ArrayFromBigint(size, n) ==
  SizeMask(size, [k \in 1 .. DataSize(size) |->
                    ExtractRuint(n, (k - 1) * WordBits)])

FromBigint(size, n) ==
  IF size <= WordBits THEN Small(size, RuintMask(size, ExtractRuint(n, 0)))
                      ELSE Generic(size, ArrayFromBigint(size, n))

ToGeneric(v) ==
  Generic(v.size, [k \in 1 .. DataSize(v.size) |-> IF k = 1 THEN Val(v) ELSE 0])

MakeSmall(v, val) == Small(v.size, RuintMask(v.size, val))
MakeGeneric(v, data) == Generic(v.size, SizeMask(v.size, data))

(***************************************************************************)
(* Sums and differences of vectors of one size.                            *)
(***************************************************************************)

AddRuint(v, word) == MakeGeneric(v, AddLoop(v.data, <<word>>).digits)
SubRuint(v, word) == MakeGeneric(v, SubLoop(v.data, <<word>>).digits)

\* mutant of AddBits: a sparse sum that carries stays sparse
AddBitsSparse(v, w) ==
  IF v.kind = "small" THEN MakeSmall(v, Wrap(Val(v) + Val(w)))
  ELSE IF v.kind = "sparse" /\ w.kind = "sparse"
  THEN Sparse(v.size, Wrap(Val(v) + Val(w)))
  ELSE IF v.kind = "sparse" THEN AddRuint(w, Val(v))
  ELSE IF w.kind = "sparse" THEN AddRuint(v, Val(w))
  ELSE MakeGeneric(v, AddLoop(v.data, w.data).digits)

AddBits(v, w) ==
  LET sum == Wrap(Val(v) + Val(w))
  IN  CASE v.kind = "small" -> MakeSmall(v, sum)
        [] v.kind = "sparse" /\ w.kind = "sparse" ->
             IF sum >= Val(v) THEN Sparse(v.size, sum)
                              ELSE AddRuint(ToGeneric(w), Val(v))
        [] v.kind = "sparse" /\ w.kind = "generic" -> AddRuint(w, Val(v))
        [] v.kind = "generic" /\ w.kind = "sparse" -> AddRuint(v, Val(w))
        [] OTHER -> MakeGeneric(v, AddLoop(v.data, w.data).digits)

SubFromGeneric(v, w) ==
  IF w.kind = "sparse" THEN SubRuint(v, Val(w))
                       ELSE MakeGeneric(v, SubLoop(v.data, w.data).digits)

SubBits(v, w) ==
  CASE v.kind = "small" -> MakeSmall(v, Wrap(Val(v) - Val(w)))
    [] v.kind = "sparse" /\ w.kind = "sparse" /\ Val(w) <= Val(v) ->
         Sparse(v.size, Val(v) - Val(w))
    [] v.kind = "sparse" /\ ~ (w.kind = "sparse" /\ Val(w) <= Val(v)) ->
         SubFromGeneric(ToGeneric(v), w)
    [] v.kind = "generic" -> SubFromGeneric(v, w)

(***************************************************************************)
(* Bit by bit.  A generic result from a sparse operand changes word 0.     *)
(***************************************************************************)

WordByWord(Op(_, _), v, w) ==
  Generic(v.size,
          IF w.kind = "sparse" THEN [v.data EXCEPT ![1] = Op(@, Val(w))]
          ELSE [k \in DOMAIN v.data |-> Op(v.data[k], w.data[k])])

OneWord(v, w) == v.kind # "generic" /\ w.kind # "generic"

XorBits(v, w) ==
  IF OneWord(v, w) THEN [v EXCEPT !.data = <<Val(v) ^^ Val(w)>>]
  ELSE WordByWord(LAMBDA x, y : x ^^ y,
                 IF v.kind = "sparse" THEN ToGeneric(v) ELSE v, w)

OrBits(v, w) ==
  IF OneWord(v, w) THEN [v EXCEPT !.data = <<Val(v) | Val(w)>>]
  ELSE WordByWord(LAMBDA x, y : x | y,
                 IF v.kind = "sparse" THEN ToGeneric(v) ELSE v, w)

\* a sparse operand makes the result sparse
AndBits(v, w) ==
  IF v.kind = "generic" /\ w.kind = "generic"
  THEN WordByWord(LAMBDA x, y : x & y, v, w)
  ELSE [(IF v.kind = "generic" THEN w ELSE v) EXCEPT !.data = <<Val(v) & Val(w)>>]

Invert(v) ==
  IF v.kind = "small" THEN MakeSmall(v, Complement(Val(v)))
  ELSE LET g == IF v.kind = "sparse" THEN ToGeneric(v) ELSE v
       IN  MakeGeneric(g, [k \in DOMAIN g.data |-> Complement(g.data[k])])

(***************************************************************************)
(* Shifts by a non-negative amount.                                        *)
(***************************************************************************)

\* a digit moved up by less than a word, over the top of the one below it
ShlDigit(digit, bits, carry) ==
  [digit |-> carry | Shl(digit, bits), carry |-> Shr(digit, WordBits - bits)]

\* n words from bit i of an array upwards
WordsFrom(d, i, n) ==
  LET word(k) == IF k \in DOMAIN d THEN d[k] ELSE 0
      low == WordIndex(i)
  IN  [k \in 1 .. n |-> Shr(word(k + low), BitIndex(i))
                        | Shl(word(k + low + 1), WordBits - BitIndex(i))]

LshiftGeneric(v, i) ==
  LET words == WordIndex(i)
      kept == SubSeq(v.data, 1, Len(v.data) - words)
      moved == Ripple(LAMBDA k, carry : ShlDigit(kept[k], BitIndex(i), carry), kept)
  IN  IF i = 0 THEN v
      ELSE IF i >= v.size THEN Sparse(v.size, 0)
      ELSE MakeGeneric(v, [k \in 1 .. words |-> 0] \o moved.digits)

Lshift(v, i) ==
  CASE v.kind = "small" ->
         MakeSmall(v, IF i >= WordBits THEN 0 ELSE Shl(Val(v), i))
    [] v.kind = "sparse" /\ i < WordBits /\ Shr(Val(v), WordBits - i) = 0 ->
         Sparse(v.size, Shl(Val(v), i))
    [] v.kind = "sparse" /\ ~ (i < WordBits /\ Shr(Val(v), WordBits - i) = 0) ->
         LshiftGeneric(ToGeneric(v), i)
    [] v.kind = "generic" -> LshiftGeneric(v, i)

Rshift(v, i) ==
  CASE v.kind = "small" -> Small(v.size, IF i >= v.size THEN 0 ELSE Shr(Val(v), i))
    [] v.kind = "sparse" -> Sparse(v.size, IF i >= WordBits THEN 0 ELSE Shr(Val(v), i))
    [] v.kind = "generic" ->
         IF i >= v.size THEN Sparse(v.size, 0)
         ELSE IF i = 0 THEN v
         ELSE Generic(v.size, WordsFrom(v.data, i, Len(v.data)))

(***************************************************************************)
(* Parts and extensions.                                                   *)
(***************************************************************************)

Truncate(v, i) ==
  CASE i <= WordBits -> Small(i, RuintMask(i, Val(v)))
    [] i > WordBits /\ v.kind = "sparse" -> Sparse(i, Val(v))
    [] i > WordBits /\ v.kind = "generic" ->
         IF i = v.size THEN v
         ELSE Generic(i, SizeMask(i, SubSeq(v.data, 1, DataSize(i))))

\* subrange_unwrapped_res: at most a word, from bit m to bit n
SubrangeWord(v, n, m) ==
  RuintMask(n - m + 1,
            CASE v.kind = "small" -> Shr(Val(v), m)
              [] v.kind = "sparse" -> IF m >= WordBits THEN 0 ELSE Shr(Val(v), m)
              [] v.kind = "generic" -> WordsFrom(v.data, m, 1)[1])

Subrange(v, n, m) ==
  LET width == n - m + 1
  IN  CASE width <= WordBits -> Small(width, SubrangeWord(v, n, m))
        [] width > WordBits /\ v.kind = "sparse" ->
             Sparse(width, IF m >= WordBits THEN 0 ELSE Shr(Val(v), m))
        [] width > WordBits /\ v.kind = "generic" ->
             Truncate(IF m = 0 THEN v ELSE Rshift(v, m), width)

ZeroExtend(v, i) ==
  CASE i = v.size -> v
    [] i # v.size /\ v.kind = "small" -> FromRuint(i, Val(v))
    [] i # v.size /\ v.kind = "sparse" -> Sparse(i, Val(v))
    [] i # v.size /\ v.kind = "generic" ->
         Generic(i, [k \in 1 .. DataSize(i) |->
                       IF k \in DOMAIN v.data THEN v.data[k] ELSE 0])

ReadBit(v, pos) ==
  IF v.kind = "sparse" /\ pos >= WordBits THEN FALSE
  ELSE Shr(v.data[WordIndex(pos) + 1], BitIndex(pos)) % 2 = 1

SignExtendData(size, data, i) ==
  LET highest == Shr(data[WordIndex(size - 1) + 1], BitIndex(size - 1)) % 2
      upper == Wrap(-highest)
      full == WordIndex(size)
      bits == BitIndex(size)
  IN  Generic(i, SizeMask(i, [k \in 1 .. DataSize(i) |->
        IF k <= full THEN data[k]
        ELSE IF k = full + 1 /\ bits # 0 THEN data[k] | Shl(upper, bits)
        ELSE upper]))

SignExtend(v, i) ==
  LET m == Pow2[v.size - 1]
  IN  CASE i = v.size -> v
        [] i # v.size /\ v.kind = "small" /\ i > WordBits ->
             IF ReadBit(v, v.size - 1) THEN SignExtendData(v.size, v.data, i)
                                       ELSE Sparse(i, Val(v))
        [] i # v.size /\ v.kind = "small" /\ i <= WordBits ->
             Small(i, RuintMask(i, Wrap((Val(v) ^^ m) - m)))
        [] i # v.size /\ v.kind = "sparse" -> Sparse(i, Val(v))
        [] i # v.size /\ v.kind = "generic" -> SignExtendData(v.size, v.data, i)

(***************************************************************************)
(* Updates.                                                                *)
(***************************************************************************)

WordWithBit(word, pos, bit) ==
  IF bit THEN word | Pow2[pos] ELSE word & Complement(Pow2[pos])

UpdateBit(v, pos, bit) ==
  LET g == IF v.kind = "sparse" /\ pos >= WordBits THEN ToGeneric(v) ELSE v
  IN  [g EXCEPT !.data[WordIndex(pos) + 1] = WordWithBit(@, BitIndex(pos), bit)]

\* Bits m to n of an array are replaced by the digits s: words are built from
\* a digit and what the digit below left over; the last one keeps its upper
\* bits.
UpdateWords(d, n, m, s) ==
  LET start == WordIndex(m)
      bits == BitIndex(m)
      end == WordIndex(n + 1)
      endBits == BitIndex(n + 1)
      carried(k) == IF k = start THEN d[k + 1] & Ones(bits)
                                 ELSE Shr(s[k - start], WordBits - bits)
      digit(k) == Shl(s[k - start + 1], bits)
  IN  [k1 \in DOMAIN d |->
         LET k == k1 - 1
         IN  CASE k < start -> d[k1]
               [] start <= k /\ k < end -> carried(k) | digit(k)
               [] k = end /\ endBits # 0 ->
                    (d[k1] & Complement(Ones(endBits))) | carried(k)
                    | (IF bits < endBits THEN digit(k) ELSE 0)
               [] OTHER -> d[k1]]

UpdateSubrange(v, n, m, s) ==
  LET digits == IF s.kind = "sparse" THEN ToGeneric(s).data ELSE s.data
      room == IF n >= WordBits THEN WordBits - m ELSE s.size
      fits == s.size <= WordBits /\ m < WordBits /\ Shr(Val(s), room) = 0
      cleared == Val(v) & Complement(Shl(Ones(room), m))
  IN  CASE s.size = v.size -> s
        [] s.size # v.size /\ v.kind = "small" ->
             MakeSmall(v, (Val(v) & Complement(Shl(Ones(s.size), m))) | Shl(Val(s), m))
        [] s.size # v.size /\ v.kind = "sparse" ->
             IF fits THEN Sparse(v.size, cleared | Shl(Val(s), m))
             ELSE Generic(v.size, UpdateWords(ToGeneric(v).data, n, m, digits))
        [] s.size # v.size /\ v.kind = "generic" ->
             Generic(v.size, UpdateWords(v.data, n, m, digits))

(***************************************************************************)
(* Joining vectors.                                                        *)
(***************************************************************************)

\* append_64: a whole word is put below the vector
AppendWord(v, word) ==
  LET size == v.size + WordBits
  IN  CASE v.kind # "generic" /\ Val(v) = 0 -> FromRuint(size, word)
        [] v.kind # "generic" /\ Val(v) # 0 ->
             Generic(size, [k \in 1 .. DataSize(size) |->
                              IF k = 1 THEN word ELSE IF k = 2 THEN Val(v) ELSE 0])
        [] v.kind = "generic" -> Generic(size, <<word>> \o v.data)

AppendBits(v, w) ==
  LET size == v.size + w.size
      shifted == Lshift(ZeroExtend(v, size), w.size)
  IN  CASE size <= WordBits -> FromRuint(size, Shl(Val(v), w.size) | Val(w))
        [] size > WordBits /\ w.kind = "small" /\ w.size = WordBits ->
             AppendWord(v, Val(w))
        [] OTHER ->
             [shifted EXCEPT !.data =
                [k \in DOMAIN shifted.data |->
                   IF k \in DOMAIN w.data THEN shifted.data[k] | w.data[k]
                                          ELSE shifted.data[k]]]

Replicate(v, times) ==
  LET words[k \in 1 .. times] ==
        IF k = 1 THEN Val(v) ELSE Shl(words[k - 1], v.size) | Val(v)
      numbers[k \in 1 .. times] ==
        IF k = 1 THEN ValueOf(v.data)
                 ELSE numbers[k - 1] * Pow2[v.size] + ValueOf(v.data)
      size == v.size * times
  IN  IF v.kind = "small" /\ size <= WordBits THEN Small(size, words[times])
      ELSE Generic(size, ArrayFromBigint(size, numbers[times]))

(***************************************************************************)
(* Questions.                                                              *)
(***************************************************************************)

\* mutant of EqBits: a sparse vector is never equal to a generic one
EqBitsSameKind(v, w) == v = w

EqBits(v, w) ==
  CASE v.kind = w.kind -> v.data = w.data
    [] v.kind = "sparse" /\ w.kind = "generic" -> ToGeneric(v).data = w.data
    [] v.kind = "generic" /\ w.kind = "sparse" ->
         Val(v) = Val(w) /\ \A k \in 2 .. Len(v.data) : v.data[k] = 0

\* touint and toint raise ValueError when the number does not fit; otherwise
\* they are the lowest word, which toint takes for a signed one
FitsUint(v) == \A k \in 2 .. Len(v.data) : v.data[k] = 0
FitsInt(v) ==
  FitsUint(v) /\ (v.size >= WordBits => Shr(Val(v), WordBits - 1) = 0)
=============================================================================

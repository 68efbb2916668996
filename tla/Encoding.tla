------------------------------ MODULE Encoding ------------------------------
(***************************************************************************)
(* The two binary encodings of the node, pkg/encoding/siabin ("sia") and   *)
(* pkg/encoding/rivbin ("riv"): numbers, and slices with their lengths.    *)
(*                                                                         *)
(* What is encoded is a sequence of items.  An item is one byte whose      *)
(* value matters (lengths, types, numbers) or a run of bytes that are only *)
(* compared (hashes, keys, signatures), of which any part can be read.     *)
(***************************************************************************)
EXTENDS Integers, Sequences, SequencesExt

Byte(n) == <<"byte", n>>
Run(name, n) == <<"run", name, 0, n>>

ItemSize(item) == IF item[1] = "byte" THEN 1 ELSE item[4] - item[3]
RECURSIVE SizeBetween(_, _, _)
SizeBetween(s, i, j) ==
    IF i > j THEN 0 ELSE IF i = j THEN ItemSize(s[i])
    ELSE SizeBetween(s, i, (i + j) \div 2) + SizeBetween(s, (i + j) \div 2 + 1, j)
Size(s) == SizeBetween(s, 1, Len(s))

\* The outcomes of a decoder: an error, or a value and what is left to read.
Failed == [ok |-> FALSE]
Got(v, rest) == [ok |-> TRUE, value |-> v, rest |-> rest]

\* The item between i and j that holds the n-th byte from item i on, and as
\* many items as n bytes may need, both found by halves.
RECURSIVE ItemAt(_, _, _, _)
ItemAt(s, i, j, n) ==
    IF i = j THEN i
    ELSE LET mid == (i + j) \div 2
             left == SizeBetween(s, i, mid)
         IN  IF n <= left THEN ItemAt(s, i, mid, n) ELSE ItemAt(s, mid + 1, j, n - left)
RECURSIVE Enough(_, _, _)
Enough(s, n, j) ==
    IF j >= Len(s) THEN Len(s) ELSE IF SizeBetween(s, 1, j) >= n THEN j ELSE Enough(s, n, 2 * j)

\* io.ReadFull of n bytes: the first k items without the last over bytes, which
\* are those of a run.
Split(s, k, over) ==
    LET cut == s[k][4] - over
    IN  IF over = 0 THEN Got(SubSeq(s, 1, k), SubSeq(s, k + 1, Len(s)))
        ELSE Got(SubSeq(s, 1, k - 1) \o <<[s[k] EXCEPT ![4] = cut]>>,
                 <<[s[k] EXCEPT ![3] = cut]>> \o SubSeq(s, k + 1, Len(s)))
ReadItems(s, k, n) == Split(s, k, SizeBetween(s, 1, k) - n)
ReadWithin(s, upper, n) ==
    IF SizeBetween(s, 1, upper) < n THEN Failed ELSE ReadItems(s, ItemAt(s, 1, upper, n), n)
ReadFull(s, n) == IF n = 0 THEN Got(<<>>, s) ELSE ReadWithin(s, Enough(s, n, 1), n)

\* Little-endian numbers; the numbers of the model are below 2^31.
Number(n, w) == [i \in 1..w |-> Byte(IF i > 4 THEN 0 ELSE (n \div 256^(i - 1)) % 256)]

RECURSIVE LittleEndian(_)
LittleEndian(b) == IF b = <<>> THEN 0 ELSE Head(b) + 256 * LittleEndian(Tail(b))

\* The number that w bytes stand for.  No number is read from inside a run but
\* by a decoder that fails for another reason; one of 2^31 or more is the
\* length of nothing that can be read.
NumberOf(b, rest) ==
    IF \E i \in 4..Len(b) : b[i] > (IF i = 4 THEN 127 ELSE 0) THEN Failed ELSE Got(LittleEndian(b), rest)
NumberIn(r) ==
    IF ~r.ok \/ \E i \in DOMAIN r.value : r.value[i][1] = "run" THEN Failed
    ELSE NumberOf([i \in DOMAIN r.value |-> r.value[i][2]], r.rest)
ReadNumber(s, w) == NumberIn(ReadFull(s, w))

---------------------------------------------------------------------------
\* The lengths of slices.

MaxSliceSize == 5000000      \* siabin
MaxRivSlice == 536870911     \* MaxUint32 >> 3

\* Mutant: the limit of one byte is that of a whole byte.
encodeSliceLengthWide(n) ==
    CASE n <= 255 -> Number((2 * n) % 256, 1)
      [] n > 255 /\ n <= 16383 -> Number(1 + 4 * n, 2)
      [] n > 16383 /\ n <= 2097151 -> Number(3 + 8 * n, 3)
      [] OTHER -> Number(7 + 8 * n, 4)

\* rivbin: the lowest bits of the first byte tell how many bytes there are.
encodeSliceLength(n) ==
    CASE n <= 127 -> Number(2 * n, 1)
      [] n > 127 /\ n <= 16383 -> Number(1 + 4 * n, 2)
      [] n > 16383 /\ n <= 2097151 -> Number(3 + 8 * n, 3)
      [] OTHER -> Number(7 + 8 * n, 4)

Shifted(r, by) == IF r.ok THEN Got(r.value \div by, r.rest) ELSE Failed
LengthFormat(first) ==    \* how many bytes, and what to divide by
    CASE first % 2 = 0 -> <<1, 2>> [] first % 4 = 1 -> <<2, 4>>
      [] first % 8 = 3 -> <<3, 8>> [] first % 8 = 7 -> <<4, 8>>
ReadShifted(s, format) == Shifted(ReadNumber(s, format[1]), format[2])
decodeSliceLength(s) ==
    IF ReadNumber(s, 1).ok THEN ReadShifted(s, LengthFormat(ReadNumber(s, 1).value)) ELSE Failed

WriteLength(e, n) == IF e = "sia" THEN Number(n, 8) ELSE encodeSliceLength(n)
ReadLength(e, s) == IF e = "sia" THEN ReadNumber(s, 8) ELSE decodeSliceLength(s)

\* A slice of bytes: WritePrefix and ReadPrefix, WriteDataSlice and
\* ReadDataSlice, and the byte slices of the encoders.
WriteSlice(e, bytes) == WriteLength(e, Size(bytes)) \o bytes
ReadBytes(n, max) == IF n.ok /\ n.value <= max THEN ReadFull(n.rest, n.value) ELSE Failed
ReadSlice(e, s, max) == ReadBytes(ReadLength(e, s), max)

=============================================================================

---- MODULE ErasureCoding ----
(***************************************************************************)
(* The systematic Reed-Solomon code over GF(2^8) that splits a payload     *)
(* into shards (domain/erasure-coding.ts).  A payload is a sequence of     *)
(* bytes; shards, rows and columns are numbered from 0 as in the code.     *)
(***************************************************************************)
EXTENDS Integers, Sequences, SequencesExt

\* Bytes added in the field, a nibble at a time.
NibbleXor ==
    LET bit(x, y, b) == IF (x \div b) % 2 = (y \div b) % 2 THEN 0 ELSE b
    IN  [x, y \in 0 .. 15 |-> bit(x, y, 8) + bit(x, y, 4) + bit(x, y, 2) + bit(x, y, 1)]
Xor(a, b) == 16 * NibbleXor[a \div 16, b \div 16] + NibbleXor[a % 16, b % 16]

\* Multiplication by the generator, modulo 0x11d: what fills gfExp and gfLog.
GfDouble(x) == IF x >= 128 THEN Xor(2 * x - 256, 29) ELSE 2 * x

\* The field's product and inverse, which the code looks up in those tables.
GfMul(a, b) ==
    LET a2 == GfDouble(a)
        a4 == GfDouble(a2)
        a8 == GfDouble(a4)
        a16 == GfDouble(a8)
        a32 == GfDouble(a16)
        a64 == GfDouble(a32)
        a128 == GfDouble(a64)
        if(x, bit) == IF (b \div bit) % 2 = 1 THEN x ELSE 0
    IN  Xor(Xor(Xor(if(a, 1), if(a2, 2)), Xor(if(a4, 4), if(a8, 8))),
            Xor(Xor(if(a16, 16), if(a32, 32)), Xor(if(a64, 64), if(a128, 128))))
GfInverse == [a \in 1 .. 255 |-> CHOOSE b \in 1 .. 255 : GfMul(a, b) = 1]
GfInv(a) == GfInverse[a]

\* The bytes of a row of coefficients applied to a column of bytes.
XorSum(f, n) == FoldLeft(LAMBDA acc, i : Xor(acc, f[i - 1]), 0, [i \in 1 .. n |-> i])

ValidConfig(data, total) == data \in 1 .. total /\ total <= 255

\* The identity for the data shards, then Cauchy rows.
EncodeMatrixRow(row, data) ==
    [column \in 0 .. data - 1 |->
        IF row < data THEN (IF row = column THEN 1 ELSE 0)
                      ELSE GfInv(Xor(row, column))]

\* Gauss-Jordan elimination: one column at a time, the first row that has
\* something there becomes the pivot.
Pivot(work, column, size) ==
    CHOOSE r \in column .. size - 1 :
        work[r][column] # 0 /\ \A q \in column .. r - 1 : work[q][column] = 0
Eliminate(work, column, size) ==
    LET p == Pivot(work, column, size)
        swapped == [work EXCEPT ![column] = work[p], ![p] = work[column]]
        inverse == GfInv(swapped[column][column])
        scaled == [c \in 0 .. 2 * size - 1 |-> GfMul(swapped[column][c], inverse)]
    IN  [r \in 0 .. size - 1 |->
            IF r = column THEN scaled
            ELSE [c \in 0 .. 2 * size - 1 |->
                    Xor(swapped[r][c], GfMul(swapped[r][column], scaled[c]))]]
InvertMatrix(matrix, size) ==
    LET augmented == [r \in 0 .. size - 1 |-> [c \in 0 .. 2 * size - 1 |->
            IF c < size THEN matrix[r][c] ELSE IF c = size + r THEN 1 ELSE 0]]
        done == FoldLeft(LAMBDA w, i : Eliminate(w, i - 1, size),
                         augmented, [i \in 1 .. size |-> i])
    IN  [r \in 0 .. size - 1 |-> [c \in 0 .. size - 1 |-> done[r][size + c]]]

\* ceil(n / d)
ShardLength(n, d) == (n + d - 1) \div d

\* encodeShards: the payload cut in pieces, the last padded with zeros, and
\* the parity computed byte by byte.
EncodeShards(payload, data, total) ==
    LET length == ShardLength(Len(payload), data)
        piece == [i \in 0 .. data - 1 |-> [j \in 1 .. length |->
            IF i * length + j <= Len(payload) THEN payload[i * length + j] ELSE 0]]
    IN  [i \in 0 .. total - 1 |->
            IF i < data THEN piece[i]
            ELSE [j \in 1 .. length |->
                    XorSum([c \in 0 .. data - 1 |->
                        GfMul(EncodeMatrixRow(i, data)[c], piece[c][j])], data)]]

\* decodeShards of the first `data` shards presented: they are put back in
\* order when none is parity, and solved for otherwise.
Recovered(chosen, data) ==
    IF \A k \in 1 .. data : chosen[k].index < data
    THEN [i \in 0 .. data - 1 |->
            (CHOOSE s \in Range(chosen) : s.index = i).bytes]
    ELSE LET inverse == InvertMatrix([r \in 0 .. data - 1 |->
                            EncodeMatrixRow(chosen[r + 1].index, data)], data)
         IN  [i \in 0 .. data - 1 |-> [j \in 1 .. Len(chosen[1].bytes) |->
                XorSum([c \in 0 .. data - 1 |->
                    GfMul(inverse[i][c], chosen[c + 1].bytes[j])], data)]]
DecodeShards(presented, data, originalLength) ==
    LET chosen == SubSeq(presented, 1, data)
        length == Len(chosen[1].bytes)
        recovered == Recovered(chosen, data)
    IN  [j \in 1 .. originalLength |->
            recovered[(j - 1) \div length][((j - 1) % length) + 1]]
====

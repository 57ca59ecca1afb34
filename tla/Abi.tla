---- MODULE Abi ----
\* Solidity's ABI, as syncnet-core.js writes it and reads it.  The decoder is strict, and its work is bounded by the size
\* of its input although offsets may point to the same bytes more than once.  A word has W bytes (32 in the code), and
\* numbers are big-endian; a type is a record, as parseAbiType gives it.
EXTENDS Integers, Sequences, SequencesExt

CONSTANTS W,
          Values,  \* <<types, values>> to encode
          Inputs,  \* <<types, bytes>> to decode
          None

VARIABLES input,   \* one of these
          result   \* what abiDecode makes of it
vars == <<input, result>>
CeilDiv(a, b) == (a + b - 1) \div b

RECURSIVE Dynamic(_), Inner(_), Encode(_, _), EncodeSequence(_, _), DecodeAt(_, _, _), DecodeSequence(_, _, _), Words(_, _)
\* makeNode: does the value stand behind an offset, and what must exist where the offset points.
Dynamic(t) == CASE t.kind = "bytes" -> TRUE
                [] t.kind = "array" -> t.length = None \/ Dynamic(t.base)
                [] t.kind = "tuple" -> \E i \in DOMAIN t.components : Dynamic(t.components[i])
                [] OTHER -> FALSE
HeadSize(t) == IF Dynamic(t) THEN W ELSE Inner(t)
HeadSizes(types) == FoldLeft(LAMBDA sum, t : sum + HeadSize(t), 0, types)
Inner(t) == CASE t.kind = "array" /\ t.length # None -> t.length * HeadSize(t.base)
              [] t.kind = "tuple" -> HeadSizes(t.components)
              [] OTHER -> W

Zero(n) == [i \in 1..n |-> 0]
Word(v) == [i \in 1..W |-> (v \div 256^(W - i)) % 256]
Number(word) == FoldLeft(LAMBDA v, b : 256 * v + b, 0, word)
Padded(bytes) == bytes \o Zero(W * CeilDiv(Len(bytes), W) - Len(bytes))
Repeat(t, n) == [i \in 1..n |-> t]

\* encodeValue: unsigned, signed or left-aligned words, bytes, arrays and tuples.
Encode(t, v) == CASE t.kind = "uint" -> Word(v)
                  [] t.kind = "int" -> Word(v % 256^W)
                  [] t.kind = "fixedBytes" -> Padded(v)
                  [] t.kind = "bytes" -> Word(Len(v)) \o Padded(v)
                  [] t.kind = "tuple" -> EncodeSequence(t.components, v)
                  [] OTHER -> (IF t.length = None THEN Word(Len(v)) ELSE <<>>) \o EncodeSequence(Repeat(t.base, Len(v)), v)
\* Offsets count from the start of the sequence.
Offset(types, tails) == Word(HeadSizes(types) + Len(tails))
EncodeSequence(types, values) ==
  LET parts == FoldLeftDomain(LAMBDA acc, i : LET code == Encode(types[i], values[i]) IN
                                IF Dynamic(types[i])
                                THEN [heads |-> acc.heads \o Offset(types, acc.tails), tails |-> acc.tails \o code]
                                ELSE [acc EXCEPT !.heads = @ \o code],
                              [heads |-> <<>>, tails |-> <<>>], types)
  IN parts.heads \o parts.tails

\* ctx: the bytes, the work that may still be spent, and whether all went well.
Fails(ctx) == [ctx EXCEPT !.ok = FALSE]
Spend(ctx, units) == [ctx EXCEPT !.budget = @ - units, !.ok = @ /\ ctx.budget >= units]
\* word: a number, or a failure.
Read(ctx, pos) ==
  IF ~ctx.ok \/ pos + W > Len(ctx.bytes) THEN [ctx |-> Fails(ctx), value |-> 0]
  ELSE [ctx |-> Spend(ctx, 1), value |-> Number(SubSeq(ctx.bytes, pos + 1, pos + W))]
Checked(r, valid, value) == IF r.ctx.ok /\ ~valid THEN [ctx |-> Fails(r.ctx), value |-> 0] ELSE [r EXCEPT !.value = value]
Signed(v) == IF v >= 256^W \div 2 THEN v - 256^W ELSE v
ReadBytes(r, start) ==
  LET n == r.value  fits == n <= Len(r.ctx.bytes) - start  ctx == Spend(r.ctx, CeilDiv(n, W))
  IN IF ~ctx.ok \/ ~fits THEN [ctx |-> Fails(r.ctx), value |-> <<>>]
     ELSE [ctx |-> ctx, value |-> SubSeq(r.ctx.bytes, start + 1, start + n)]
DecodeAt(ctx, t, pos) ==
  LET r == Read(ctx, pos) IN
  CASE t.kind = "uint" -> Checked(r, r.value < t.limit, r.value)
    [] t.kind = "int" -> Checked(r, Signed(r.value) \in -t.limit .. t.limit - 1, Signed(r.value))
    [] t.kind = "fixedBytes" -> Checked(r, r.value % 256^(W - t.size) = 0, SubSeq(Word(r.value), 1, t.size))
    [] t.kind = "bytes" -> ReadBytes(r, pos + W)
    [] t.kind = "tuple" -> DecodeSequence(ctx, t.components, pos)
    [] t.kind = "array" /\ t.length # None -> DecodeSequence(ctx, Repeat(t.base, t.length), pos)
    [] OTHER -> IF ~r.ctx.ok \/ r.value * HeadSize(t.base) > Len(ctx.bytes) - (pos + W)
                THEN [ctx |-> Fails(r.ctx), value |-> <<>>]
                ELSE DecodeSequence(r.ctx, Repeat(t.base, r.value), pos + W)
\* Behind an offset.
Follow(r, t, base) ==
  IF ~r.ctx.ok \/ base + r.value + Inner(t) > Len(r.ctx.bytes) THEN [ctx |-> Fails(r.ctx), value |-> 0]
  ELSE DecodeAt(r.ctx, t, base + r.value)
DecodeSequence(ctx, types, base) ==
  LET step(acc, t) ==
        LET r == IF Dynamic(t) THEN Follow(Read(acc.ctx, acc.head), t, base) ELSE DecodeAt(acc.ctx, t, acc.head)
        IN [ctx |-> r.ctx, value |-> Append(acc.value, r.value), head |-> acc.head + HeadSize(t)]
      all == FoldLeft(LAMBDA acc, t : IF acc.ctx.ok THEN step(acc, t) ELSE acc, [ctx |-> ctx, value |-> <<>>, head |-> base], types)
  IN [ctx |-> all.ctx, value |-> all.value]
Budget(bytes) == 2 * CeilDiv(Len(bytes), W) + 8
\* abiDecode.
AbiDecode(types, bytes) ==
  DecodeSequence([bytes |-> bytes, budget |-> Budget(bytes), ok |-> TRUE], types, 0)
AbiEncode(types, values) == EncodeSequence(types, values)

Init == result = None /\ input \in [how : {"encoded"}, case : Values] \cup [how : {"received"}, case : Inputs]
Data == IF input.how = "encoded" THEN AbiEncode(input.case[1], input.case[2]) ELSE input.case[2]
Decode == result = None /\ result' = AbiDecode(input.case[1], Data) /\ UNCHANGED input
Spec == Init /\ [][Decode]_vars

\* -------------------------------------------------------------------------- properties
\* What is encoded is decoded again, whatever the nesting of its type, and never taken for bytes used too often
\* (syncnet-core.js:359-412, 429-522).
DecodedAsEncoded == result # None /\ input.how = "encoded" => result.ctx.ok /\ result.value = input.case[2]
\* The words a value takes, without offsets.
Words(t, v) == CASE t.kind = "bytes" -> 1 + CeilDiv(Len(v), W)
                 [] t.kind = "tuple" -> FoldLeftDomain(LAMBDA n, i : n + Words(t.components[i], v[i]), 0, v)
                 [] t.kind = "array" -> FoldLeftDomain(LAMBDA n, i : n + Words(t.base, v[i]), IF t.length = None THEN 1 ELSE 0, v)
                 [] OTHER -> 1
\* Data that is received gives no more than twice its size and eight words, however its offsets overlap, and what it
\* gives is a value of the types: encoded again, it is decoded to the same (syncnet-core.js:424-437).
ReceivedIsBounded ==
  result # None /\ input.how = "received" /\ result.ctx.ok =>
    /\ FoldLeftDomain(LAMBDA n, i : n + Words(input.case[1][i], result.value[i]), 0, result.value) <= Budget(input.case[2])
    /\ AbiDecode(input.case[1], AbiEncode(input.case[1], result.value)).value = result.value
====

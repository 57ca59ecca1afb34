---- MODULE Lzw ----
\* The LZW codes of a GIF frame: lzwEncode writes the pixels of a frame and lzwDecode, like every viewer, reads them.
\* The decoder learns each table entry one code later than the encoder, so the two must agree on when codes get wider.
\* The encoder's hash of (prefix, pixel) is a function, the decoder's linked arrays are the strings they spell, and the
\* sub-blocks are left out.  The two take turns: the decoder reads as soon as a code is complete.
EXTENDS Integers, Sequences, SequencesExt

CONSTANTS MinCodeSize, MaxBits,  \* 2..8 and 12 in the code; the colours are below 2^MinCodeSize
          Pixels,                \* colours a frame uses
          Counts                 \* sizes of frame

VARIABLES count, pixels,  \* the frame, as far as it has been chosen
          enc, wire,      \* encoder, and the bits it has written that are not read yet
          dec, out,       \* decoder, and the pixels it has drawn
          keepsTable      \* whether the encoder goes on with a full table, as other programs do
vars == <<count, pixels, enc, wire, dec, out, keepsTable>>

LZW_MAX_CODES == 2^MaxBits
Clear == 2^MinCodeSize
Eoi == Clear + 1
NoCode == -1
EmptyTable == <<>>

Encoder == [codes |-> EmptyTable, next |-> Eoi + 1, size |-> MinCodeSize + 1, prefix |-> NoCode, done |-> FALSE]
Decoder == [strings |-> EmptyTable, next |-> Eoi + 1, size |-> MinCodeSize + 1, prev |-> NoCode, failed |-> FALSE]
Init == /\ count \in Counts /\ pixels = <<>> /\ enc = Encoder /\ wire = <<>> /\ dec = Decoder /\ out = <<>>
        /\ keepsTable \in BOOLEAN

\* put: the least significant bit first.
Bits(code, size) == [i \in 1..size |-> (code \div 2^(i - 1)) % 2]
Code(bits) == FoldLeftDomain(LAMBDA sum, i : sum + bits[i] * 2^(i - 1), 0, bits)
\* The entry the decoder will add when it reads the next code must fit that code.
Widen(next, size) == IF next >= 2^size /\ size < MaxBits THEN size + 1 ELSE size

DecoderCanRead == /\ Len(out) < count /\ ~dec.failed /\ Len(wire) >= dec.size
\* A full table is cleared, with a code as wide as the widest.
Learn(c) ==
  LET size == Widen(enc.next, enc.size) written == wire \o Bits(enc.prefix, enc.size)
  IN IF enc.next < LZW_MAX_CODES
     THEN /\ enc' = [enc EXCEPT !.codes = (<<enc.prefix, c>> :> enc.next) @@ @, !.next = @ + 1, !.size = size, !.prefix = c]
          /\ wire' = written
     ELSE IF keepsTable
     THEN enc' = [enc EXCEPT !.size = size, !.prefix = c] /\ wire' = written
     ELSE enc' = [Encoder EXCEPT !.prefix = c] /\ wire' = written \o Bits(Clear, size)
\* lzwEncode reads its next pixel.
Encode(c) ==
  /\ ~DecoderCanRead /\ Len(pixels) < count
  /\ pixels' = Append(pixels, c)
  /\ IF pixels = <<>>
     THEN enc' = [enc EXCEPT !.prefix = c] /\ wire' = Bits(Clear, enc.size)
     ELSE IF <<enc.prefix, c>> \in DOMAIN enc.codes
     THEN enc' = [enc EXCEPT !.prefix = enc.codes[<<enc.prefix, c>>]] /\ UNCHANGED wire
     ELSE Learn(c)
  /\ UNCHANGED <<count, dec, out, keepsTable>>
Finish ==
  /\ ~DecoderCanRead /\ Len(pixels) = count /\ ~enc.done
  /\ enc' = [enc EXCEPT !.done = TRUE]
  /\ wire' = wire \o Bits(enc.prefix, enc.size) \o Bits(Eoi, Widen(enc.next, enc.size))
  /\ UNCHANGED <<count, pixels, dec, out, keepsTable>>

String(code) == IF code < Clear THEN <<code>> ELSE dec.strings[code]
\* The entry that a code defines: what the previous one spelled, and the first pixel of this one.
Entry(code) == String(dec.prev) \o <<Head(String(IF code = dec.next THEN dec.prev ELSE code))>>
Read(code) ==
  IF dec.next < LZW_MAX_CODES
  THEN [dec EXCEPT !.strings = (dec.next :> Entry(code)) @@ @, !.next = @ + 1, !.prev = code,
                   !.size = IF dec.next + 1 = 2^dec.size /\ dec.size < MaxBits THEN @ + 1 ELSE @]
  ELSE [dec EXCEPT !.prev = code]
Take(s) == IF Len(s) > count THEN SubSeq(s, 1, count) ELSE s
\* lzwDecode's loop, for one code; what falls past the frame is dropped.
Decode ==
  /\ DecoderCanRead
  /\ wire' = SubSeq(wire, dec.size + 1, Len(wire))
  /\ LET code == Code(SubSeq(wire, 1, dec.size))
         known == IF dec.prev = NoCode THEN code < Clear
                  ELSE code < dec.next \/ (code = dec.next /\ dec.next < LZW_MAX_CODES)
         next == IF dec.prev = NoCode THEN [dec EXCEPT !.prev = code] ELSE Read(code)
         string == IF code < Clear THEN <<code>> ELSE next.strings[code]
     IN IF code = Clear THEN dec' = Decoder /\ UNCHANGED out
        ELSE IF code = Eoi \/ ~known THEN dec' = [dec EXCEPT !.failed = TRUE] /\ UNCHANGED out
        ELSE dec' = next /\ out' = Take(out \o string)
  /\ UNCHANGED <<count, pixels, enc, keepsTable>>
Next == (\E c \in Pixels : Encode(c)) \/ Finish \/ Decode
LzwSpec == Init /\ [][Next]_vars

\* -------------------------------------------------------------------------- properties
\* What is drawn is always the start of what was encoded, and when the codes end nothing of the frame is missing: the
\* two sides never disagree on the width of a code, on a full table or on a code that names the entry it defines
\* (image-sanitize.js:775-820 and 890-938).
DrawnAsEncoded ==
  /\ ~dec.failed /\ IsPrefix(out, pixels)
  /\ enc.done /\ ~DecoderCanRead => out = pixels
====

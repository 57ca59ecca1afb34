---- MODULE PngPixels ----
\* The pixels of a PNG image on their way through image-sanitize.js: decodePng undoes the passes, the row filters and
\* the packing of samples of the file that was sent, encodePng writes the picture again.  Deflate is the identity on
\* rows, and a row is its filter type and its bytes.
EXTENDS Integers, Sequences, SequencesExt

CONSTANT Pictures  \* [w, h, color, depth, interlaced, palette, trns, samples, filter]

VARIABLES picture,  \* what its author drew
          decoded,  \* the RGBA pixels, a row after the other
          pinned    \* the rows that are pinned
vars == <<picture, decoded, pinned>>
Nothing == <<>>
Refused == <<Nothing>>
CeilDiv(a, b) == (a + b - 1) \div b

PNG_CHANNELS == [c \in {0, 2, 3, 4, 6} |-> CASE c = 2 -> 3 [] c = 4 -> 2 [] c = 6 -> 4 [] OTHER -> 1]
ADAM7 == <<<<0, 0, 8, 8>>, <<4, 0, 8, 8>>, <<0, 4, 4, 8>>, <<2, 0, 4, 4>>, <<0, 2, 2, 4>>, <<1, 0, 2, 2>>, <<0, 1, 1, 2>>>>
Passes(w, h, interlaced) ==
  LET size(n, start, step) == IF n > start THEN CeilDiv(n - start, step) ELSE 0
      pass(p) == [x0 |-> p[1], y0 |-> p[2], dx |-> p[3], dy |-> p[4], w |-> size(w, p[1], p[3]), h |-> size(h, p[2], p[4])]
  IN SelectSeq(IF interlaced THEN [i \in 1..7 |-> pass(ADAM7[i])] ELSE <<pass(<<0, 0, 1, 1>>)>>, LAMBDA p : p.w > 0 /\ p.h > 0)

Abs(n) == IF n < 0 THEN -n ELSE n
Paeth(a, b, c) == LET p == a + b - c
                  IN IF Abs(p - a) <= Abs(p - b) /\ Abs(p - a) <= Abs(p - c) THEN a
                     ELSE IF Abs(p - b) <= Abs(p - c) THEN b ELSE c
Predicted(type, a, b, c) == CASE type = 0 -> 0 [] type = 1 -> a [] type = 2 -> b [] type = 3 -> (a + b) \div 2
                              [] type = 4 -> Paeth(a, b, c)
Byte(row, i) == IF i < 1 THEN 0 ELSE row[i]
\* In place: a is already reconstructed.
UnfilterRow(type, row, up, bpp) ==
  FoldLeftDomain(LAMBDA d, i : Append(d, (row[i] + Predicted(type, Byte(d, i - bpp), up[i], Byte(up, i - bpp))) % 256), <<>>, row)
FilterRow(type, row, up, bpp) ==
  [i \in DOMAIN row |-> (row[i] - Predicted(type, Byte(row, i - bpp), up[i], Byte(up, i - bpp))) % 256]
AbsSigned(v) == IF v < 128 THEN v ELSE 256 - v
\* The least sum; the simpler filter where two are equal.
ChooseFilter(row, up) ==
  LET sum(t) == FoldLeft(LAMBDA s, v : s + AbsSigned(v), 0, FilterRow(t, row, up, 4))
  IN CHOOSE t \in 0..4 : \A u \in 0..4 : sum(t) < sum(u) \/ (sum(t) = sum(u) /\ t <= u)
Zero(n) == [i \in 1..n |-> 0]

\* Sample i of a row, counted from 0, at full precision; the high byte of a 16-bit sample is what is shown.
Sample(row, i, depth) ==
  IF depth < 8 THEN (row[(i * depth) \div 8 + 1] \div 2^(8 - depth - ((i * depth) % 8))) % 2^depth
  ELSE IF depth = 8 THEN row[i + 1] ELSE row[2 * i + 1] * 256 + row[2 * i + 2]
Transparent(f, s) == f.trns = s
Shown(v, depth) == IF depth = 16 THEN v \div 256 ELSE v * (255 \div (2^depth - 1))
\* makeRowWriter, for pixel k of a row; Nothing for an index outside the palette.
Pixel(f, row, k) ==
  LET s == [c \in 1 .. PNG_CHANNELS[f.color] |-> Sample(row, k * PNG_CHANNELS[f.color] + c - 1, f.depth)]
      shown == [c \in DOMAIN s |-> Shown(s[c], f.depth)]
      key == IF Transparent(f, s) THEN 0 ELSE 255
  IN CASE f.color = 3 -> IF s[1] < Len(f.palette)
                         THEN f.palette[s[1] + 1] \o <<IF s[1] < Len(f.trns) THEN f.trns[s[1] + 1] ELSE 255>> ELSE Nothing
       [] f.color = 0 -> <<shown[1], shown[1], shown[1], key>>
       [] f.color = 4 -> <<shown[1], shown[1], shown[1], shown[2]>>
       [] f.color = 2 -> shown \o <<key>>
       [] f.color = 6 -> shown
BitsPerPixel(f) == PNG_CHANNELS[f.color] * f.depth
\* The rows of a file, pass after pass, undone one by one; refused unless they are exactly those that the header promises
\* (inflateExact).
DecodePng(f, rows) ==
  LET passes == Passes(f.w, f.h, f.interlaced)
      bpp == IF BitsPerPixel(f) < 8 THEN 1 ELSE BitsPerPixel(f) \div 8
      start[i \in 1 .. Len(passes) + 1] == IF i = 1 THEN 0 ELSE start[i - 1] + passes[i - 1].h
      first(n) == \E i \in DOMAIN passes : n = start[i] + 1
      undone == FoldLeftDomain(
        LAMBDA d, n : Append(d, UnfilterRow(rows[n].type, rows[n].bytes,
                                            IF first(n) THEN Zero(Len(rows[n].bytes)) ELSE d[n - 1], bpp)), <<>>, rows)
      in(p, x, y) == x >= p.x0 /\ y >= p.y0 /\ (x - p.x0) % p.dx = 0 /\ (y - p.y0) % p.dy = 0
      pixel(x, y) == LET i == CHOOSE j \in DOMAIN passes : in(passes[j], x, y)  p == passes[i]
                     IN Pixel(f, undone[start[i] + (y - p.y0) \div p.dy + 1], (x - p.x0) \div p.dx)
      promised == /\ Len(rows) = start[Len(passes) + 1]
                  /\ \A i \in DOMAIN passes : \A j \in 1 .. passes[i].h :
                       Len(rows[start[i] + j].bytes) = CeilDiv(passes[i].w * BitsPerPixel(f), 8)
      pixels == [n \in 1 .. f.w * f.h |-> pixel((n - 1) % f.w, (n - 1) \div f.w)]
  IN IF promised /\ \A n \in DOMAIN pixels : pixels[n] # Nothing THEN pixels ELSE Refused
Above(px, y, n) == IF y > 1 THEN px[y - 1] ELSE Zero(n)
\* encodePng: 8-bit RGBA, not interlaced.
EncodePng(f, pixels) ==
  LET px == [y \in 1 .. f.h |-> FlattenSeq(SubSeq(pixels, (y - 1) * f.w + 1, y * f.w))]
      up(y) == Above(px, y, 4 * f.w)
  IN [y \in 1 .. f.h |-> LET t == ChooseFilter(px[y], up(y)) IN [type |-> t, bytes |-> FilterRow(t, px[y], up(y), 4)]]
Rgba(f) == [w |-> f.w, h |-> f.h, color |-> 6, depth |-> 8, interlaced |-> FALSE, palette |-> Nothing, trns |-> Nothing]

\* -------------------------------------------------------------------------- the author's program, by the PNG format
Adam == <<<<1, 6, 4, 6, 2, 6, 4, 6>>, <<7, 7, 7, 7, 7, 7, 7, 7>>, <<5, 6, 5, 6, 5, 6, 5, 6>>, <<7, 7, 7, 7, 7, 7, 7, 7>>,
          <<3, 6, 4, 6, 3, 6, 4, 6>>, <<7, 7, 7, 7, 7, 7, 7, 7>>, <<5, 6, 5, 6, 5, 6, 5, 6>>, <<7, 7, 7, 7, 7, 7, 7, 7>>>>
AdamPass(x, y) == Adam[(y % 8) + 1][(x % 8) + 1]
BigEndian(v, n) == [i \in 1..n |-> (v \div 2^(n - i)) % 2]
Value(bits) == FoldLeft(LAMBDA v, b : 2 * v + b, 0, bits)
Pack(values, depth) ==
  LET bits == FlattenSeq([i \in DOMAIN values |-> BigEndian(values[i], depth)])
      padded == bits \o Zero(8 * CeilDiv(Len(bits), 8) - Len(bits))
  IN [i \in 1 .. Len(padded) \div 8 |-> Value(SubSeq(padded, 8 * i - 7, 8 * i))]
\* samples[n]: the samples of pixel n.
AuthorRows(f) ==
  LET at(x, y) == f.samples[y * f.w + x + 1]
      xs(n, y) == SelectSeq([i \in 1 .. f.w |-> i - 1], LAMBDA x : ~f.interlaced \/ AdamPass(x, y) = n)
      packed(n, y) == Pack(FlattenSeq([i \in DOMAIN xs(n, y) |-> at(xs(n, y)[i], y)]), f.depth)
      bpp == IF BitsPerPixel(f) < 8 THEN 1 ELSE BitsPerPixel(f) \div 8
      ys(n) == SelectSeq([i \in 1 .. f.h |-> i - 1], LAMBDA y : xs(n, y) # <<>>)
      pass(n) == [i \in DOMAIN ys(n) |->
                   LET row == packed(n, ys(n)[i]) IN
                   [type |-> f.filter, bytes |-> FilterRow(f.filter, row,
                     IF i = 1 THEN Zero(Len(row)) ELSE packed(n, ys(n)[i - 1]), bpp)]]
  IN FlattenSeq([n \in 1 .. (IF f.interlaced THEN 7 ELSE 1) |-> pass(n)])
\* What a viewer of the file shows.
Meant(f, s) ==
  LET level(v) == IF f.depth = 16 THEN v \div 256 ELSE (v * 255) \div (2^f.depth - 1)
      rgb == IF f.color \in {0, 4} THEN <<level(s[1]), level(s[1]), level(s[1])>> ELSE [i \in 1..3 |-> level(s[i])]
  IN IF f.color = 3
     THEN f.palette[s[1] + 1] \o <<IF s[1] + 1 \in DOMAIN f.trns THEN f.trns[s[1] + 1] ELSE 255>>
     ELSE rgb \o <<IF f.color \in {4, 6} THEN level(Last(s)) ELSE IF s = f.trns THEN 0 ELSE 255>>

Init == picture \in Pictures /\ decoded = Nothing /\ pinned = Nothing
Decode == decoded = Nothing /\ decoded' = DecodePng(picture, AuthorRows(picture)) /\ UNCHANGED <<picture, pinned>>
Encode == /\ decoded \notin {Nothing, Refused} /\ pinned = Nothing
          /\ pinned' = EncodePng(picture, decoded) /\ UNCHANGED <<picture, decoded>>
Next == Decode \/ Encode
Spec == Init /\ [][Next]_vars

\* -------------------------------------------------------------------------- properties
\* Every pixel of every file of every format is decoded as a viewer shows it, in its place, whatever passes, filters,
\* packing and transparency it was written with (image-sanitize.js:303-459).
DecodedAsMeant == decoded # Nothing => decoded = [n \in DOMAIN picture.samples |-> Meant(picture, picture.samples[n])]
\* The file that is pinned shows the picture that was decoded, though each of its rows has a filter of its own
\* (image-sanitize.js:464-521).
PinnedAsDecoded == pinned # Nothing => DecodePng(Rgba(picture), pinned) = decoded
====

---- MODULE PngChunks ----
\* parsePng of image-sanitize.js: the walk over the chunks of a PNG file, which keeps the header, the palette, the
\* transparency and the image data and refuses every file whose chunks are not the ones, or not in the order, it knows
\* how to decode.  A chunk whose length, checksum or name is wrong is "broken"; limits on bytes are left out.
EXTENDS Integers, Sequences, SequencesExt

CONSTANTS Headers,    \* [color, depth] of the files read, legal or not
          Palettes,   \* numbers of entries
          MaxChunks   \* bound

VARIABLES chunks,  \* of the file, as far as it is read
          png      \* parsePng's variables
vars == <<chunks, png>>

Depths == [c \in {0, 2, 3, 4, 6} |-> CASE c = 0 -> {1, 2, 4, 8, 16} [] c = 3 -> {1, 2, 4, 8} [] OTHER -> {8, 16}]
Legal(h) == h.color \in DOMAIN Depths /\ h.depth \in Depths[h.color]
Chunks == [type : {"IHDR"}, header : Headers] \cup [type : {"PLTE"}, entries : Palettes]
          \cup [type : {"tRNS"}, bytes : Palettes \cup {2, 6}, fits : BOOLEAN] \cup [type : {"IDAT"}]
          \cup [type : {"IEND"}, empty : BOOLEAN, atEnd : BOOLEAN] \cup [type : {"critical", "ancillary", "broken"}]

NoHeader == [color |-> -1, depth |-> 0]
Start == [verdict |-> "reading", ihdr |-> NoHeader, sawPalette |-> FALSE, palette |-> 0, trns |-> FALSE,
          idat |-> FALSE, idatClosed |-> FALSE]
\* readTrns: fits says that its samples are within the depth of the image.
TrnsIsSound(p, c) == CASE p.ihdr.color = 3 -> p.palette # 0 /\ c.bytes <= p.palette
                       [] p.ihdr.color = 0 -> c.bytes = 2 /\ c.fits
                       [] p.ihdr.color = 2 -> c.bytes = 6 /\ c.fits
                       [] OTHER -> FALSE
PaletteIsSound(p, c) == /\ ~p.sawPalette /\ ~p.idat /\ ~p.trns
                        /\ p.ihdr.color \notin {0, 4} /\ c.entries \in 1..256
                        /\ p.ihdr.color = 3 => c.entries <= 2^p.ihdr.depth
DataIsSound(p) == ~p.idatClosed /\ (p.ihdr.color = 3 => p.palette # 0)
\* One turn of the loop: may the chunk stand here?
Allowed(p, c) ==
  IF p.ihdr = NoHeader THEN c.type = "IHDR" /\ Legal(c.header)
  ELSE CASE c.type = "IDAT" -> DataIsSound(p)
         [] c.type = "IEND" -> c.empty /\ p.idat /\ c.atEnd
         [] c.type = "PLTE" -> PaletteIsSound(p, c)
         [] c.type = "tRNS" -> ~p.trns /\ ~p.idat /\ TrnsIsSound(p, c)
         [] OTHER -> c.type = "ancillary"
Walk(p, c) ==
  IF ~Allowed(p, c) THEN [p EXCEPT !.verdict = "refused"]
  ELSE [p EXCEPT !.verdict = IF c.type = "IEND" THEN "accepted" ELSE "reading",
                 !.ihdr = IF c.type = "IHDR" THEN c.header ELSE @,
                 !.idat = @ \/ c.type = "IDAT", !.idatClosed = @ \/ (p.idat /\ c.type # "IDAT"),
                 !.sawPalette = @ \/ c.type = "PLTE", !.trns = @ \/ c.type = "tRNS",
                 !.palette = IF c.type = "PLTE" /\ p.ihdr.color = 3 THEN c.entries ELSE @]

Init == chunks = <<>> /\ png = Start
Read(c) == /\ png.verdict = "reading" /\ Len(chunks) < MaxChunks
           /\ chunks' = Append(chunks, c) /\ png' = Walk(png, c)
Next == \E c \in Chunks : Read(c)
Spec == Init /\ [][Next]_vars

\* -------------------------------------------------------------------------- properties
At(f, type) == {i \in DOMAIN f : f[i].type = type}
AtMostOne(S) == \A i, j \in S : i = j
\* A PNG file that can be decoded, in the words of the format.
WellFormed(f) ==
  LET h == f[1].header data == At(f, "IDAT") plte == At(f, "PLTE") trns == At(f, "tRNS") IN
  /\ At(f, "IHDR") = {1} /\ Legal(h)
  /\ At(f, "IEND") = {Len(f)} /\ Last(f).empty /\ Last(f).atEnd
  /\ At(f, "critical") \cup At(f, "broken") = {}
  /\ data # {} /\ \A i, j \in data : i..j \subseteq data
  /\ AtMostOne(plte) /\ AtMostOne(trns)
  /\ \A i \in plte : /\ \A j \in data \cup trns : i < j
                     /\ h.color \in {2, 3, 6} /\ f[i].entries \in 1..(IF h.color = 3 THEN 2^h.depth ELSE 256)
  /\ \A i \in trns : /\ \A j \in data : i < j
                     /\ h.color \in {0, 2, 3}
                     /\ h.color = 3 => \E k \in plte : k < i /\ f[i].bytes <= f[k].entries
                     /\ h.color # 3 => f[i].fits /\ f[i].bytes = IF h.color = 0 THEN 2 ELSE 6
  /\ h.color = 3 => plte # {}
\* What may still come, if the walk is right to go on.
Completed(f) ==
  f \o (IF f[1].header.color = 3 /\ At(f, "PLTE") = {} THEN <<[type |-> "PLTE", entries |-> 1]>> ELSE <<>>)
    \o (IF At(f, "IDAT") = {} THEN <<[type |-> "IDAT"]>> ELSE <<>>)
    \o <<[type |-> "IEND", empty |-> TRUE, atEnd |-> TRUE]>>
\* The walk refuses a file at the first chunk after which it can no longer be completed, and accepts exactly the files
\* that can be decoded (image-sanitize.js:195-261).
ReadsExactlyPng ==
  chunks # <<>> =>
    CASE png.verdict = "accepted" -> WellFormed(chunks)
      [] png.verdict = "reading" -> WellFormed(Completed(chunks))
      [] OTHER -> chunks[1].type = "IHDR" => ~WellFormed(chunks) /\ ~WellFormed(Completed(chunks))
====

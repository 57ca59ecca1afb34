---- MODULE GifImage ----
\* An animation on its way through image-sanitize.js: parseGif walks the blocks of the file, each frame is decoded, and
\* a new file is written from what was decoded.  The codes of a frame are in Lzw; a block whose bytes do not add up is
\* "broken", and a frame is its rows, in the order they are stored, and the highest colour it uses.
EXTENDS Integers, Sequences, SequencesExt

CONSTANTS Controls,   \* what is kept of a graphic control: disposal, delay, transparent colour
          Loops,      \* loop counts
          Images,     \* image blocks, their rows numbered as they are stored
          Globals,    \* sizes of the global colour table, 0 for none
          maxFrames,  \* the stricter of maxFrames and maxTotalPixels
          None,
          MaxBlocks   \* bound

VARIABLES global,  \* colours in the global table
          blocks,  \* of the file, as far as it is read
          gif      \* what parseGif knows
vars == <<global, blocks, gif>>

GIF_INTERLACE == <<<<0, 8>>, <<4, 8>>, <<2, 4>>, <<1, 2>>>>
Pass(height, start, step) == [i \in 1 .. (height - start + step - 1) \div step |-> start + (i - 1) * step]
\* The place of each stored row.
Places(height) == FoldLeft(LAMBDA rows, p : rows \o Pass(height, p[1], p[2]), <<>>, GIF_INTERLACE)
\* Mutation of Deinterlace: each row is fetched from where it should be put.
X_Inverted(rows) == [y \in DOMAIN rows |-> rows[Places(Len(rows))[y] + 1]]
Deinterlace(rows) == LET places == Places(Len(rows))
                     IN [y \in DOMAIN rows |-> rows[CHOOSE i \in DOMAIN rows : places[i] = y - 1]]

Start == [verdict |-> "reading", gce |-> None, loopCount |-> None, frames |-> <<>>]
Refuse(g) == [g EXCEPT !.verdict = "refused"]
Palette(b, colours) == IF b.table # 0 THEN b.table ELSE colours
\* decodeGifFrame: a colour outside the table is refused.
Frame(b, colours, gce) ==
  [gce |-> gce, inside |-> b.inside, table |-> b.table, top |-> b.top,
   rows |-> IF b.interlaced THEN Deinterlace(b.rows) ELSE b.rows]
ImageIsSound(b, colours, g) ==
  /\ b.inside /\ Len(g.frames) < maxFrames /\ Palette(b, colours) # 0
  /\ b.minCodeSize \in 2..8 /\ b.top < Palette(b, colours)
\* The control that is pending after a block.
Control(b, g) == CASE b.kind = "control" -> b.gce
                   [] b.kind \in {"image", "plain text"} -> None
                   [] OTHER -> g.gce
Loop(b, g) == IF b.kind = "application" /\ g.loopCount = None THEN b.loopCount ELSE g.loopCount
\* One turn of parseGif's loop, and after the trailer the decoding of the frames, whose refusals come first here.
Parse(g, b, colours) ==
  CASE b.kind = "broken" \/ (b.kind = "image" /\ ~ImageIsSound(b, colours, g)) -> Refuse(g)
    [] b.kind = "trailer" -> IF b.atEnd /\ g.frames # <<>> THEN [g EXCEPT !.verdict = "accepted"] ELSE Refuse(g)
    [] OTHER -> [g EXCEPT !.gce = Control(b, g), !.loopCount = Loop(b, g),
                          !.frames = IF b.kind = "image" THEN Append(@, Frame(b, colours, g.gce)) ELSE @]
ParseGif(file, colours) == FoldLeft(LAMBDA g, b : Parse(g, b, colours), Start, file)

\* At least 2, the smallest a frame may give.
CodeSize(colours) == CHOOSE n \in 2..8 : 2^n = colours \/ (n = 2 /\ colours = 2)
\* encodeGifFrame: never interlaced.
EncodeFrame(f, colours) ==
  (IF f.gce = None THEN <<>> ELSE <<[kind |-> "control", gce |-> f.gce]>>)
  \o <<[kind |-> "image", inside |-> f.inside, table |-> f.table, top |-> f.top, interlaced |-> FALSE,
        rows |-> f.rows, minCodeSize |-> CodeSize(Palette(f, colours))]>>
\* gifHeader, the frames and the trailer.
EncodeGif(g, colours) ==
  (IF g.loopCount = None THEN <<>> ELSE <<[kind |-> "application", loopCount |-> g.loopCount]>>)
  \o FoldLeft(LAMBDA file, f : file \o EncodeFrame(f, colours), <<>>, g.frames)
  \o <<[kind |-> "trailer", atEnd |-> TRUE]>>

Blocks == [kind : {"control"}, gce : Controls] \cup [kind : {"application"}, loopCount : Loops \cup {None}]
          \cup [kind : {"plain text", "comment", "broken"}] \cup [kind : {"trailer"}, atEnd : BOOLEAN] \cup Images
Init == global \in Globals /\ blocks = <<>> /\ gif = Start
Read(b) == /\ gif.verdict = "reading" /\ Len(blocks) < MaxBlocks
           /\ blocks' = Append(blocks, b)
           /\ gif' = Parse(gif, b, global)
           /\ UNCHANGED global
Next == \E b \in Blocks : Read(b)
Spec == Init /\ [][Next]_vars

\* -------------------------------------------------------------------------- properties
ImagesAt == {i \in DOMAIN blocks : blocks[i].kind = "image"}
Between(i, j, kinds) == {k \in i + 1 .. j - 1 : blocks[k].kind \in kinds}
\* A frame has the control of the last extension before it, unless an image or a plain text took that one; the loop
\* count is the first one given (image-sanitize.js:627-664).
ControlsStay ==
  gif.verdict = "accepted" =>
    /\ Len(gif.frames) = Len(SelectSeq(blocks, LAMBDA b : b.kind = "image"))
    /\ \A i \in ImagesAt :
         LET f == gif.frames[Len(SelectSeq(SubSeq(blocks, 1, i), LAMBDA b : b.kind = "image"))]
         IN IF f.gce = None
            THEN \A j \in Between(0, i, {"control"}) : Between(j, i, {"image", "plain text"}) # {}
            ELSE \E j \in Between(0, i, {"control"}) :
                   blocks[j].gce = f.gce /\ Between(j, i, {"control", "image", "plain text"}) = {}
    /\ \A i \in Between(0, Len(blocks), {"application"}) :
         blocks[i].loopCount # None /\ (\A j \in Between(0, i, {"application"}) : blocks[j].loopCount = None)
           => gif.loopCount = blocks[i].loopCount
\* The file that is pinned is accepted when it is read again, and shows the same animation: same frames, rows, controls
\* and loop count.  In particular its code sizes fit the colours it uses (image-sanitize.js:834-871).
SameAnimation == gif.verdict = "accepted" => ParseGif(EncodeGif(gif, global), global) = [gif EXCEPT !.gce = None]
\* A viewer that fills every 8th row, then from row 4, and so on, draws the row that is put there
\* (image-sanitize.js:825-832).
Turn(y) == CASE y % 8 = 0 -> 1 [] y % 8 = 4 -> 2 [] y % 4 = 2 -> 3 [] OTHER -> 4
RowsInPlace ==
  blocks # <<>> /\ Last(blocks).kind = "image" /\ gif.verdict = "reading" =>
    LET drawn == Last(gif.frames).rows IN
    \A y, z \in DOMAIN drawn : Last(blocks).interlaced =>
      (Turn(y - 1) < Turn(z - 1) \/ (Turn(y - 1) = Turn(z - 1) /\ y < z) <=> drawn[y] < drawn[z])
====

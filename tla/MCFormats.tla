------------------------------ MODULE MCFormats ------------------------------
(***************************************************************************)
(* Six readers and writers of formats, each on its own: part says which.   *)
(* They share the variables v1 .. v7, and the ones that a part does not    *)
(* need stay empty.                                                        *)
(***************************************************************************)
EXTENDS Integers, Sequences, SequencesExt, TLC

CONSTANTS c1, c2, c3, None
VARIABLES part, v1, v2, v3, v4, v5, v6, v7
all == <<part, v1, v2, v3, v4, v5, v6, v7>>
Unused5 == v5 = <<>> /\ v6 = <<>> /\ v7 = <<>>
Unused4 == v4 = <<>> /\ Unused5

-----------------------------------------------------------------------------
\* LZW with codes of 3 to 4 bits, so that the table fills up; one-pixel frames, and frames of 26 pixels of which 11 are
\* chosen and then repeat.
Free == 11
L == INSTANCE Lzw WITH MinCodeSize <- 2, MaxBits <- 4, Pixels <- {0, 1}, Counts <- {1, 26},
                       count <- v1, pixels <- v2, enc <- v3, wire <- v4, dec <- v5, out <- v6, keepsTable <- v7
LzwStep == L!Next /\ IF Len(v2') > Free /\ v2' # v2 THEN Last(v2') = v2'[Len(v2') - Free] ELSE TRUE

-----------------------------------------------------------------------------
\* GIF files of five blocks, two frames, no, small and large tables; <<table, top, interlaced, code size, rows>>.
Images == {[kind |-> "image", inside |-> TRUE, table |-> x[1], top |-> x[2], interlaced |-> x[3],
            rows |-> [i \in 1..x[5] |-> i], minCodeSize |-> x[4]] :
             x \in {<<0, 1, TRUE, 2, 10>>, <<2, 1, FALSE, 2, 1>>, <<2, 3, FALSE, 2, 1>>, <<8, 7, TRUE, 3, 5>>, <<4, 3, FALSE, 1, 1>>}}
G == INSTANCE GifImage WITH Controls <- {c1, c2}, Loops <- {0, 1}, Globals <- {0, 2, 4}, maxFrames <- 2, MaxBlocks <- 5,
                            global <- v1, blocks <- v2, gif <- v3

-----------------------------------------------------------------------------
\* PNG files of six chunks.
Headers == {[color |-> x[1], depth |-> x[2]] : x \in {<<0, 1>>, <<2, 8>>, <<3, 1>>, <<3, 16>>, <<4, 8>>, <<6, 16>>}}
C == INSTANCE PngChunks WITH Palettes <- {0, 2, 3}, MaxChunks <- 6, chunks <- v1, png <- v2

-----------------------------------------------------------------------------
\* PNG pictures: sizes at which passes are empty or cut, every filter over bytes that wrap, every colour type and depth
\* with and without a transparent colour, palettes shorter and longer than their transparency.
Picture(w, h, color, depth, interlaced, palette, trns, samples, filter) ==
  [w |-> w, h |-> h, color |-> color, depth |-> depth, interlaced |-> interlaced, palette |-> palette, trns |-> trns,
   samples |-> samples, filter |-> filter]
Sides == {1, 2, 3, 5, 9}
Layouts == {Picture(w, h, 0, 8, i, <<>>, <<>>, [n \in 1..(w * h) |-> <<(37 * n) % 256>>], f) :
              w \in Sides, h \in Sides, i \in BOOLEAN, f \in {0, 4}}
Edges == {0, 1, 129, 255}
Filters == {Picture(2, 2, 6, 8, FALSE, <<>>, <<>>, <<<<a, 0, 255, a>>, <<b, 255, 1, 9>>, <<c, 3, a, b>>, <<d, c, 128, 7>>>>, f) :
              a \in Edges, b \in Edges, c \in Edges, d \in Edges, f \in 0..4}
Kinds == {<<0, 1>>, <<0, 2>>, <<0, 4>>, <<0, 8>>, <<0, 16>>, <<2, 8>>, <<2, 16>>, <<4, 8>>, <<4, 16>>, <<6, 8>>, <<6, 16>>}
Channels(color) == CASE color = 0 -> 1 [] color = 2 -> 3 [] color = 4 -> 2 [] color = 6 -> 4
Levels(depth) == IF depth = 16 THEN {0, 256, 257} ELSE {1, 2^depth - 1}
Samples == UNION {{Picture(5, 1, k[1], k[2], i, <<>>, t, [n \in 1..5 |-> [c \in 1..Channels(k[1]) |-> IF (n + c) % 2 = 0 THEN u ELSE v]], 1) :
                     u \in Levels(k[2]), v \in Levels(k[2]), i \in BOOLEAN,
                     t \in {<<>>} \cup IF k[1] \in {0, 2} THEN {[c \in 1..Channels(k[1]) |-> v] : v \in Levels(k[2])} ELSE {}} :
                  k \in Kinds}
Indexed == {Picture(9, 1, 3, d, i, [n \in 1..(2^d) |-> <<n, 2 * n, 3 * n>>], t, [n \in 1..9 |-> <<(n * n) % (2^d)>>], 0) :
              d \in {1, 2, 4}, i \in BOOLEAN, t \in {<<>>, <<7>>, <<7, 200>>}}
X == INSTANCE PngPixels WITH Pictures <- Layouts \cup Filters \cup Samples \cup Indexed,
                             picture <- v1, decoded <- v2, pinned <- v3

-----------------------------------------------------------------------------
\* Up to five leaves of five; the order of the first three is any.
B == INSTANCE Bundle WITH Payloads <- 1..5, Dates <- {1, 2}, MaxLeaves <- 5,
                          date <- v1, leaves <- v2, otherDate <- v3, others <- v4
Orderly(list) == \A k \in 3..Len(list) : list[k - 1][2] <= list[k][2]
Strict(list) == \A k \in 2..Len(list) : list[k - 1][2] < list[k][2]
BundleStep == B!Next /\ Orderly(v2') /\ Strict(v4') /\ Len(v4') <= 3

-----------------------------------------------------------------------------
\* Three calendars.  Each adds a nonce of its own before or after hashing, or promises two messages (Own), or promises the
\* digest itself (Shared); later it has a Bitcoin attestation, directly or under operations, or promises again.
CONSTANT Shared
Order == <<c1, c2, c3>>
Leaf(a) == [att |-> <<a>>, ops |-> <<>>]
Via(o, x, t) == [att |-> <<>>, ops |-> <<[op |-> o, arg |-> x, child |-> t]>>]
Pending(c) == <<"pending", c>>
Own == [c \in {c1, c2, c3} |->
  {Via("append", c, Via("sha256", 0, Leaf(Pending(c)))), Via("sha256", 0, Via("append", c, Leaf(Pending(c)))),
   Via("append", c, [att |-> <<>>, ops |-> <<[op |-> "prepend", arg |-> 1, child |-> Leaf(Pending(c))],
                                             [op |-> "prepend", arg |-> 2, child |-> Leaf(Pending(c))]>>])}]
Digest == [c \in {c1, c2, c3} |-> {Leaf(Pending(c))}]
Later == [c \in {c1, c2, c3} |->
  {Leaf(<<"bitcoin", 1>>), Via("prepend", 3, Via("sha256", 0, Leaf(<<"bitcoin", 2>>))), Leaf(Pending(c))}]
O == INSTANCE Ots WITH Calendars <- Order, Answers <- IF Shared THEN Digest ELSE Own, Holds <- Later, MaxRounds <- 2,
                       asked <- v1, node <- v2, todo <- v3, proof <- v4, status <- v5, rounds <- v6, given <- v7

-----------------------------------------------------------------------------
Start ==
  \/ part = "lzw" /\ L!Init
  \/ part = "gif" /\ G!Init /\ Unused4
  \/ part = "chunks" /\ C!Init /\ v3 = <<>> /\ Unused4
  \/ part = "pixels" /\ X!Init /\ Unused4
  \/ part = "bundle" /\ B!Init /\ Unused5
  \/ part = "ots" /\ O!Init
Step ==
  \/ part = "lzw" /\ LzwStep /\ UNCHANGED part
  \/ part = "gif" /\ G!Next /\ UNCHANGED <<part, v4, v5, v6, v7>>
  \/ part = "chunks" /\ C!Next /\ UNCHANGED <<part, v3, v4, v5, v6, v7>>
  \/ part = "pixels" /\ X!Next /\ UNCHANGED <<part, v4, v5, v6, v7>>
  \/ part = "bundle" /\ BundleStep /\ UNCHANGED <<part, v5, v6, v7>>
  \/ part = "ots" /\ O!Next /\ UNCHANGED part
Spec == Start /\ [][Step]_all
Upgrading == part = "ots" /\ O!Init
SharedSpec == Upgrading /\ [][Step]_all

\* What is drawn of an LZW stream is what was encoded; a GIF keeps its frames, their controls and the place of their rows;
\* exactly the well-formed PNG files are read, every pixel as a viewer shows it, and pinned as it was read.
ImagesAreKept == /\ part = "lzw" => L!DrawnAsEncoded
                 /\ part = "gif" => G!ControlsStay /\ G!SameAnimation /\ G!RowsInPlace
                 /\ part = "chunks" => C!ReadsExactlyPng
                 /\ part = "pixels" => X!DecodedAsMeant /\ X!PinnedAsDecoded
\* What the calendars gave is in the proof that is kept.
NothingLost == part = "ots" => O!NothingLost
\* So it is when the calendars promise different messages, and a root stands for one set of leaves, and the proof of a leaf
\* for that leaf in it.
ProofsAreKept == /\ part = "bundle" => B!RootIsTheSet /\ B!ProofIsOfTheLeaf
                 /\ NothingLost
=============================================================================

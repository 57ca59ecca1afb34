----------------------------- MODULE MCLibraries -----------------------------
(***************************************************************************)
(* The parts of MCFormats, and the libraries of the pages: signatures, ABI, *)
(* typed data, texts, the check of a launch before it is sent, and the     *)
(* verdict on a launch that was made.                                      *)
(***************************************************************************)
EXTENDS MCFormats

CONSTANTS w1, w2, t1, t2, AnyLength, MaxFaults
VARIABLE v8

-----------------------------------------------------------------------------
\* The curve y^2 = x^3 + 7 over 43 elements: 31 points, scalars of three digits.
K == INSTANCE Curve WITH P <- 43, N <- 31, GX <- 2, GY <- 12, Base <- 4, Digits <- 3, Digests <- {0, 1, 15, 30, 31, 40},
                         key <- v1, digest <- v2, nonce <- v3, signature <- v4, account <- v5

-----------------------------------------------------------------------------
\* ABI words of two bytes: every shape of a type over a few values, and every text of up to four words for some types.
Word == 2
Uint == [kind |-> "uint", limit |-> 256]
Sint == [kind |-> "int", limit |-> 128]
Fixed == [kind |-> "fixedBytes", size |-> 1]
Bytes == [kind |-> "bytes"]
Array(t) == [kind |-> "array", base |-> t, length |-> None]
FixedArray(t, n) == [kind |-> "array", base |-> t, length |-> n]
Tuple(ts) == [kind |-> "tuple", components |-> ts]
ByteStrings == {<<>>, <<7>>, <<0, 9>>, <<1, 2, 3>>}
UpTo(S, n) == UNION {[1..k -> S] : k \in 0..n}
ToEncode ==
  {<< <<Uint, Sint, Fixed>>, <<u, i, <<f>>>> >> : u \in {0, 255}, i \in {-128, -1, 127}, f \in {0, 255}}
  \cup {<< <<Bytes, Uint, Bytes>>, <<b, u, c>> >> : b \in ByteStrings, u \in {0, 255}, c \in ByteStrings}
  \cup {<< <<Array(Bytes), Bytes>>, <<a, b>> >> : a \in UpTo(ByteStrings, 2), b \in ByteStrings}
  \cup {<< <<FixedArray(Bytes, 2), Array(Uint)>>, <<a, b>> >> : a \in [1..2 -> ByteStrings], b \in UpTo({0, 255}, 2)}
  \cup {<< <<Array(Tuple(<<Uint, Array(Array(Uint)), Fixed>>))>>, <<a>> >> :
          a \in UpTo({<<5, b, <<9>>>> : b \in UpTo(UpTo({3}, 1), 2)}, 2)}
Types == {<<Bytes>>, <<Array(Bytes)>>, <<Array(Uint), Bytes>>, <<Array(Array(Uint))>>, <<Tuple(<<Uint, Bytes>>), Uint>>,
          <<FixedArray(Bytes, 2)>>, <<Sint, Fixed>>}
Words == {<<0, 0>>, <<0, 1>>, <<0, 2>>, <<0, 3>>, <<0, 4>>, <<1, 0>>}
\* Many offsets to one array: little input, much output.
SharedTails == {<< <<Array(Array(Uint))>>,
                   FlattenSeq(<< <<0, Word>>, <<0, n>> >> \o [i \in 1..n |-> <<0, Word * n>>] \o << <<0, k>> >> \o [i \in 1..k |-> <<0, i>>])>> :
                  n \in 1..6, k \in 0..6}
A == INSTANCE Abi WITH W <- Word, Values <- ToEncode,
                       Inputs <- {<<t, FlattenSeq(w)>> : t \in Types, w \in UpTo(Words, 4)} \cup SharedTails,
                       input <- v1, result <- v2

-----------------------------------------------------------------------------
\* Typed data: atoms in two spellings, arrays of structs (empty, fixed, dynamic), nested structs, and what is refused.
Atom(v, form) == [v |-> v, form |-> form]
Zero == Atom(0, "plain")
One == Atom(1, "plain")
Field(n, base, dims) == [name |-> n, type |-> [base |-> base, dims |-> dims]]
Domain(c) == [name |-> Atom("D", "plain"), chainId |-> c]
Doc(types, domain, m) == [types |-> types, primaryType |-> "M", domain |-> domain, message |-> m]
Plainly(fields, m) == Doc([M |-> fields], Domain(One), m)
Atoms == {Doc([M |-> <<Field("a", b, <<>>)>>], Domain(c), [a |-> v]) :
            b \in {"uint256", "bool"}, c \in {One, Atom(1, "other"), Zero}, v \in {Zero, One, Atom(1, "other")}}
         \cup {Plainly(<<Field("a", "string", <<>>)>>, [a |-> Atom("s", "plain")]),
               Plainly(<<Field("a", "uint256", <<>>)>>, [a |-> One, b |-> One])}
Lists == {Doc([M |-> <<Field("l", "S", <<n>>)>>, S |-> <<Field("x", b, <<>>)>>], Domain(One), [l |-> l]) :
            n \in {AnyLength, 1}, b \in {"uint256", "bool"},
            l \in {<<>>, <<[x |-> Zero]>>, <<[x |-> One]>>, <<[x |-> One], [x |-> Zero]>>}}
Nested == {Doc([M |-> <<Field("s", "S", <<>>), Field("g", "uint256", <<2, AnyLength>>)>>,
                S |-> <<Field("r", "R", <<AnyLength>>), Field("x", "uint256", <<>>)>>, R |-> <<Field("y", b, <<>>)>>],
               Domain(One), [s |-> [r |-> r, x |-> One], g |-> g]) :
             b \in {"uint256", "bool"}, r \in {<<>>, <<[y |-> One]>>},
             g \in {<<>>, <<<<Zero, One>>>>, <<<<One, Zero>>>>, <<<<Zero, One>>, <<Zero, One>>>>}}
Refusable == {Plainly(<<Field("a", "uint256", <<>>), Field("a", "bool", <<>>)>>, [a |-> One]),
              Plainly(<<Field("a", "N", <<>>)>>, [a |-> One]),
              Doc([M |-> <<Field("a", "uint256", <<>>)>>], [name |-> Atom("D", "plain"), other |-> One], [a |-> One]),
              [Plainly(<<>>, [a |-> One]) EXCEPT !.primaryType = "EIP712Domain"],
              Plainly(<<>>, [x \in {} |-> 0])}
Format == INSTANCE TypedData WITH Docs <- {}, signed <- v1, shown <- v2
Intents == {Format!launchIntentTypedData([chainId |-> c, operator |-> o, token |-> Atom("t1", "plain"),
                                          recordHash |-> Atom("h1", "plain"), salt |-> Atom(s, "plain")]) :
              c \in {0, 1}, o \in {Atom("w1", "plain"), Atom("w1", "other"), Atom("w2", "plain")}, s \in {"s1", "s2"}}
\* A field less in the type, and perhaps in the message.
Shorter == [EIP712Domain |-> Format!IntentTypes.EIP712Domain, LaunchIntent |-> SubSeq(Format!IntentTypes.LaunchIntent, 1, 3)]
Trimmed(m) == [operator |-> m.operator, token |-> m.token, recordHash |-> m.recordHash]
Less == {[i EXCEPT !.types = Shorter, !.message = m] : i \in Intents, m \in {j.message : j \in Intents} \cup {Trimmed(j.message) : j \in Intents}}
T == INSTANCE TypedData WITH Docs <- Atoms \cup Lists \cup Nested \cup Refusable \cup Intents \cup Less, signed <- v1, shown <- v2

-----------------------------------------------------------------------------
\* A base and a mark that NFC makes one of, breaks, spaces, what is not seen, and both halves of characters of two units.
U == INSTANCE TextPolicy WITH
  Units <- {101, 769, 32, 10, 13, 8232, 8203, 55357, 56832, 56128, 56321}, Composed <- (<<101, 769>> :> 233),
  Limits <- {3, 12}, Lengths <- {2, 3}, MaxTyped <- 4, text <- v1

-----------------------------------------------------------------------------
\* PAR may change between two blocks, twice; MaxFaults calls fail.
ParValues == [launchFee |-> {1, 2}, baseFeeBps |-> {30, 40}, protocolFeeShareBps |-> {10, 20}, maxCreatorTaxBps |-> {100, 500},
              code |-> BOOLEAN, quotePricer |-> BOOLEAN, vault |-> BOOLEAN, launchConfig |-> BOOLEAN, canLaunch |-> BOOLEAN,
              launchForwarder |-> BOOLEAN, supply |-> {1, 2}, curated |-> BOOLEAN, spot |-> {100, 101, 150}]
Par == [launchFee |-> 1, baseFeeBps |-> 30, protocolFeeShareBps |-> 10, maxCreatorTaxBps |-> 500, code |-> TRUE,
        quotePricer |-> TRUE, vault |-> TRUE, launchConfig |-> TRUE, canLaunch |-> TRUE, launchForwarder |-> TRUE,
        supply |-> 1, curated |-> FALSE, spot |-> 100]
Drafts == {[quotes |-> q, opening |-> x[1], tax |-> x[2], mode |-> x[3], recipient |-> x[4], slippage |-> 100, ack |-> x[5]] :
             q \in {<<"a", "b", "c">>, <<"a", "a">>, <<>>},
             x \in {<<0, 500, "holders", "other", FALSE>>, <<10000, 100, "creator", "other", TRUE>>,
                    <<10000, 100, "creator", "vault", TRUE>>, <<0, 300, "creator", "other", TRUE>>,
                    <<30000, 100, "burn", "other", TRUE>>}}
F == INSTANCE Preflight WITH Values <- ParValues, Healthy <- Par, MaxOpening <- 20000, Reached <- 3, MaxChanges <- 2,
                             par <- v1, before <- v2, kind <- v3, prepared <- v4, since <- v5, outcome <- v6,
                             changes <- v7, faults <- v8

-----------------------------------------------------------------------------
\* Two wallets, of which w1 is a contract, two tokens, three launches and two transactions that are not; proofs that mix
\* what belongs to different launches.
Terms == [meta |-> 1, tax |-> 0]
Meant(n) == [operator |-> w1, terms |-> Terms, recipient |-> w1, nonce |-> n]
Launch(from, to, n, token, k, ok) ==
  [from |-> from, to |-> to, salt |-> Meant(n), terms |-> Terms, recipient |-> w1, token |-> token, kind |-> k, ok |-> ok]
Txs == {Launch(w1, "factory", 1, t1, "multi", TRUE), Launch(w1, "router", 2, t2, "multi", TRUE),
        Launch(w1, "router", 1, t2, "multi", TRUE), Launch(w1, "factory", 1, t1, "multi", FALSE),
        Launch(w2, "factory", 1, t2, "single", TRUE)}
Signed(scheme, token, n, by) ==
  [scheme |-> scheme, says |-> [operator |-> w1, token |-> token, recordHash |-> Meant(n), salt |-> Meant(n)], by |-> by]
Signatures == {Signed("EIP-712", t1, 1, w1), Signed("personal_sign", t2, 2, w1), Signed("EIP-712", t1, 1, w2), Signed("EIP-712", t2, 1, w1)}
Proofs == {[token |-> t, deployer |-> w1, tx |-> x, intent |-> i, recordHash |-> h, salt |-> h, sig |-> g] :
             t \in {t1, t2}, x \in Txs, i \in {Meant(1), Meant(2)}, h \in {Meant(1), Meant(2)}, g \in Signatures}
Claims == {[token |-> t, operator |-> w, by |-> b, says |-> <<"claim", t, w>>] : t \in {t1, t2}, w \in {w1, w2}, b \in {w1, w2}}
Bare == [token |-> t1, proof |-> None, origin |-> FALSE, operatorProof |-> None, profile |-> FALSE]
E == INSTANCE Evidence WITH
  Wallets <- {w1, w2}, Contracts <- {w1}, Tokens <- {t1, t2},
  Inputs <- {[Bare EXCEPT !.proof = p] : p \in Proofs} \cup {[Bare EXCEPT !.operatorProof = c] : c \in Claims}
            \cup {Bare, [Bare EXCEPT !.origin = TRUE], [Bare EXCEPT !.profile = TRUE]},
  Expected <- {[token |-> t1, deployer |-> w1, terms |-> Terms, recipient |-> w1]},
  Attempts <- 2, MaxMoves <- MaxFaults, MaxFaults <- MaxFaults,
  mined <- v1, recipient <- v2, approved <- v3, job <- v4, ever <- v5, moves <- v6, faults <- v7

-----------------------------------------------------------------------------
Unused3 == v3 = <<>> /\ Unused4
Begin ==
  \/ Start /\ v8 = <<>>
  \/ part = "curve" /\ K!Init /\ v6 = <<>> /\ v7 = <<>> /\ v8 = <<>>
  \/ part = "abi" /\ A!Init /\ Unused3 /\ v8 = <<>>
  \/ part = "typed data" /\ T!Init /\ Unused3 /\ v8 = <<>>
  \/ part = "text" /\ U!Init /\ v2 = <<>> /\ Unused3 /\ v8 = <<>>
  \/ part = "preflight" /\ F!Init
  \/ part = "evidence" /\ E!Init /\ v8 = <<>>
Go ==
  \/ Step /\ UNCHANGED v8
  \/ part = "curve" /\ K!Next /\ UNCHANGED <<part, v6, v7, v8>>
  \/ part = "abi" /\ A!Decode /\ UNCHANGED <<part, v3, v4, v5, v6, v7, v8>>
  \/ part = "typed data" /\ T!Next /\ UNCHANGED <<part, v3, v4, v5, v6, v7, v8>>
  \/ part = "text" /\ U!Next /\ UNCHANGED <<part, v2, v3, v4, v5, v6, v7, v8>>
  \/ part = "preflight" /\ F!Next /\ UNCHANGED part
  \/ part = "evidence" /\ E!Next /\ UNCHANGED <<part, v8>>
LibrariesSpec == Begin /\ [][Go]_<<all, v8>>

\* Points are added as the curve adds them, a signature leads back to its signer, what is decoded is what was encoded, and
\* no text of an answer makes more than it has.
EncodingsAreExact == /\ part = "curve" => K!AddsPoints /\ K!SignerIsRecovered
                     /\ part = "abi" => A!DecodedAsEncoded /\ A!ReceivedIsBounded
\* What a page shows of typed data is what is signed; what is accepted or shown of a text is safe, and what is accepted is
\* shown.
ShownIsMeant == /\ part = "typed data" => T!ShownIsSigned
                /\ part = "text" => U!ShownIsSafe /\ U!AcceptedIsShown
\* What is sent is what was reviewed, and reverts for a reason only; a verdict of "built here" is of one launch, an operator
\* is one, and a verdict was read.
LaunchIsAsReviewed == /\ part = "preflight" => F!SentAsReviewed /\ F!RevertsForAReason
                      /\ part = "evidence" => E!BuiltIsOneLaunch /\ E!OperatorHolds /\ E!VerdictIsRead
=============================================================================

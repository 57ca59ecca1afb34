---- MODULE Curve ----
\* Signatures on y^2 = x^3 + 7 over the integers modulo P, with base point (GX, GY) of prime order N: how syncnet-core.js
\* recovers the account that signed, in Jacobian coordinates and with windows of digits, and how its signer signs.  The
\* code's constants are secp256k1's; a small curve with P % 4 = 3 and N < P has every case of the code.
EXTENDS Integers, Sequences, SequencesExt

CONSTANTS P, N, GX, GY,  \* a curve y^2 = x^3 + 7 as secp256k1 is one: P % 4 = 3, N < P, N <= Base^Digits
          Base,     \* 2 to the bits of a window: 16 in the code
          Digits,   \* windows of a scalar: 64 in the code
          Digests   \* not reduced modulo N

VARIABLES key, digest, nonce,  \* of the signer
          signature, account   \* what it signs, and the point that is recovered from it
vars == <<key, digest, nonce, signature, account>>

JINF == [X |-> 0, Y |-> 1, Z |-> 0]
modP(a) == a % P
modN(a) == a % N
HALF_N == N \div 2
Nothing == <<>>
NoRoot == -1

\* invert: s * a = r modulo m, for both pairs, at every turn.
invert(a, m) ==
  LET euclid[r0 \in 0..m, r1 \in 0..m, s0 \in Int, s1 \in Int] ==
        IF r1 = 0 THEN s0 ELSE euclid[r1, r0 % r1, s1, s0 - (r0 \div r1) * s1]
  IN euclid[m, a % m, 0, 1] % m
powMod(b, e, m) ==
  LET pow[x \in 0 .. m - 1, n \in Nat] == IF n = 0 THEN 1 ELSE ((IF n % 2 = 1 THEN x ELSE 1) * pow[(x * x) % m, n \div 2]) % m
  IN pow[b % m, e]
sqrtModP(a) == LET r == powMod(a, (P + 1) \div 4, P) IN IF modP(r * r) = modP(a) THEN r ELSE NoRoot

jDouble(p) ==
  LET A == modP(p.X * p.X)  B == modP(p.Y * p.Y)  C == modP(B * B)
      D == modP(2 * (modP((p.X + B) * (p.X + B)) - A - C))
      E == modP(3 * A)  X3 == modP(E * E - 2 * D)
  IN IF p.Z = 0 \/ p.Y = 0 THEN JINF ELSE [X |-> X3, Y |-> modP(E * (D - X3) - 8 * C), Z |-> modP(2 * p.Y * p.Z)]
jAdd(p, q) ==
  LET pz2 == modP(p.Z * p.Z)  qz2 == modP(q.Z * q.Z)
      u1 == modP(p.X * qz2)  u2 == modP(q.X * pz2)
      s1 == modP(p.Y * modP(q.Z * qz2))  s2 == modP(q.Y * modP(p.Z * pz2))
      h == modP(u2 - u1)  r == modP(s2 - s1)
      h2 == modP(h * h)  h3 == modP(h * h2)  u1h2 == modP(u1 * h2)
      X3 == modP(r * r - h3 - 2 * u1h2)
  IN IF p.Z = 0 THEN q ELSE IF q.Z = 0 THEN p
     ELSE IF u1 = u2 THEN IF s1 = s2 THEN jDouble(p) ELSE JINF
     ELSE [X |-> X3, Y |-> modP(r * (u1h2 - X3) - s1 * h3), Z |-> modP(h * modP(p.Z * q.Z))]
toAffine(p) ==
  LET zi == invert(p.Z, P)  zi2 == modP(zi * zi)
  IN IF p.Z = 0 THEN Nothing ELSE <<modP(p.X * zi2), modP(p.Y * modP(zi2 * zi))>>
\* table[i]: i times the point.
windowTable(x, y) ==
  LET point == [X |-> x, Y |-> y, Z |-> 1]
  IN FoldLeftDomain(LAMBDA t, i : Append(t, IF i = 1 THEN point ELSE jAdd(t[i - 1], point)), <<>>, [i \in 1 .. Base - 1 |-> i])
gTable == windowTable(GX, GY)
Digit(k, i) == (k \div Base^(Digits - i)) % Base
Doubled(p) == FoldLeft(LAMBDA q, i : jDouble(q), p, [i \in 1 .. (CHOOSE b \in 1..Base : 2^b = Base) |-> i])
\* The sum of the terms [table, k], with one chain of doublings.
multiScalarMul(terms) ==
  FoldLeft(LAMBDA acc, i :
             FoldLeft(LAMBDA sum, t : IF Digit(t.k, i) = 0 THEN sum ELSE jAdd(sum, t.table[Digit(t.k, i)]), Doubled(acc), terms),
           JINF, [i \in 1..Digits |-> i])

\* Mutation of Recid: the parity is that of the point, whatever became of s.
X_SameParity(y, s) == y % 2
Recid(y, s) == IF s > HALF_N THEN 1 - (y % 2) ELSE y % 2
\* sign with a nonce; Nothing where another nonce must be taken.
Attempt(d, e, k) ==
  LET R == toAffine(multiScalarMul(<<[table |-> gTable, k |-> k]>>))
      s == modN(invert(k, N) * (e + R[1] * d))
  IN IF R[1] >= N \/ R[1] = 0 \/ s = 0 THEN Nothing
     ELSE [r |-> R[1], s |-> IF s > HALF_N THEN N - s ELSE s, recid |-> Recid(R[2], s)]
\* parseSignature and recoverPoint.
Recover(e, sig) ==
  LET root == sqrtModP(modP(sig.r * sig.r * sig.r + 7))
      y == IF root % 2 # sig.recid THEN modP(P - root) ELSE root
      rInv == invert(sig.r, N)
  IN IF root = NoRoot THEN Nothing
     ELSE toAffine(multiScalarMul(<<[table |-> gTable, k |-> modN(-e * rInv)],
                                    [table |-> windowTable(sig.r, y), k |-> modN(sig.s * rInv)]>>))

Init == key \in 1 .. N - 1 /\ digest \in Digests /\ nonce \in 1 .. N - 1 /\ signature = Nothing /\ account = Nothing
Sign == /\ signature = Nothing /\ account = Nothing
        /\ signature' = Attempt(key, digest, nonce) /\ signature' # Nothing
        /\ UNCHANGED <<key, digest, nonce, account>>
\* A wallet may give the other of the two values of s: high s is accepted.
OtherHalf == /\ signature # Nothing /\ account = Nothing /\ signature.s <= HALF_N
             /\ signature' = [signature EXCEPT !.s = N - @, !.recid = 1 - @]
             /\ UNCHANGED <<key, digest, nonce, account>>
Receive == /\ signature # Nothing /\ account = Nothing
           /\ account' = Recover(digest, signature) /\ UNCHANGED <<key, digest, nonce, signature>>
Next == Sign \/ OtherHalf \/ Receive
Spec == Init /\ [][Next]_vars

\* -------------------------------------------------------------------------- properties
\* The group, by chords and tangents.
Reciprocal(a) == CHOOSE b \in 1 .. P - 1 : (a * b) % P = 1
Plus(p, q) ==
  LET slope == IF p = q THEN (3 * p[1] * p[1] * Reciprocal((2 * p[2]) % P)) % P
               ELSE ((q[2] - p[2]) * Reciprocal((q[1] - p[1]) % P)) % P
      x == (slope * slope - p[1] - q[1]) % P
  IN IF p = Nothing THEN q ELSE IF q = Nothing THEN p
     ELSE IF p[1] = q[1] /\ (p[2] + q[2]) % P = 0 THEN Nothing
     ELSE <<x, (slope * (p[1] - x) - p[2]) % P>>
Multiples == FoldLeft(LAMBDA m, i : Append(m, Plus(IF i = 1 THEN Nothing ELSE m[i - 1], <<GX, GY>>)), <<>>, [i \in 1..N |-> i])
\* jAdd adds as the group does, whatever the coordinates the two points are given in, also a point and itself or its
\* opposite (syncnet-core.js:746-772).
Scaled(p, z) == [X |-> modP(p[1] * z * z), Y |-> modP(modP(p[2] * z * z) * z), Z |-> z]
AddsPoints ==
  LET p == Multiples[key]  q == Multiples[nonce]
  IN signature = Nothing => toAffine(jAdd(Scaled(p, 1 + (digest % (P - 1))), Scaled(q, 3))) = Plus(p, q)
\* What is recovered from a signature is the key of the signer, for every key, digest and nonce and for both values of s
\* (syncnet-core.js:805-835, 877-901).
SignerIsRecovered == account # Nothing => account = Multiples[key]
====

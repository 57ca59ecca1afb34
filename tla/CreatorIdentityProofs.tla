------------------------ MODULE CreatorIdentityProofs ------------------------
(***************************************************************************)
(* Theorems about CreatorIdentity, for every set of manifests, wallets and  *)
(* invocations and all the durations that keep their order.  A rotation     *)
(* that has completed one that was due works with a reading of its own; the *)
(* invariant says why that does no harm: within the same time the current   *)
(* manifest stays, as the next change is due after its cooldown only.       *)
(***************************************************************************)
EXTENDS CreatorIdentity, TLAPS

Rotation == [start: Nat, eff: Nat, lockedAt: Nat, lockedUntil: Nat, lastBy: Wallets \cup {None}, lastAt: Nat]
Creator == [status: {"NONE", "ACTIVE", "ROTATION_PENDING"}, paused: BOOLEAN,
            current: Manifests \cup {None}, pending: Manifests \cup {None},
            rotation: Rotation, seen: SUBSET Nat]
Manifest == [status: {"NONE", "PENDING", "ACTIVE", "SUPERSEDED", "CANCELLED"}, version: Nat,
             prev: Manifests \cup {None}, made: Nat, eff: Nat, sup: Nat]
Intent == [status: {"NONE", "DRAFT", "CHECKED", "OPEN"}, m: Manifests \cup {None}, at: Nat, exp: Nat]
Call == [op: {"reload", "commit"}, m: Manifests, c: Creator]

Typed ==
  /\ clock \in Nat /\ clock >= 1 /\ link \in Nat /\ link <= clock
  /\ creator \in Creator
  /\ manifest \in [Manifests -> Manifest]
  /\ intent \in Intent
  /\ run \in [Slots -> {Idle} \cup Call]

InEffect(m) == manifest[m].status \in {"ACTIVE", "SUPERSEDED"}

\* A creator record: no status without a current manifest, and a pending one
\* exactly while it rotates.
WellFormed(c) ==
  /\ c.status = "NONE" <=> c.current = None
  /\ c.status = "ROTATION_PENDING" <=> c.pending # None

\* The pending manifest was made for the change that is pending.
PendingFollows ==
  creator.pending # None =>
    LET n == manifest[creator.pending]
    IN /\ n.prev = creator.current
       /\ n.version = manifest[creator.current].version + 1
       /\ n.made + Cooldown <= creator.rotation.eff

\* What took effect did so in the past.
EffectIsPast ==
  \A m \in Manifests : InEffect(m) =>
    /\ manifest[m].version >= 1 /\ manifest[m].eff <= clock
    /\ manifest[m].version > 1 => manifest[m].prev \in Manifests

\* What creator-manifest may rely on when it commits.
Knows(r) ==
  r # Idle =>
    /\ WellFormed(r.c)
    /\ r.c.current # None /\ r.c.current = creator.current
    /\ r.op = "reload" => ~Due(creator)

RunsKnow == \A s \in Slots : Knows(run[s])

\* A fan's window, from the draft on.
WindowFits ==
  intent.status # "NONE" =>
    /\ intent.m \in Manifests /\ InEffect(intent.m)
    /\ intent.exp <= clock + Window
    /\ manifest[intent.m].status = "SUPERSEDED" => intent.exp <= manifest[intent.m].sup
    /\ manifest[intent.m].status = "ACTIVE" /\ creator.pending # None => intent.exp <= creator.rotation.eff
    /\ intent.status = "OPEN" => intent.at >= manifest[intent.m].eff

\* The part of the invariant that does not speak of invocations.
Story == /\ WellFormed(creator) /\ OneStory /\ PendingFollows /\ EffectIsPast
         /\ WindowFits /\ CooldownHolds /\ LockOfReading

Inv == Typed /\ Story /\ RunsKnow

-----------------------------------------------------------------------------
(* A change that is due is completed.                                      *)

LEMMA CompletedTyped ==
  ASSUME NEW c \in Creator
  PROVE  /\ Completed(c) \in Creator
         /\ Completed(c).status = "ACTIVE" /\ Completed(c).current = c.pending /\ Completed(c).pending = None
         /\ Completed(c).rotation = c.rotation /\ Completed(c).seen = c.seen
BY DEF Completed, Creator

\* Both manifests of a change that is due, and what becomes of them.
LEMMA DueFacts ==
  ASSUME Typed, Story, Due(creator)
  PROVE  LET p == creator.current
             n == creator.pending
         IN /\ p \in Manifests /\ n \in Manifests /\ p # n
            /\ manifest[p].status = "ACTIVE" /\ manifest[n].status = "PENDING"
            /\ creator.rotation.eff \in Nat
            /\ Superseded(creator) \in [Manifests -> Manifest]
            /\ Superseded(creator)[p] = [manifest[p] EXCEPT !.status = "SUPERSEDED", !.sup = creator.rotation.eff]
            /\ Superseded(creator)[n] = [manifest[n] EXCEPT !.status = "ACTIVE", !.eff = creator.rotation.eff]
            /\ \A m \in Manifests : m # p /\ m # n => Superseded(creator)[m] = manifest[m]
<1> DEFINE p == creator.current
           n == creator.pending
           e == creator.rotation.eff
<1>1. creator.status = "ROTATION_PENDING" /\ n # None /\ p # None
  BY DEF Due, Story, WellFormed, Typed, Creator
<1>2. p \in Manifests /\ n \in Manifests /\ e \in Nat
  BY <1>1 DEF Typed, Creator, Rotation
<1>3. manifest[p].status = "ACTIVE" /\ manifest[n].status = "PENDING"
  BY <1>1, <1>2 DEF Story, OneStory
<1>4. manifest[p] \in Manifest /\ manifest[n] \in Manifest
  BY <1>2 DEF Typed
<1> DEFINE ps == [manifest[p] EXCEPT !.status = "SUPERSEDED", !.sup = e]
           ns == [manifest[n] EXCEPT !.status = "ACTIVE", !.eff = e]
<1>5. ps \in Manifest /\ ns \in Manifest
  BY <1>2, <1>4 DEF Manifest
<1>6. p # n
  BY <1>3
<1>7. Superseded(creator) = [[manifest EXCEPT ![p] = ps] EXCEPT ![n] = ns]
  BY <1>2, <1>6 DEF Superseded, Typed
<1> QED  BY <1>2, <1>3, <1>5, <1>6, <1>7 DEF Typed

LEMMA CompleteStory ==
  ASSUME Typed, Story, Due(creator), creator' = Completed(creator), manifest' = Superseded(creator),
         UNCHANGED <<clock, link, intent>>
  PROVE  creator' \in Creator /\ manifest' \in [Manifests -> Manifest] /\ Story'
<1>0. PICK p, n, e, d : p = creator.current /\ n = creator.pending /\ e = creator.rotation.eff /\ d = manifest[n]
  OBVIOUS
<1>1. /\ p \in Manifests /\ n \in Manifests /\ p # n /\ e \in Nat /\ clock \in Nat /\ e <= clock
      /\ manifest[p].status = "ACTIVE" /\ manifest[n].status = "PENDING"
      /\ manifest[p] \in Manifest /\ manifest[n] \in Manifest
  BY <1>0, DueFacts DEF Typed, Due
<1>2. manifest' \in [Manifests -> Manifest]
  BY DueFacts
<1>3. /\ manifest'[p].status = "SUPERSEDED" /\ manifest'[p].sup = e
      /\ manifest'[p].prev = manifest[p].prev /\ manifest'[p].eff = manifest[p].eff
      /\ manifest'[p].version = manifest[p].version /\ manifest'[p].made = manifest[p].made
  BY <1>0, <1>1, DueFacts DEF Manifest
<1>4. /\ manifest'[n].status = "ACTIVE" /\ manifest'[n].eff = e
      /\ manifest'[n].prev = manifest[n].prev /\ manifest'[n].made = manifest[n].made
      /\ manifest'[n].version = manifest[n].version
  BY <1>0, <1>1, DueFacts DEF Manifest
<1>5. \A m \in Manifests : m # p /\ m # n => manifest'[m] = manifest[m]
  BY <1>0, DueFacts
<1>6. /\ creator' \in Creator /\ creator'.status = "ACTIVE" /\ creator'.current = n /\ creator'.pending = None
  BY <1>0, CompletedTyped DEF Typed
<1>7. /\ manifest[n].prev = p /\ manifest[n].version = manifest[p].version + 1
      /\ manifest[n].made + Cooldown <= e /\ manifest[p].version \in Nat /\ manifest[p].version >= 1
  BY <1>0, <1>1, IdentityConstants DEF Story, PendingFollows, EffectIsPast, InEffect, Manifest
<1>8. WellFormed(creator)'
  BY <1>1, <1>6, IdentityConstants DEF WellFormed
<1>9. OneStory'
  <2>1. {m \in Manifests : manifest'[m].status = "ACTIVE"} = {n}
    <3>1. \A m \in Manifests : manifest[m].status = "ACTIVE" => m = p
      BY <1>0 DEF Story, OneStory
    <3> QED  BY <1>1, <1>3, <1>4, <1>5, <3>1
  <2>2. ASSUME NEW m \in Manifests, manifest'[m].status \in {"ACTIVE", "SUPERSEDED"}, manifest'[m].version > 1
        PROVE  LET q == manifest'[m].prev
               IN manifest'[q].status = "SUPERSEDED" /\ manifest'[q].sup = manifest'[m].eff
                  /\ manifest'[q].version + 1 = manifest'[m].version
    <3>1. CASE m = n
      BY <3>1, <1>3, <1>4, <1>7
    <3>2. CASE m # n
      <4>1. /\ manifest[m].status \in {"ACTIVE", "SUPERSEDED"} /\ manifest[m].version > 1
            /\ manifest'[m].prev = manifest[m].prev /\ manifest'[m].eff = manifest[m].eff
            /\ manifest'[m].version = manifest[m].version
        BY <2>2, <3>2, <1>1, <1>3, <1>5
      <4>2. PICK q : q = manifest[m].prev
        OBVIOUS
      <4>3. /\ manifest[q].status = "SUPERSEDED" /\ manifest[q].sup = manifest[m].eff
            /\ manifest[q].version + 1 = manifest[m].version
        BY <4>1, <4>2 DEF Story, OneStory
      <4>4. q \in Manifests /\ q # p /\ q # n
        BY <4>1, <4>2, <4>3, <1>1 DEF Story, EffectIsPast, InEffect
      <4> QED  BY <4>1, <4>2, <4>3, <4>4, <1>5
    <3> QED  BY <3>1, <3>2
  <2> QED  BY <1>6, <2>1, <2>2, IdentityConstants DEF OneStory
<1>10. PendingFollows'
  BY <1>6 DEF PendingFollows
<1>11. ASSUME NEW m \in Manifests, InEffect(m)'
       PROVE  /\ m # n => InEffect(m) /\ manifest'[m].version = manifest[m].version
                          /\ manifest'[m].eff = manifest[m].eff /\ manifest'[m].made = manifest[m].made
                          /\ manifest'[m].prev = manifest[m].prev
  <2>1. CASE m = p
    BY <2>1, <1>1, <1>3 DEF InEffect
  <2>2. CASE m # p
    BY <2>2, <1>5, <1>11 DEF InEffect
  <2> QED  BY <2>1, <2>2
<1>12. EffectIsPast'
  <2> SUFFICES ASSUME NEW m \in Manifests, InEffect(m)'
               PROVE  /\ manifest'[m].version >= 1 /\ manifest'[m].eff <= clock'
                      /\ manifest'[m].version > 1 => manifest'[m].prev \in Manifests
    BY DEF EffectIsPast
  <2>1. CASE m = n
    BY <2>1, <1>1, <1>4, <1>7
  <2>2. CASE m # n
    BY <2>2, <1>11 DEF Story, EffectIsPast
  <2> QED  BY <2>1, <2>2
<1>13. CooldownHolds'
  <2> SUFFICES ASSUME NEW m \in Manifests, InEffect(m)', manifest'[m].version > 1
               PROVE  manifest'[m].eff >= manifest'[m].made + Cooldown /\ manifest'[m].eff <= clock'
    BY DEF CooldownHolds, InEffect
  <2>1. CASE m = n
    <3>1. manifest'[n].made \in Nat /\ Cooldown \in Nat
      BY <1>1, <1>4, IdentityConstants DEF Manifest
    <3> QED  BY <2>1, <1>1, <1>4, <1>7, <3>1
  <2>2. CASE m # n
    BY <2>2, <1>11 DEF Story, CooldownHolds, InEffect
  <2> QED  BY <2>1, <2>2
<1>14. LockOfReading'
  BY <1>6 DEF LockOfReading
<1>15. WindowFits'
  <2> SUFFICES ASSUME intent.status # "NONE" PROVE WindowFits'
    BY DEF WindowFits
  <2> DEFINE m == intent.m
  <2>1. /\ m \in Manifests /\ InEffect(m) /\ intent.exp <= clock + Window
        /\ manifest[m].status = "SUPERSEDED" => intent.exp <= manifest[m].sup
        /\ manifest[m].status = "ACTIVE" => intent.exp <= e
        /\ intent.status = "OPEN" => intent.at >= manifest[m].eff
    BY <1>0, <1>1, IdentityConstants DEF Story, WindowFits
  <2>2. CASE m = p
    BY <2>1, <2>2, <1>1, <1>3 DEF WindowFits, InEffect
  <2>3. CASE m # p
    <3>1. manifest'[m] = manifest[m]
      BY <2>1, <2>3, <1>1, <1>5 DEF InEffect
    <3>2. manifest[m].status # "ACTIVE"
      BY <1>0, <2>1, <2>3 DEF Story, OneStory
    <3> QED  BY <2>1, <3>1, <3>2, <1>6 DEF WindowFits, InEffect
  <2> QED  BY <2>2, <2>3
<1> QED  BY <1>2, <1>6, <1>8, <1>9, <1>10, <1>12, <1>13, <1>14, <1>15 DEF Story

-----------------------------------------------------------------------------
(* The other writes of the creator.                                        *)

\* A write of the creator that leaves the manifests and every date alone.
LEMMA SameStory ==
  ASSUME Typed, Story, creator' \in Creator, WellFormed(creator)',
         creator'.current = creator.current,
         creator'.pending \in {creator.pending, None},
         creator'.pending # None => creator'.rotation = creator.rotation /\ creator.seen \subseteq creator'.seen,
         UNCHANGED <<clock, manifest, link, intent>>
  PROVE  Story'
<1>1. creator'.pending # None => creator'.pending = creator.pending
  OBVIOUS
<1>2. OneStory'
  BY <1>1 DEF Story, OneStory, WellFormed
<1>3. PendingFollows' /\ EffectIsPast' /\ CooldownHolds'
  BY <1>1 DEF Story, PendingFollows, EffectIsPast, InEffect, CooldownHolds
<1>4. LockOfReading'
  BY <1>1 DEF Story, LockOfReading, WellFormed
<1>5. WindowFits'
  BY <1>1 DEF Story, WindowFits, InEffect
<1> QED  BY <1>2, <1>3, <1>4, <1>5 DEF Story

LEMMA JoinStory ==
  ASSUME Typed, Story, NEW m \in Manifests, Join(m)
  PROVE  creator' \in Creator /\ manifest' \in [Manifests -> Manifest] /\ Story'
<1> DEFINE new == [NoManifest EXCEPT !.status = "ACTIVE", !.version = 1, !.made = clock, !.eff = clock]
<1>1. /\ new \in Manifest /\ new.status = "ACTIVE" /\ new.version = 1 /\ new.eff = clock
  BY DEF NoManifest, Manifest, Typed
<1>2. /\ manifest' \in [Manifests -> Manifest] /\ manifest'[m] = new
      /\ \A k \in Manifests : k # m => manifest'[k] = manifest[k]
  BY <1>1 DEF Join, Typed
<1>3. /\ creator' = [NoCreator EXCEPT !.status = "ACTIVE", !.current = m, !.seen = {link}]
      /\ NoCreator.rotation \in Rotation
  BY DEF Join, NoCreator, NoRotation, Rotation
<1>4. creator' \in Creator /\ creator'.status = "ACTIVE" /\ creator'.current = m /\ creator'.pending = None
  BY <1>3 DEF NoCreator, Creator, Typed
<1>5. creator.current = None /\ manifest[m].status = "NONE" /\ m # None /\ clock' = clock /\ intent' = intent
  BY IdentityConstants DEF Join, Story, WellFormed
<1>6. \A k \in Manifests : manifest[k].status # "ACTIVE"
  BY <1>5 DEF Story, OneStory
<1> HIDE DEF new
<1>7. WellFormed(creator)' /\ PendingFollows' /\ LockOfReading'
  BY <1>4, <1>5 DEF WellFormed, PendingFollows, LockOfReading
<1>8. OneStory'
  <2>1. {k \in Manifests : manifest'[k].status = "ACTIVE"} = {m}
    BY <1>1, <1>2, <1>6
  <2>2. ASSUME NEW k \in Manifests, manifest'[k].status \in {"ACTIVE", "SUPERSEDED"}, manifest'[k].version > 1
        PROVE  LET q == manifest'[k].prev
               IN manifest'[q].status = "SUPERSEDED" /\ manifest'[q].sup = manifest'[k].eff
                  /\ manifest'[q].version + 1 = manifest'[k].version
    <3>1. k # m /\ manifest'[k] = manifest[k]
      BY <2>2, <1>1, <1>2
    <3>2. PICK q : q = manifest[k].prev
      OBVIOUS
    <3>3. /\ manifest[q].status = "SUPERSEDED" /\ manifest[q].sup = manifest[k].eff
          /\ manifest[q].version + 1 = manifest[k].version /\ q \in Manifests
      BY <2>2, <3>1, <3>2 DEF Story, OneStory, EffectIsPast, InEffect
    <3>4. q # m
      BY <3>3, <1>5
    <3> QED  BY <3>1, <3>2, <3>3, <3>4, <1>2
  <2> QED  BY <1>4, <1>5, <2>1, <2>2 DEF OneStory
<1>9. EffectIsPast' /\ CooldownHolds'
  <2>1. \A k \in Manifests : k # m /\ InEffect(k)' => InEffect(k) /\ manifest'[k] = manifest[k]
    BY <1>2 DEF InEffect
  <2>2. clock \in Nat
    BY DEF Typed
  <2> QED  BY <1>1, <1>2, <1>5, <2>1, <2>2 DEF Story, EffectIsPast, CooldownHolds, InEffect
<1>10. WindowFits'
  <2>1. intent.status # "NONE" => intent.m # m
    BY <1>5 DEF Story, WindowFits, InEffect
  <2> QED  BY <1>2, <1>4, <1>5, <2>1 DEF Story, WindowFits, InEffect
<1> QED  BY <1>2, <1>4, <1>7, <1>8, <1>9, <1>10 DEF Story

\* A change begins.
LEMMA BeginsStory ==
  ASSUME Typed, Story, NEW m \in Manifests, manifest[m].status = "NONE", NEW c \in Creator,
         WellFormed(c), c.current # None, c.current = creator.current,
         c.rotation.lockedUntil > clock => TwoSignIns(c),
         creator' = [c EXCEPT !.status = "ROTATION_PENDING", !.pending = m, !.seen = @ \cup {link},
                              !.rotation.start = clock, !.rotation.eff = clock + Cooldown],
         manifest' = [manifest EXCEPT ![m] =
                        [NoManifest EXCEPT !.status = "PENDING", !.made = clock, !.prev = c.current,
                           !.version = manifest[c.current].version + 1, !.eff = clock + Cooldown]],
         UNCHANGED <<clock, link, intent>>
  PROVE  creator' \in Creator /\ manifest' \in [Manifests -> Manifest] /\ Story'
<1>0. clock \in Nat /\ Cooldown \in Nat /\ Window \in Nat /\ clock + Cooldown \in Nat /\ link \in Nat /\ link <= clock
  BY IdentityConstants DEF Typed
<1>1. c.current \in Manifests /\ c.rotation \in Rotation /\ c.seen \subseteq Nat
  BY DEF Creator
<1>2. manifest[c.current] \in Manifest /\ manifest[c.current].version + 1 \in Nat
  BY <1>1 DEF Typed, Manifest
<1> DEFINE new == [NoManifest EXCEPT !.status = "PENDING", !.made = clock, !.prev = c.current,
                     !.version = manifest[c.current].version + 1, !.eff = clock + Cooldown]
           rot == [c.rotation EXCEPT !.start = clock, !.eff = clock + Cooldown]
<1>3. /\ new \in Manifest /\ new.status = "PENDING" /\ new.made = clock /\ new.prev = c.current
      /\ new.version = manifest[c.current].version + 1
  BY <1>0, <1>1, <1>2 DEF NoManifest, Manifest
<1>4. /\ rot \in Rotation /\ rot.start = clock /\ rot.eff = clock + Cooldown
      /\ rot.lockedUntil = c.rotation.lockedUntil /\ rot.lockedAt = c.rotation.lockedAt
  BY <1>0, <1>1 DEF Rotation
<1>5. creator' = [c EXCEPT !.status = "ROTATION_PENDING", !.pending = m, !.seen = @ \cup {link}, !.rotation = rot]
  BY DEF Creator
<1> HIDE DEF rot
<1>6. /\ creator' \in Creator /\ creator'.status = "ROTATION_PENDING" /\ creator'.pending = m
      /\ creator'.current = c.current /\ creator'.rotation = rot /\ creator'.seen = c.seen \cup {link}
  <2>1. c.seen \cup {link} \in SUBSET Nat
    BY <1>0, <1>1
  <2>2. rot \in Rotation
    BY <1>4
  <2> QED  BY <1>5, <2>1, <2>2 DEF Creator
<1>7. /\ manifest' \in [Manifests -> Manifest] /\ manifest'[m] = new
      /\ \A k \in Manifests : k # m => manifest'[k] = manifest[k]
  BY <1>3 DEF Typed
<1> HIDE DEF new
<1>8. m # None /\ c.current # m
  <2>1. manifest[c.current].status = "ACTIVE"
    BY <1>1, IdentityConstants DEF Story, OneStory
  <2> QED  BY <2>1, IdentityConstants
<1>9. WellFormed(creator)'
  BY <1>6, <1>8 DEF WellFormed
<1>10. \A k \in Manifests : manifest'[k].status \in {"ACTIVE", "SUPERSEDED"} => k # m /\ manifest'[k] = manifest[k]
  BY <1>3, <1>7
<1>11. OneStory'
  <2>1. {k \in Manifests : manifest'[k].status = "ACTIVE"} = {k \in Manifests : manifest[k].status = "ACTIVE"}
    BY <1>3, <1>7
  <2>2. ASSUME NEW k \in Manifests, manifest'[k].status \in {"ACTIVE", "SUPERSEDED"}, manifest'[k].version > 1
        PROVE  LET q == manifest'[k].prev
               IN manifest'[q].status = "SUPERSEDED" /\ manifest'[q].sup = manifest'[k].eff
                  /\ manifest'[q].version + 1 = manifest'[k].version
    <3>1. manifest'[k] = manifest[k]
      BY <2>2, <1>10
    <3>2. PICK q : q = manifest[k].prev
      OBVIOUS
    <3>3. /\ manifest[q].status = "SUPERSEDED" /\ manifest[q].sup = manifest[k].eff
          /\ manifest[q].version + 1 = manifest[k].version /\ q \in Manifests
      BY <2>2, <3>1, <3>2 DEF Story, OneStory, EffectIsPast, InEffect
    <3>4. q # m
      BY <3>3
    <3> QED  BY <3>1, <3>2, <3>3, <3>4, <1>7
  <2>3. manifest'[m].status = "PENDING"
    BY <1>3, <1>7
  <2> QED  BY <1>6, <1>8, <2>1, <2>2, <2>3 DEF Story, OneStory
<1>12. PendingFollows'
  BY <1>0, <1>1, <1>3, <1>4, <1>6, <1>7, <1>8 DEF PendingFollows
<1>13. EffectIsPast' /\ CooldownHolds'
  BY <1>10 DEF Story, EffectIsPast, CooldownHolds, InEffect
<1>14. LockOfReading'
  <2> SUFFICES ASSUME clock < c.rotation.lockedUntil
               PROVE  \E x, y \in creator'.seen : x > rot.lockedAt /\ y - x >= Apart /\ y <= rot.start
    BY <1>4, <1>6 DEF LockOfReading
  <2>1. TwoSignIns(c)
    BY <1>0, <1>1 DEF Rotation
  <2>2. PICK x \in c.seen \cup {link} : x > c.rotation.lockedAt /\ link - x >= Apart
    BY <2>1 DEF TwoSignIns
  <2> QED  BY <2>2, <1>0, <1>4, <1>6
<1>15. WindowFits'
  <2> SUFFICES ASSUME intent.status # "NONE" PROVE WindowFits'
    BY DEF WindowFits
  <2>1. intent.m \in Manifests /\ InEffect(intent.m) /\ intent.exp <= clock + Window /\ intent.exp \in Nat
    BY DEF Story, WindowFits, Typed, Intent
  <2>2. manifest'[intent.m] = manifest[intent.m]
    BY <2>1, <1>7 DEF InEffect
  <2>3. intent.exp <= rot.eff
    BY <2>1, <1>0, <1>4, IdentityConstants
  <2> QED  BY <2>1, <2>2, <2>3, <1>6 DEF Story, WindowFits, InEffect
<1> QED  BY <1>6, <1>7, <1>9, <1>11, <1>12, <1>13, <1>14, <1>15 DEF Story

LEMMA CancelStory ==
  ASSUME Typed, Story, NEW w \in BOOLEAN, Cancel(w)
  PROVE  creator' \in Creator /\ manifest' \in [Manifests -> Manifest] /\ Story'
<1> DEFINE r == creator.rotation
           n == creator.pending
           by == WalletOf[creator.current]
           locked == [r EXCEPT !.lockedUntil = clock + Lock, !.lockedAt = clock, !.lastBy = by, !.lastAt = clock]
<1>1. /\ creator \in Creator /\ r \in Rotation /\ n \in Manifests /\ creator.current \in Manifests
      /\ manifest[n].status = "PENDING" /\ manifest[n] \in Manifest /\ n # None
  BY DEF Typed, Creator, Cancel, Story, WellFormed, OneStory
<1>2. locked \in Rotation
  <2>1. clock \in Nat /\ clock + Lock \in Nat /\ by \in Wallets \cup {None}
    BY <1>1, IdentityConstants DEF Typed
  <2> QED  BY <1>1, <2>1 DEF Rotation
<1>3. creator' \in Creator /\ creator'.pending = None /\ creator'.status = "ACTIVE"
      /\ creator'.current = creator.current
  BY <1>1, <1>2 DEF Cancel, Creator
<1>4. /\ manifest' = [manifest EXCEPT ![n] = [manifest[n] EXCEPT !.status = "CANCELLED"]]
      /\ [manifest[n] EXCEPT !.status = "CANCELLED"] \in Manifest
      /\ clock' = clock /\ intent' = intent
  BY <1>1 DEF Cancel, Manifest
<1>5. /\ manifest' \in [Manifests -> Manifest] /\ manifest'[n].status = "CANCELLED"
      /\ \A k \in Manifests : k # n => manifest'[k] = manifest[k]
  BY <1>1, <1>4 DEF Typed, Manifest
<1>6. WellFormed(creator)' /\ PendingFollows' /\ LockOfReading'
  BY <1>1, <1>3, IdentityConstants DEF WellFormed, PendingFollows, LockOfReading
<1>7. \A k \in Manifests : manifest'[k].status \in {"ACTIVE", "SUPERSEDED"} => k # n /\ manifest'[k] = manifest[k]
  BY <1>5
<1>8. OneStory'
  <2>1. {k \in Manifests : manifest'[k].status = "ACTIVE"} = {k \in Manifests : manifest[k].status = "ACTIVE"}
    BY <1>1, <1>5
  <2>2. ASSUME NEW k \in Manifests, manifest'[k].status \in {"ACTIVE", "SUPERSEDED"}, manifest'[k].version > 1
        PROVE  LET q == manifest'[k].prev
               IN manifest'[q].status = "SUPERSEDED" /\ manifest'[q].sup = manifest'[k].eff
                  /\ manifest'[q].version + 1 = manifest'[k].version
    <3>1. manifest'[k] = manifest[k]
      BY <2>2, <1>7
    <3>2. PICK q : q = manifest[k].prev
      OBVIOUS
    <3>3. /\ manifest[q].status = "SUPERSEDED" /\ manifest[q].sup = manifest[k].eff
          /\ manifest[q].version + 1 = manifest[k].version /\ q \in Manifests
      BY <2>2, <3>1, <3>2 DEF Story, OneStory, EffectIsPast, InEffect
    <3>4. q # n
      BY <3>3, <1>1
    <3> QED  BY <3>1, <3>2, <3>3, <3>4, <1>5
  <2> QED  BY <1>3, <2>1, <2>2 DEF Story, OneStory
<1>9. EffectIsPast' /\ CooldownHolds'
  BY <1>4, <1>7 DEF Story, EffectIsPast, CooldownHolds, InEffect
<1>10. WindowFits'
  <2>1. intent.status # "NONE" => intent.m # n /\ intent.m \in Manifests
    BY <1>1 DEF Story, WindowFits, InEffect
  <2> QED  BY <1>3, <1>4, <1>5, <2>1 DEF Story, WindowFits, InEffect
<1> QED  BY <1>3, <1>5, <1>6, <1>8, <1>9, <1>10 DEF Story

-----------------------------------------------------------------------------
(* The invocations of creator-manifest.                                    *)

LEMMA EndsTyped ==
  ASSUME NEW r \in {Idle} \cup Call
  PROVE  Ends(r) \in {Idle} \cup Call /\ (Ends(r) # Idle => Ends(r) = r /\ r.op = "reload")
BY DEF Ends, Call, Idle

\* A write of the creator that keeps the current manifest and makes nothing due.
LEMMA RunsOutlast ==
  ASSUME Typed, RunsKnow, NEW s \in Slots,
         run'[s] = Ends(run[s]),
         run[s].op = "reload" => creator'.current = creator.current /\ ~Due(creator)'
  PROVE  Knows(run[s])' /\ run'[s] \in {Idle} \cup Call
<1>0. PICK r : r = run[s]
  OBVIOUS
<1>1. r \in {Idle} \cup Call /\ run'[s] = Ends(r)
  BY <1>0 DEF Typed
<1>2. Ends(r) # Idle => Ends(r) = r /\ r.op = "reload"
  BY <1>1, EndsTyped
<1>3. r # Idle => /\ WellFormed(r.c) /\ r.c.current # None /\ r.c.current = creator.current
  BY <1>0 DEF RunsKnow, Knows
<1>4. run'[s] # Idle => /\ run'[s] = r /\ r # Idle /\ creator'.current = creator.current /\ ~Due(creator)'
  BY <1>0, <1>1, <1>2 DEF Idle
<1>5. Knows(run[s])'
  BY <1>3, <1>4 DEF Knows, WellFormed
<1> QED  BY <1>1, <1>5, EndsTyped

-----------------------------------------------------------------------------
(* Every step keeps the invariant.                                         *)

LEMMA TickKeeps == ASSUME Inv, Tick PROVE Inv'
<1>1. clock \in Nat /\ clock >= 1 /\ clock' = clock + 1 /\ link \in Nat /\ link <= clock /\ Window \in Nat
  BY IdentityConstants DEF Inv, Typed, Tick
<1>2. creator' = creator /\ manifest' = manifest /\ intent' = intent /\ link' = link
      /\ run' = [s \in Slots |-> Idle]
  BY DEF Tick
<1>3. Typed'
  BY <1>1, <1>2 DEF Inv, Typed
<1>4. RunsKnow'
  BY <1>2 DEF RunsKnow, Knows
<1>5. \A m \in Manifests : manifest[m].eff \in Nat
  BY DEF Inv, Typed, Manifest
<1>6. EffectIsPast' /\ CooldownHolds'
  BY <1>1, <1>2, <1>5 DEF Inv, Story, EffectIsPast, CooldownHolds, InEffect
<1>7. WindowFits'
  <2>1. intent.exp \in Nat
    BY DEF Inv, Typed, Intent
  <2> QED  BY <1>1, <1>2, <2>1 DEF Inv, Story, WindowFits, InEffect
<1>8. WellFormed(creator)' /\ OneStory' /\ PendingFollows' /\ LockOfReading'
  BY <1>2 DEF Inv, Story, WellFormed, OneStory, PendingFollows, LockOfReading
<1> QED  BY <1>3, <1>4, <1>6, <1>7, <1>8 DEF Inv, Story

LEMMA SignInKeeps == ASSUME Inv, SignIn PROVE Inv'
<1>1. UNCHANGED <<clock, creator, manifest, intent, run>> /\ link' = clock
  BY DEF SignIn
<1>2. Typed'
  BY <1>1 DEF Inv, Typed
<1>3. RunsKnow'
  BY <1>1 DEF Inv, RunsKnow, Knows, WellFormed, Due
<1>4. Story'
  BY <1>1 DEF Inv, Story, WellFormed, OneStory, PendingFollows, EffectIsPast, WindowFits, CooldownHolds,
              LockOfReading, InEffect
<1> QED  BY <1>2, <1>3, <1>4 DEF Inv

\* What is left of the typing when the story is told.
LEMMA WriteKeeps ==
  ASSUME Inv, creator' \in Creator, manifest' \in [Manifests -> Manifest], Story',
         UNCHANGED <<clock, link, intent>>,
         run' \in [Slots -> {Idle} \cup Call], \A s \in Slots : Knows(run[s])'
  PROVE  Inv'
BY DEF Inv, Typed, RunsKnow

\* A write that ends the other invocations.
LEMMA EndsAllKeeps ==
  ASSUME Inv, EndsAll,
         \A s \in Slots : run[s].op = "reload" => creator'.current = creator.current /\ ~Due(creator)'
  PROVE  run' \in [Slots -> {Idle} \cup Call] /\ \A s \in Slots : Knows(run[s])'
<1>1. \A s \in Slots : Knows(run[s])' /\ run'[s] \in {Idle} \cup Call
  BY RunsOutlast DEF Inv, EndsAll
<1> QED  BY <1>1 DEF EndsAll

LEMMA CompleteKeeps == ASSUME Inv, Complete PROVE Inv'
<1>1. creator' \in Creator /\ manifest' \in [Manifests -> Manifest] /\ Story'
  BY CompleteStory DEF Inv, Complete
<1>2. \A s \in Slots : run[s].op # "reload"
  <2>1. \A s \in Slots : run[s] # Idle /\ run[s].op = "reload" => ~Due(creator)
    BY DEF Inv, RunsKnow, Knows
  <2> QED  BY <2>1 DEF Complete, Idle
<1> QED  BY <1>1, <1>2, EndsAllKeeps, WriteKeeps DEF Complete

LEMMA JoinKeeps == ASSUME Inv, NEW m \in Manifests, Join(m) PROVE Inv'
<1>1. creator' \in Creator /\ manifest' \in [Manifests -> Manifest] /\ Story'
  BY JoinStory DEF Inv
<1>2. \A s \in Slots : run[s].op # "reload"
  <2>1. \A s \in Slots : run[s] = Idle
    BY DEF Inv, RunsKnow, Knows, Story, WellFormed, Join
  <2> QED  BY <2>1 DEF Idle
<1> QED  BY <1>1, <1>2, EndsAllKeeps, WriteKeeps DEF Join

\* What a waiting invocation knows of a creator that is not due.
LEMMA ReloadKnows ==
  ASSUME Inv, NEW s \in Slots, run[s].op = "reload"
  PROVE  ~Due(creator)
<1>1. run[s] # Idle
  BY DEF Idle
<1> QED  BY <1>1 DEF Inv, RunsKnow, Knows

LEMMA PauseKeeps == ASSUME Inv, NEW p \in BOOLEAN, Pause(p) PROVE Inv'
<1>1. /\ creator' \in Creator /\ creator'.status = creator.status /\ creator'.current = creator.current
      /\ creator'.pending = creator.pending /\ creator'.rotation = creator.rotation
      /\ creator'.seen = creator.seen
  BY DEF Pause, Inv, Typed, Creator
<1>2. WellFormed(creator)'
  BY <1>1 DEF Inv, Story, WellFormed
<1>3. Story'
  BY <1>1, <1>2, SameStory DEF Inv, Pause
<1>4. \A s \in Slots : run[s].op = "reload" => creator'.current = creator.current /\ ~Due(creator)'
  BY <1>1, ReloadKnows DEF Due, Pause
<1>5. manifest' \in [Manifests -> Manifest]
  BY DEF Pause, Inv, Typed
<1> QED  BY <1>1, <1>3, <1>4, <1>5, EndsAllKeeps, WriteKeeps DEF Pause

LEMMA CancelKeeps == ASSUME Inv, NEW w \in BOOLEAN, Cancel(w) PROVE Inv'
<1>1. creator' \in Creator /\ manifest' \in [Manifests -> Manifest] /\ Story'
  BY CancelStory DEF Inv
<1>2. creator'.status = "ACTIVE" /\ creator'.current = creator.current
  <2>1. creator \in Creator
    BY DEF Inv, Typed
  <2>2. creator' = [[creator EXCEPT !.status = "ACTIVE", !.pending = None] EXCEPT !.rotation = creator'.rotation]
    BY <2>1 DEF Cancel, Creator
  <2> QED  BY <2>1, <2>2 DEF Creator
<1>3. \A s \in Slots : run[s].op = "reload" => creator'.current = creator.current /\ ~Due(creator)'
  BY <1>2 DEF Due
<1> QED  BY <1>1, <1>3, EndsAllKeeps, WriteKeeps DEF Cancel

LEMMA RotateReadsKeeps == ASSUME Inv, NEW s \in Slots, NEW m \in Manifests, RotateReads(s, m) PROVE Inv'
<1>1. UNCHANGED <<clock, link, intent>> /\ creator \in Creator /\ manifest \in [Manifests -> Manifest]
  BY DEF RotateReads, Inv, Typed
<1>2. WellFormed(creator) /\ creator.current # None
  BY DEF RotateReads, Inv, Story, WellFormed
<1>3. CASE Due(creator)
  <2> DEFINE r == [op |-> "reload", m |-> m, c |-> Completed(creator)]
  <2>1. creator' = Completed(creator) /\ manifest' = Superseded(creator)
        /\ run' = [q \in Slots |-> IF q = s THEN r ELSE Ends(run[q])]
    BY <1>3 DEF RotateReads
  <2>2. creator' \in Creator /\ manifest' \in [Manifests -> Manifest] /\ Story'
    BY <1>1, <1>3, <2>1, CompleteStory DEF Inv
  <2>3. \A q \in Slots : q # s => Knows(run[q])' /\ run'[q] \in {Idle} \cup Call
    BY <1>3, <2>1, ReloadKnows, RunsOutlast DEF Inv
  <2>4. creator'.status = "ACTIVE" /\ ~Due(creator)'
    BY <1>1, <2>1, CompletedTyped DEF Due
  <2>5. r \in Call
    BY <2>1, <2>2 DEF Call
  <2>6. WellFormed(creator)' /\ creator'.current # None
    BY <2>2, <2>4 DEF Story, WellFormed
  <2>7. Knows(run[s])'
    <3>1. run'[s].c = creator'
      BY <2>1
    <3> QED  BY <2>4, <2>6, <3>1 DEF Knows, WellFormed
  <2>8. run' \in [Slots -> {Idle} \cup Call]
    BY <2>1, <2>3, <2>5
  <2> QED  BY <1>1, <2>2, <2>3, <2>7, <2>8, WriteKeeps
<1>4. CASE ~Due(creator)
  <2> DEFINE r == [op |-> "commit", m |-> m, c |-> creator]
  <2>1. creator' = creator /\ manifest' = manifest /\ run' = [run EXCEPT ![s] = r]
    BY <1>4 DEF RotateReads
  <2>2. r \in Call
    BY <1>1 DEF Call
  <2>3. run' \in [Slots -> {Idle} \cup Call] /\ run'[s] = r /\ \A q \in Slots : q # s => run'[q] = run[q]
    BY <2>1, <2>2 DEF Inv, Typed
  <2>4. Knows(run[s])'
    BY <1>2, <2>1, <2>3 DEF Knows, WellFormed
  <2>5. \A q \in Slots : q # s => Knows(run[q])'
    BY <1>1, <2>1, <2>3 DEF Inv, RunsKnow, Knows, WellFormed, Due
  <2>6. Story'
    BY <1>1, <2>1 DEF Inv, Story, WellFormed, OneStory, PendingFollows, EffectIsPast, WindowFits, CooldownHolds,
                      LockOfReading, InEffect
  <2> QED  BY <1>1, <2>1, <2>3, <2>4, <2>5, <2>6, WriteKeeps
<1> QED  BY <1>3, <1>4

LEMMA ReloadKeeps == ASSUME Inv, NEW s \in Slots, Reload(s) PROVE Inv'
<1>1. UNCHANGED <<clock, creator, manifest, link, intent>> /\ run' = [run EXCEPT ![s].op = "commit"]
      /\ run[s].op = "reload"
  BY DEF Reload
<1>2. run[s] # Idle
  BY <1>1 DEF Idle
<1>3. run[s] \in Call
  BY <1>2 DEF Inv, Typed
<1>4. [run[s] EXCEPT !.op = "commit"] \in Call /\ [run[s] EXCEPT !.op = "commit"].c = run[s].c
      /\ [run[s] EXCEPT !.op = "commit"].op = "commit"
  BY <1>3 DEF Call
<1>5. run' \in [Slots -> {Idle} \cup Call] /\ run'[s] = [run[s] EXCEPT !.op = "commit"]
      /\ \A q \in Slots : q # s => run'[q] = run[q]
  BY <1>1, <1>4 DEF Inv, Typed
<1>6. Knows(run[s])'
  BY <1>1, <1>2, <1>4, <1>5 DEF Inv, RunsKnow, Knows, WellFormed
<1>7. \A q \in Slots : q # s => Knows(run[q])'
  BY <1>1, <1>5 DEF Inv, RunsKnow, Knows, WellFormed, Due
<1>8. Story'
  BY <1>1 DEF Inv, Story, WellFormed, OneStory, PendingFollows, EffectIsPast, WindowFits, CooldownHolds,
              LockOfReading, InEffect
<1>9. creator' \in Creator /\ manifest' \in [Manifests -> Manifest]
  BY <1>1 DEF Inv, Typed
<1> QED  BY <1>1, <1>5, <1>6, <1>7, <1>8, <1>9, WriteKeeps

LEMMA RotateCommitsKeeps == ASSUME Inv, NEW s \in Slots, RotateCommits(s) PROVE Inv'
<1>0. PICK r, c, m : r = run[s] /\ c = run[s].c /\ m = run[s].m
  OBVIOUS
<1> DEFINE locked == c.rotation.lockedUntil > clock /\ ~TwoSignIns(c)
<1>1. UNCHANGED <<clock, link, intent>> /\ r.op = "commit"
  BY <1>0 DEF RotateCommits
<1>2. r # Idle
  BY <1>1 DEF Idle
<1>3. r \in Call /\ c \in Creator /\ m \in Manifests
  <2>1. r \in Call
    BY <1>0, <1>2 DEF Inv, Typed
  <2> QED  BY <1>0, <2>1 DEF Call
<1>4. WellFormed(c) /\ c.current # None /\ c.current = creator.current
  BY <1>0, <1>2 DEF Inv, RunsKnow, Knows
<1>5. CASE Refused(c, m) \/ (~locked /\ manifest[m].status # "NONE")
  <2>1. creator' = creator /\ manifest' = manifest /\ run' = [run EXCEPT ![s] = Idle]
    BY <1>0, <1>5 DEF RotateCommits
  <2>2. run' \in [Slots -> {Idle} \cup Call] /\ run'[s] = Idle /\ \A q \in Slots : q # s => run'[q] = run[q]
    BY <2>1 DEF Inv, Typed
  <2>3. \A q \in Slots : Knows(run[q])'
    BY <1>1, <2>1, <2>2 DEF Inv, RunsKnow, Knows, WellFormed, Due
  <2>4. Story'
    BY <1>1, <2>1 DEF Inv, Story, WellFormed, OneStory, PendingFollows, EffectIsPast, WindowFits, CooldownHolds,
                      LockOfReading, InEffect
  <2>5. creator' \in Creator /\ manifest' \in [Manifests -> Manifest]
    BY <2>1 DEF Inv, Typed
  <2> QED  BY <1>1, <2>2, <2>3, <2>4, <2>5, WriteKeeps
<1>6. CASE ~Refused(c, m) /\ ~(~locked /\ manifest[m].status # "NONE")
  <2>1. c.status # "ROTATION_PENDING" /\ c.pending = None
    BY <1>4, <1>6 DEF Refused, WellFormed
  <2>2. /\ creator' = IF locked THEN [c EXCEPT !.seen = @ \cup {link}]
                       ELSE [c EXCEPT !.status = "ROTATION_PENDING", !.pending = m, !.seen = @ \cup {link},
                                      !.rotation.start = clock, !.rotation.eff = clock + Cooldown]
        /\ manifest' = IF locked THEN manifest
                        ELSE [manifest EXCEPT ![m] =
                          [NoManifest EXCEPT !.status = "PENDING", !.made = clock, !.prev = c.current,
                             !.version = manifest[c.current].version + 1, !.eff = clock + Cooldown]]
        /\ run' = [q \in Slots |-> IF q = s THEN Idle ELSE Ends(run[q])]
    BY <1>0, <1>6 DEF RotateCommits
  <2>3. /\ creator' \in Creator /\ manifest' \in [Manifests -> Manifest] /\ Story'
        /\ creator'.current = creator.current /\ ~Due(creator)'
    <3>1. CASE locked
      <4>1. c.seen \cup {link} \in SUBSET Nat
        BY <1>3 DEF Creator, Inv, Typed
      <4>2. creator' \in Creator /\ creator'.status = c.status /\ creator'.current = c.current
            /\ creator'.pending = None
        BY <1>3, <2>1, <2>2, <3>1, <4>1 DEF Creator
      <4>3. WellFormed(creator)' /\ ~Due(creator)'
        BY <1>4, <2>1, <4>2 DEF WellFormed, Due
      <4>4. manifest' = manifest /\ manifest \in [Manifests -> Manifest]
        BY <2>2, <3>1 DEF Inv, Typed
      <4>5. Story'
        BY <1>1, <1>4, <4>2, <4>3, <4>4, SameStory DEF Inv
      <4> QED  BY <1>4, <4>2, <4>3, <4>4, <4>5
    <3>2. CASE ~locked
      <4>1. /\ creator' = [c EXCEPT !.status = "ROTATION_PENDING", !.pending = m, !.seen = @ \cup {link},
                                     !.rotation.start = clock, !.rotation.eff = clock + Cooldown]
            /\ manifest' = [manifest EXCEPT ![m] =
                 [NoManifest EXCEPT !.status = "PENDING", !.made = clock, !.prev = c.current,
                    !.version = manifest[c.current].version + 1, !.eff = clock + Cooldown]]
            /\ manifest[m].status = "NONE" /\ (c.rotation.lockedUntil > clock => TwoSignIns(c))
        BY <1>6, <2>2, <3>2
      <4>2. creator' \in Creator /\ manifest' \in [Manifests -> Manifest] /\ Story'
        BY <1>1, <1>3, <1>4, <4>1, BeginsStory DEF Inv
      <4>3. creator'.current = c.current
        BY <1>3, <4>1 DEF Creator
      <4>4. creator'.rotation.eff = clock + Cooldown
        BY <1>3, <4>1 DEF Creator, Rotation
      <4>5. clock \in Nat /\ clock' = clock /\ Cooldown \in Nat /\ Cooldown > 0
        BY <1>1, IdentityConstants DEF Inv, Typed
      <4> QED  BY <1>4, <4>2, <4>3, <4>4, <4>5 DEF Due
    <3> QED  BY <3>1, <3>2
  <2>4. \A q \in Slots : q # s => Knows(run[q])' /\ run'[q] \in {Idle} \cup Call
    BY <2>2, <2>3, RunsOutlast DEF Inv
  <2>5. Knows(run[s])' /\ run'[s] \in {Idle} \cup Call
    BY <2>2 DEF Knows
  <2>6. run' \in [Slots -> {Idle} \cup Call]
    BY <2>2, <2>4, <2>5
  <2> QED  BY <1>1, <2>3, <2>4, <2>5, <2>6, WriteKeeps
<1> QED  BY <1>5, <1>6

\* Only the intent is written.
LEMMA IntentKeeps ==
  ASSUME Inv, UNCHANGED <<clock, creator, manifest, link, run>>, intent' \in Intent, WindowFits'
  PROVE  Inv'
<1>1. Typed'
  BY DEF Inv, Typed
<1>2. RunsKnow'
  BY DEF Inv, RunsKnow, Knows, WellFormed, Due
<1>3. Story'
  BY DEF Inv, Story, WellFormed, OneStory, PendingFollows, EffectIsPast, CooldownHolds, LockOfReading, InEffect
<1> QED  BY <1>1, <1>2, <1>3 DEF Inv

LEMMA DraftKeeps == ASSUME Inv, Draft PROVE Inv'
<1>0. PICK p, e : p = creator.current /\ e = WindowEnd
  OBVIOUS
<1>1. p \in Manifests /\ manifest[p].status = "ACTIVE"
  <2>1. p \in Manifests /\ p # None
    BY <1>0 DEF Draft, Inv, Story, WellFormed, Typed, Creator
  <2> QED  BY <1>0, <2>1 DEF Inv, Story, OneStory
<1>2. clock \in Nat /\ Window \in Nat /\ creator.rotation.eff \in Nat
  BY IdentityConstants DEF Inv, Typed, Creator, Rotation
<1>3. e \in Nat /\ e <= clock + Window /\ (creator.pending # None => e <= creator.rotation.eff)
  BY <1>0, <1>2 DEF WindowEnd, Rotating, Inv, Story, WellFormed
<1>4. intent' = [status |-> "DRAFT", m |-> p, at |-> clock, exp |-> e]
      /\ UNCHANGED <<clock, creator, manifest, link, run>>
  BY <1>0 DEF Draft
<1>5. intent' \in Intent
  BY <1>1, <1>2, <1>3, <1>4 DEF Intent
<1>6. WindowFits'
  BY <1>1, <1>3, <1>4 DEF WindowFits, InEffect
<1> QED  BY <1>4, <1>5, <1>6, IntentKeeps

LEMMA StoreReadsKeeps == ASSUME Inv, StoreReads PROVE Inv'
<1>1. intent \in Intent
  BY DEF Inv, Typed
<1>2. intent' \in Intent /\ intent'.status = "CHECKED" /\ intent'.m = intent.m /\ intent'.exp = intent.exp
      /\ intent.status # "NONE"
  BY <1>1 DEF StoreReads, Intent
<1>3. UNCHANGED <<clock, creator, manifest, link, run>>
  BY DEF StoreReads
<1>4. WindowFits'
  BY <1>2, <1>3 DEF Inv, Story, WindowFits, InEffect
<1> QED  BY <1>2, <1>3, <1>4, IntentKeeps

LEMMA StoreCommitsKeeps == ASSUME Inv, StoreCommits PROVE Inv'
<1>1. UNCHANGED <<clock, creator, manifest, link, run>> /\ clock \in Nat /\ intent \in Intent
  BY DEF StoreCommits, Inv, Typed
<1>2. CASE clock < intent.exp
  <2>1. intent' \in Intent /\ intent'.status = "OPEN" /\ intent'.m = intent.m /\ intent'.exp = intent.exp
        /\ intent'.at = clock /\ intent.status # "NONE"
    BY <1>1, <1>2 DEF StoreCommits, Intent
  <2>2. WindowFits'
    BY <1>1, <2>1 DEF Inv, Story, WindowFits, InEffect, EffectIsPast
  <2> QED  BY <1>1, <2>1, <2>2, IntentKeeps
<1>3. CASE ~(clock < intent.exp)
  <2>1. intent' = NoIntent
    BY <1>3 DEF StoreCommits
  <2>2. intent' \in Intent /\ intent'.status = "NONE"
    BY <2>1 DEF NoIntent, Intent
  <2> QED  BY <1>1, <2>2, IntentKeeps DEF WindowFits
<1> QED  BY <1>2, <1>3

LEMMA InitInv == Init => Inv
<1> SUFFICES ASSUME Init PROVE Inv
  OBVIOUS
<1>1. NoRotation \in Rotation
  BY DEF NoRotation, Rotation
<1>2. NoCreator \in Creator
  BY <1>1 DEF NoCreator, Creator
<1>3. NoManifest \in Manifest /\ NoIntent \in Intent
  BY DEF NoManifest, Manifest, NoIntent, Intent
<1>4. Typed
  BY <1>2, <1>3 DEF Init, Typed
<1>5. \A m \in Manifests : manifest[m].status = "NONE"
  BY DEF Init, NoManifest
<1>6. Story
  BY <1>5 DEF Init, NoCreator, NoIntent, Story, WellFormed, OneStory, PendingFollows, EffectIsPast, WindowFits,
              CooldownHolds, LockOfReading, InEffect
<1>7. RunsKnow
  BY DEF Init, RunsKnow, Knows
<1> QED  BY <1>4, <1>6, <1>7 DEF Inv

LEMMA StepInv == Inv /\ [Next]_vars => Inv'
<1> SUFFICES ASSUME Inv, [Next]_vars PROVE Inv'
  OBVIOUS
<1>1. CASE Tick  BY <1>1, TickKeeps
<1>2. CASE SignIn  BY <1>2, SignInKeeps
<1>3. CASE Complete  BY <1>3, CompleteKeeps
<1>4. CASE \E m \in Manifests : Join(m)  BY <1>4, JoinKeeps
<1>5. CASE \E s \in Slots, m \in Manifests : RotateReads(s, m)  BY <1>5, RotateReadsKeeps
<1>6. CASE \E s \in Slots : Reload(s)  BY <1>6, ReloadKeeps
<1>7. CASE \E s \in Slots : RotateCommits(s)  BY <1>7, RotateCommitsKeeps
<1>8. CASE \E p \in BOOLEAN : Pause(p)  BY <1>8, PauseKeeps
<1>9. CASE \E w \in BOOLEAN : Cancel(w)  BY <1>9, CancelKeeps
<1>10. CASE Draft  BY <1>10, DraftKeeps
<1>11. CASE StoreReads  BY <1>11, StoreReadsKeeps
<1>12. CASE StoreCommits  BY <1>12, StoreCommitsKeeps
<1>13. CASE UNCHANGED vars
  <2>1. UNCHANGED <<clock, creator, manifest, link, intent, run>>
    BY <1>13 DEF vars
  <2>2. intent' \in Intent /\ WindowFits'
    BY <2>1 DEF Inv, Typed, Story, WindowFits, InEffect
  <2> QED  BY <2>1, <2>2, IntentKeeps
<1> QED  BY <1>1, <1>2, <1>3, <1>4, <1>5, <1>6, <1>7, <1>8, <1>9, <1>10, <1>11, <1>12, <1>13 DEF Next

-----------------------------------------------------------------------------
(* The theorems.                                                           *)

\* The inductive invariant holds of every behaviour of the handlers.
THEOREM IdentityInvariant == Spec => []Inv
<1>1. Init => Inv
  BY InitInv
<1>2. Inv /\ [Next]_vars => Inv'
  BY StepInv
<1> QED  BY <1>1, <1>2, PTL DEF Spec

\* The current manifest is the active one, the pending one is pending, and
\* every manifest follows the one it superseded from the moment that one
\* ended, however the invocations of creator-manifest, the hourly job, a
\* pause and a cancellation interleave.
THEOREM OneStoryTheorem == Spec => []OneStory
<1>1. Inv => OneStory
  BY DEF Inv, Story
<1> QED  BY <1>1, IdentityInvariant, PTL

\* No change of the receiving wallet comes before its cooldown or cuts the
\* window of a stored intent, and one that was decided on a reading of the
\* creator that shows a lock had the two sign-ins.  Of a lock that is set
\* after that reading it says nothing: CreatorIdentity's LockStays.
THEOREM ChangeTheorem == Spec => []ChangeIsTimely
<1>1. Inv => ChangeIsTimely
  <2> SUFFICES ASSUME Inv PROVE IntentInsideManifest
    BY DEF Inv, Story, ChangeIsTimely
  <2> QED  BY DEF Inv, Story, WindowFits, IntentInsideManifest
<1> QED  BY <1>1, IdentityInvariant, PTL
=============================================================================

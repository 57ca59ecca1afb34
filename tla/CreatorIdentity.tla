--------------------------- MODULE CreatorIdentity ---------------------------
(***************************************************************************)
(* A creator of SYNC Proof: the manifests that name its receiving wallet    *)
(* and the change of that wallet (netlify/functions/early.js: creator-link, *)
(* creator-manifest, creator-pause, rotation-cancel, maybeCompleteRotation; *)
(* the OAuth callbacks early-youtube-auth.js and early-x-auth.js), with the *)
(* intents whose window a change must not cut (intent-draft, intent-store). *)
(*                                                                         *)
(* One creator: every key is its own.  Whoever signs in at the platform has *)
(* a creator session and a link record, good for the unit of time they were *)
(* made in; the wallet of a manifest has signed it.  A handler whose last    *)
(* read its compare-and-set expects is one step; creator-manifest may work   *)
(* on an earlier reading than the one it expects, and is three.  An          *)
(* invocation whose expected record was written can commit nothing and ends. *)
(* The attestations written along are Anchoring's.                          *)
(***************************************************************************)
EXTENDS Integers, FiniteSets

CONSTANTS
  Manifests, Wallets,
  WalletOf,          \* manifest -> the receiving wallet that signed it
  Slots,             \* creator-manifest invocations that may run at a time
  Cooldown,          \* ROTATION_COOLDOWN_S
  Lock,              \* ROTATION_LOCK_S
  Repeat,            \* ROTATION_CANCEL_REPEAT_S
  Apart,             \* 24 hours between the sign-ins a lock asks for
  Window,            \* INTENT_WINDOW_S
  Freeze,            \* ROTATION_DRAFT_FREEZE_S
  MaxTime,           \* bound
  None

ASSUME IdentityConstants ==
  /\ {Cooldown, Lock, Repeat, Apart, Window, Freeze, MaxTime} \subseteq Nat
  /\ Freeze < Window /\ Window < Cooldown
  /\ WalletOf \in [Manifests -> Wallets]
  /\ None \notin Manifests \cup Wallets

VARIABLES
  clock,
  creator,           \* K.creator
  manifest,          \* K.manifest
  link,              \* K.oauth: the time of the last sign-in, 0: none
  intent,            \* a fan's draft and stored intent
  run                \* slot -> what creator-manifest holds

vars == <<clock, creator, manifest, link, intent, run>>

NoRotation == [start |-> 0, eff |-> 0, lockedAt |-> 0, lockedUntil |-> 0, lastBy |-> None, lastAt |-> 0]
NoCreator  == [status |-> "NONE", paused |-> FALSE, current |-> None, pending |-> None,
               rotation |-> NoRotation, seen |-> {}]
NoManifest == [status |-> "NONE", version |-> 0, prev |-> None, made |-> 0, eff |-> 0, sup |-> 0]
NoIntent   == [status |-> "NONE", m |-> None, at |-> 0, exp |-> 0]
Idle       == [op |-> "idle"]

Init ==
  /\ clock = 1
  /\ creator = NoCreator
  /\ manifest = [m \in Manifests |-> NoManifest]
  /\ link = 0
  /\ intent = NoIntent
  /\ run = [s \in Slots |-> Idle]

\* A write of the creator ends the invocations that expect it as they read it.
Ends(r) == IF r.op = "commit" THEN Idle ELSE r
EndsAll == run' = [s \in Slots |-> Ends(run[s])]

Tick ==
  /\ clock < MaxTime
  /\ clock' = clock + 1
  /\ run' = [s \in Slots |-> Idle]
  /\ UNCHANGED <<creator, manifest, link, intent>>

\* The platform's callback: a state that is used once, an account, a session.
SignIn ==
  /\ link # clock
  /\ link' = clock
  /\ UNCHANGED <<clock, creator, manifest, intent, run>>

-----------------------------------------------------------------------------
(* maybeCompleteRotation.                                                  *)

Due(c) == c.status = "ROTATION_PENDING" /\ c.rotation.eff <= clock

Completed(c) == [c EXCEPT !.status = "ACTIVE", !.current = c.pending, !.pending = None]

\* Mutation of Superseded: only the new manifest is written.
Superseded_NewOnly(c) ==
  [manifest EXCEPT ![c.pending].status = "ACTIVE", ![c.pending].eff = c.rotation.eff]
Superseded(c) ==
  [manifest EXCEPT ![c.current].status = "SUPERSEDED", ![c.current].sup = c.rotation.eff,
                   ![c.pending].status = "ACTIVE", ![c.pending].eff = c.rotation.eff]

\* Mutation of Complete: not while the creator is paused.
Complete_NotPaused ==
  /\ Due(creator) /\ ~creator.paused
  /\ creator' = Completed(creator)
  /\ manifest' = Superseded(creator)
  /\ EndsAll
  /\ UNCHANGED <<clock, link, intent>>
\* The creator and both manifests are expected as read: one step, by any
\* reader of the creator.
Complete ==
  /\ Due(creator)
  /\ creator' = Completed(creator)
  /\ manifest' = Superseded(creator)
  /\ EndsAll
  /\ UNCHANGED <<clock, link, intent>>

-----------------------------------------------------------------------------
(* creatorManifest.                                                        *)

\* The first manifest: fresh sign-in, version 1, no creator yet.
Join(m) ==
  /\ link = clock
  /\ creator.status = "NONE" /\ manifest[m].status = "NONE"
  /\ creator' = [NoCreator EXCEPT !.status = "ACTIVE", !.current = m, !.seen = {link}]
  /\ manifest' = [manifest EXCEPT ![m] =
       [NoManifest EXCEPT !.status = "ACTIVE", !.version = 1, !.made = clock, !.eff = clock]]
  /\ EndsAll
  /\ UNCHANGED <<clock, link, intent>>

\* The creator is read, and a change that is due completed; the answer of
\* that is what the handler goes on with.
RotateReads(s, m) ==
  /\ run[s] = Idle
  /\ link = clock
  /\ creator.status # "NONE"
  /\ manifest[m].status = "NONE"
  /\ IF Due(creator)
     THEN /\ creator' = Completed(creator)
          /\ manifest' = Superseded(creator)
          /\ run' = [q \in Slots |-> IF q = s THEN [op |-> "reload", m |-> m, c |-> Completed(creator)]
                                     ELSE Ends(run[q])]
     ELSE /\ run' = [run EXCEPT ![s] = [op |-> "commit", m |-> m, c |-> creator]]
          /\ UNCHANGED <<creator, manifest>>
  /\ UNCHANGED <<clock, link, intent>>

\* The record is read again for the compare-and-set to expect it; the handler
\* keeps the reading it has.
Reload(s) ==
  /\ run[s].op = "reload"
  /\ run' = [run EXCEPT ![s].op = "commit"]
  /\ UNCHANGED <<clock, creator, manifest, link, intent>>

\* While locked: two sign-ins apart, the first strictly after the lock.
TwoSignIns(c) == \E x \in c.seen \cup {link} : x > c.rotation.lockedAt /\ link - x >= Apart

Refused(c, m) ==
  \/ c.status = "ROTATION_PENDING"
  \/ WalletOf[m] = WalletOf[c.current]

\* A new pending manifest, which the compare-and-set expects to be new, or a
\* sign-in remembered for the lock.
RotateCommits(s) ==
  LET c == run[s].c
      m == run[s].m
      locked == c.rotation.lockedUntil > clock /\ ~TwoSignIns(c)
  IN /\ run[s].op = "commit"
     /\ IF Refused(c, m) \/ (~locked /\ manifest[m].status # "NONE")
        THEN /\ run' = [run EXCEPT ![s] = Idle]
             /\ UNCHANGED <<creator, manifest>>
        ELSE /\ creator' = IF locked THEN [c EXCEPT !.seen = @ \cup {link}]
                           ELSE [c EXCEPT !.status = "ROTATION_PENDING", !.pending = m, !.seen = @ \cup {link},
                                          !.rotation.start = clock, !.rotation.eff = clock + Cooldown]
             /\ manifest' = IF locked THEN manifest
                            ELSE [manifest EXCEPT ![m] =
                              [NoManifest EXCEPT !.status = "PENDING", !.made = clock, !.prev = c.current,
                                 !.version = manifest[c.current].version + 1, !.eff = clock + Cooldown]]
             /\ run' = [q \in Slots |-> IF q = s THEN Idle ELSE Ends(run[q])]
     /\ UNCHANGED <<clock, link, intent>>

-----------------------------------------------------------------------------
(* creatorPause and rotationCancel.                                        *)

Pause(p) ==
  /\ link = clock
  /\ creator.status # "NONE" /\ creator.paused # p
  /\ creator' = [creator EXCEPT !.paused = p]
  /\ EndsAll
  /\ UNCHANGED <<clock, manifest, link, intent>>

\* By a creator session, or by the current wallet: that locks, and the same
\* wallet cannot again for a time.
Cancel(byWallet) ==
  LET r == creator.rotation
      w == WalletOf[creator.current]
  IN /\ creator.status = "ROTATION_PENDING"
     /\ IF byWallet THEN ~(r.lastBy = w /\ clock - r.lastAt < Repeat) ELSE link = clock
     /\ creator' = [creator EXCEPT !.status = "ACTIVE", !.pending = None,
          !.rotation = IF byWallet THEN [r EXCEPT !.lockedUntil = clock + Lock, !.lockedAt = clock,
                                                  !.lastBy = w, !.lastAt = clock]
                       ELSE r]
     /\ manifest' = [manifest EXCEPT ![creator.pending].status = "CANCELLED"]
     /\ EndsAll
     /\ UNCHANGED <<clock, link, intent>>

-----------------------------------------------------------------------------
(* intentDraft and intentStore, as far as the creator is concerned.         *)

Rotating == creator.status = "ROTATION_PENDING"

\* Mutation of WindowEnd: a pending change does not cut the window.
WindowEnd_Whole == clock + Window

\* The window of an intent drafted now ends before a pending change.
WindowEnd == IF Rotating /\ creator.rotation.eff < clock + Window THEN creator.rotation.eff ELSE clock + Window

\* A due change is completed first; shortly before a change none is drafted.
Draft ==
  /\ intent.status \in {"NONE", "DRAFT"}
  /\ creator.status # "NONE" /\ ~creator.paused /\ ~Due(creator)
  /\ Rotating => creator.rotation.eff - clock > Freeze
  /\ intent' = [status |-> "DRAFT", m |-> creator.current, at |-> clock, exp |-> WindowEnd]
  /\ UNCHANGED <<clock, creator, manifest, link, run>>

\* The manifest and the creator are read again, but not expected: between
\* this reading and the commit the creator may change.
StoreReads ==
  /\ intent.status = "DRAFT"
  /\ clock < intent.exp /\ intent.at = clock
  /\ manifest[intent.m].status = "ACTIVE" /\ creator.current = intent.m /\ ~creator.paused
  /\ intent' = [intent EXCEPT !.status = "CHECKED"]
  /\ UNCHANGED <<clock, creator, manifest, link, run>>

\* The function answers within its own time limit: before the window ends.
StoreCommits ==
  /\ intent.status = "CHECKED"
  /\ intent' = IF clock < intent.exp THEN [intent EXCEPT !.status = "OPEN", !.at = clock] ELSE NoIntent
  /\ UNCHANGED <<clock, creator, manifest, link, run>>

-----------------------------------------------------------------------------
Next ==
  \/ Tick
  \/ SignIn
  \/ Complete
  \/ \E m \in Manifests : Join(m)
  \/ \E s \in Slots, m \in Manifests : RotateReads(s, m)
  \/ \E s \in Slots : Reload(s)
  \/ \E s \in Slots : RotateCommits(s)
  \/ \E p \in BOOLEAN : Pause(p)
  \/ \E w \in BOOLEAN : Cancel(w)
  \/ Draft
  \/ StoreReads
  \/ StoreCommits

\* The hourly job completes the changes that are due.
Spec == Init /\ [][Next]_vars /\ WF_vars(Complete)

-----------------------------------------------------------------------------
(* What holds of it.                                                       *)

TypeOK ==
  /\ clock \in 1 .. MaxTime /\ link \in 0 .. clock
  /\ creator.status \in {"NONE", "ACTIVE", "ROTATION_PENDING"}
  /\ creator.current \in Manifests \cup {None} /\ creator.pending \in Manifests \cup {None}
  /\ \A m \in Manifests :
       manifest[m].status \in {"NONE", "PENDING", "ACTIVE", "SUPERSEDED", "CANCELLED"}
  /\ intent.status \in {"NONE", "DRAFT", "CHECKED", "OPEN"}

\* The creator and its manifests tell one story: the current manifest is the
\* one that is active, the one it has pending is pending, and
\* every manifest that took effect follows the one it superseded, from the
\* moment that one ended.
OneStory ==
  /\ {m \in Manifests : manifest[m].status = "ACTIVE"} = {creator.current} \ {None}
  /\ creator.pending # None => manifest[creator.pending].status = "PENDING"
  /\ creator.status = "ROTATION_PENDING" <=> creator.pending # None
  /\ \A m \in Manifests : manifest[m].status \in {"ACTIVE", "SUPERSEDED"} /\ manifest[m].version > 1 =>
       LET p == manifest[m].prev
       IN /\ manifest[p].status = "SUPERSEDED"
          /\ manifest[p].sup = manifest[m].eff
          /\ manifest[p].version + 1 = manifest[m].version

\* Whoever signs in at the platform cannot move the receiving wallet without
\* the time in which the wallet's holder can stop it (spec 12.1 g).
CooldownHolds ==
  \A m \in Manifests : manifest[m].status \in {"ACTIVE", "SUPERSEDED"} /\ manifest[m].version > 1 =>
    manifest[m].eff >= manifest[m].made + Cooldown /\ manifest[m].eff <= clock

\* An intent is stored while its manifest is in effect, and its window ends
\* before that manifest does, whatever is started after it was drafted.
IntentInsideManifest ==
  intent.status = "OPEN" =>
    /\ intent.at >= manifest[intent.m].eff
    /\ manifest[intent.m].status = "SUPERSEDED" => intent.exp <= manifest[intent.m].sup
    /\ manifest[intent.m].status = "ACTIVE" /\ creator.pending # None => intent.exp <= creator.rotation.eff

\* A change whose record shows a lock had two sign-ins apart after it.  The
\* record shows the lock of the reading the change was decided on; a lock set
\* after that reading can be overwritten with it, see LockStays.
LockOfReading ==
  LET r == creator.rotation
  IN creator.status = "ROTATION_PENDING" /\ r.start < r.lockedUntil =>
       \E x, y \in creator.seen : x > r.lockedAt /\ y - x >= Apart /\ y <= r.start

\* The wallet changes after its cooldown, outside every intent, and with two
\* sign-ins when the reading it was decided on shows a lock.
ChangeIsTimely == CooldownHolds /\ IntentInsideManifest /\ LockOfReading

\* A change that is due takes effect or was cancelled; it is not forgotten.
DueTakesEffect ==
  \A m \in Manifests : (creator.pending = m /\ Due(creator)) ~> manifest[m].status # "PENDING"

\* "Locked after a current-wallet cancel: the OAuth holder needs two verified
\* sessions >= 24 h apart AFTER the lock" (creatorManifest): no write takes a
\* lock back.  The write of a change does, when it was decided on the creator
\* as it was before another change was started and cancelled by the wallet.
LockStays == [][creator'.rotation.lockedUntil >= creator.rotation.lockedUntil]_vars

\* Only a resume ends a pause.
PauseStays == [][creator.paused /\ ~creator'.paused => Pause(FALSE)]_vars
=============================================================================

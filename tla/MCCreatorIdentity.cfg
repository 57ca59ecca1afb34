CONSTANTS
  wa = wa  wb = wb  wc = wc  m1 = m1  m2 = m2  m3 = m3  m4 = m4  s1 = s1  s2 = s2
  None = None
  Manifests = {m1, m2, m3}
  Wallets = {wa, wb, wc}
  WalletOf <- MCWalletOf
  Slots = {s1, s2}
  Cooldown = 3
  Lock = 3
  Repeat = 5
  Apart = 1
  Window = 2
  Freeze = 0
  MaxTime = 6
SPECIFICATION Spec
INVARIANTS OneStory ChangeIsTimely
PROPERTY DueTakesEffect
\* The clock and the manifests are bounded.
CHECK_DEADLOCK FALSE

CONSTANTS
  Refreshers = {u1, u2}
  Callers = {c1}
  Tokens = {t1, t2, t3}
  Created = Created
  None = None
  Torn = Torn
  u1 = u1
  u2 = u2
  c1 = c1
  t1 = t1
  t2 = t2
  t3 = t3

SPECIFICATION FairSpec
INVARIANT TypeOK
INVARIANT NoReplacedCredential
INVARIANT TornOnlyInARace
PROPERTY CallersCatchUp

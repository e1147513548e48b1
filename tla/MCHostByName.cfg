SPECIFICATION Spec
CONSTANTS
  Thread = {t1, t2}
  Host = {h1, h2}
  None = None
  Zero = Zero
  Cell = {c1, c2}
  DoneWait = 1
  TableSize = 2
INVARIANTS IdleNeverExpires IdleRestored Truthful
PROPERTIES EveryLookupReturns

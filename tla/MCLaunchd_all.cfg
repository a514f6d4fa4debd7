\* `make start` again and again, other commands next to it, failures and a
\* print without an answer.
CONSTANTS
  Clis = {p1, p2}
  MaxBootouts = 2
  MaxBootstraps = 2
  MaxOthers = 2
  MaxFaults = 2
  MaxMisses = 1
SPECIFICATION FairSpec
INVARIANT TypeOK
PROPERTIES InstallDone ServesAgain

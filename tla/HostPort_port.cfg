SPECIFICATION Spec
CONSTANTS
  Chips <- BothChips
  FirstBytes <- First
  SecondBytes <- Second
  DataBytes <- Data
  MaxCosts = 3
INVARIANTS
  LatchAgrees
  HostReadsBack
PROPERTIES
  UnlockTakesTwo
  LockedStaysInEight
  RunRises

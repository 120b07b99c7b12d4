SPECIFICATION FairSpec
CONSTANTS
  Users = {u1, u2}
  CallOut = callout
  Delays <- SomeDelays
  MaxId = 3
  MaxCallOuts = 3
  MaxTime = 2
INVARIANTS TypeOK NothingLost NeverOversleeps OnePollPerSearch HandlesFarApart
PROPERTIES ServiceSpec EventuallyFires

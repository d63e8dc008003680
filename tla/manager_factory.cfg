\* Two workers, two keys, any number of calls.
SPECIFICATION FairSpec
CONSTANTS
  Workers = {w1, w2}
  Keys = {k1, k2}
  NoWorker = NoWorker
INVARIANTS
  MapIsRaceFree
  EachMakesOne
PROPERTY
  CallsReturn

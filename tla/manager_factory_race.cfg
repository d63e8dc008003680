\* Two workers that both miss the cache create a manager each.
SPECIFICATION Spec
CONSTANTS
  Workers = {w1, w2}
  Keys = {k1}
  NoWorker = NoWorker
INVARIANT
  OneManagerPerKey

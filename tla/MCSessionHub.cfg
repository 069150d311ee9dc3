\* Two entries alive, two tabs, one writer, one change, one fault, up to three
\* visits by the tabs.
SPECIFICATION FairSpec
CONSTANTS
  o1 = o1
  o2 = o2
  s1 = s1
  s2 = s2
  w1 = w1
  Objects <- MCObjects
  Streams <- MCStreams
  Writers <- MCWriters
  None = None
  MaxVersion = 1
  MaxOpens = 3
  MaxFaults = 1
INVARIANTS
  NothingMissed
  StreamsFollow
PROPERTIES
  NeverOlder
  ToldIsShown
CHECK_DEADLOCK FALSE

SPECIFICATION FairSpec
CONSTANTS
  NumProbes = 4
  System = {main, ingress}
  Main = main
  MainFirst = FALSE
  NULL = NULL
  Woken = Woken
INVARIANTS NoJoinCycle SomeoneListens
PROPERTY EndedIsRestarted

SPECIFICATION FairSpec
CONSTANTS
  t1 = t1
  t2 = t2
  u1 = u1
  Tcp <- TwoTcp
  Udp <- OneUdp
  MaxMsgs = 2
  MaxKids = 2
  Kinds <- AllKinds
  Mishaps <- AllMishaps
INVARIANTS
  EachRequestOnce
  ZombiesAreAnnounced
PROPERTIES
  EveryAnswerArrives
CHECK_DEADLOCK FALSE

SPECIFICATION ViewSpec
CONSTANTS
  t1 = t1
  t2 = t2
  Tools <- TwoTools
  Instances <- Viewed
INVARIANTS
  
  TextInOrder
  CallsShownOnce
  ShownOnce
  ScreenFollows
CHECK_DEADLOCK FALSE

SPECIFICATION Spec
CONSTANTS
  t1 = t1  t2 = t2  chat1 = chat1  d1 = d1  d2 = d2  o1 = o1  o2 = o2
  Texts = {t1, t2}
  Chats = {chat1}
  Drafts = {d1, d2}
  Own = {o1, o2}
  Starts <- Evenings
INVARIANTS TwiceOnlyIfTold SecondPostIsWarned ShownIsChosen AtRestFresh
PROPERTIES KeepsPromise DraftEditsSurvive EveryPressIsAnswered
CHECK_DEADLOCK FALSE

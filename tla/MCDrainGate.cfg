CONSTANTS
  Callers = {timer, button, catchUp}
SPECIFICATION Spec
INVARIANT OneDrainAtATime
INVARIANT InGoodHands
PROPERTY JoinedIsServedUnlessLate

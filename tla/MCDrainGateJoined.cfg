CONSTANTS
  Callers = {timer, button}
SPECIFICATION Spec
PROPERTY JoinedIsServed

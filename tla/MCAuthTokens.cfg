\* Two requests of any kind at a time, any number in turn, and three tokens.
SPECIFICATION Spec
CONSTANTS
  Tokens = {t1, t2, t3}
  Requests = {q1, q2}
INVARIANTS TypeOK OneLivePerLogin 
PROPERTIES ImplementsLoginSessions
SYMMETRY Alike

SPECIFICATION Spec
CONSTANTS
  s1 = s1  s2 = s2  c1 = c1  w1 = w1
  i1 = i1  u1 = u1  u2 = u2
  None = None
  ServerConns <- OneServer
  ControllerConns <- OneController
  TerminalConns <- OneTerminal
  SerIDs <- OneID
  UsrIDs <- OneUser
INVARIANT
  AllControllersGone

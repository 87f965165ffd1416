SPECIFICATION EmitLinkSpec
CONSTANTS
  B = 16
  LitBytes = 3
  Sentinels <- MCSentinels
  Bases <- MCBases
  Bodies <- MCBodies
  EmptyBases <- MCEmptyBases
  Straight <- MCStraight
  Uints = {4}
  HEADER = 10
  MaxBody = 5
  PUSH_U64 = 13
  PUSH_U64_W = 14
  RETURN_VALUE = 7
  CALL = 4
  JUMP = 3
  NOP = 0
  JUMP_IF = 2
  PUSH_0 = 8
  ADD = 1
  HALT = 6
INVARIANTS BaseKept StubsEnterBodies BodiesIntact JumpsLand ConstantsExact
PROPERTY RewritesMakeNoStub
CHECK_DEADLOCK FALSE

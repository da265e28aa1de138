SPECIFICATION MCSpec
CONSTANTS
  Grids = {g1, g2}
  g1 = g1
  g2 = g2
  desktop = desktop
  phone = phone
  Local = {desktop}
  Remote = {phone}
  None = None
  MaxOpens = 2
  MaxMoves = 1
INVARIANTS TypeOK FollowsUnlessAstray RedrawnOrNamed
PROPERTY Settles
CHECK_DEADLOCK FALSE

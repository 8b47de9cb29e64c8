SPECIFICATION FairSpec
CONSTANT Coords <- MCCoords
INVARIANTS TypeOK MotorsAgree OnTheLine
PROPERTIES NoOvershoot MovesEnd

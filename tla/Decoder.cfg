SPECIFICATION MCSpec
CONSTANTS
  \* FLAG; addresses 3 (DLC0), 7 (DLC1); controls 63 (SABM), 239 (UIH),
  \* 255 (UIH with P/F, and the length 127); lengths 1 and 5; the FCS octets
  \* of <<3, 63, 1>>, <<7, 239, 5>> and <<7, 239, 255>>.
  Bytes = {249, 3, 7, 63, 239, 255, 1, 5, 28, 48, 105}
  FreeInfo = 1
  Filler = 249
INVARIANTS
  TypeOK
  InfoFits
  ViewCannotPanic
  DeliveredIsWireFrame
  DeliveredReencodes
  SwallowsAtMostOneFrame

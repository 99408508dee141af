SPECIFICATION AlgSpec
CONSTANTS
  MaxAddr = 15
  BlockSizes = {1, 2, 4, 8, 16}
  NoAddr = NoAddr
  MaxUsed = 4
  HMin = 5
  HMax = 14
  MaxWord = 20
  MaxHeader = 30
  Blank = Blank
INVARIANTS
  FirstFit
  ImitationStaysOn
  HandshakesToldApart
  Framed
  AnswersFit
CHECK_DEADLOCK FALSE

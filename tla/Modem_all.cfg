CONSTANTS
  MaxTimeouts = 2
  MaxErrors = 2
  MaxErrorsF3 = 1
  MaxLost = 1
  Items <- MCItems
  Datas <- MCDatas
  ReadChunk = 4
  WriteChunk = 2
  MaxLen = 8
  Found <- MCFound
  Contents <- MCContents
  Tree <- MCTree
  Content <- MCContent
  Equips <- MCEquips
  Supported <- MCSupported
  Argv <- MCArgv
  Slice = 2
  TxnLimit = 20
  Internal <- MCInternal
  Setters <- MCSetters
  MsgIds <- MCIds
  Answers <- MCAnswers
  Room = 16
  Width = 1
  Val = 5
SPECIFICATION Spec
INVARIANTS
  TypeOK
  UndisturbedIsExact
  InTimeIsRight
  MasksComeDown
  AnswersAreTheirOwn
PROPERTIES
  UpdateSpec
CHECK_DEADLOCK FALSE

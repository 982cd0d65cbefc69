CONSTANTS
  MaxHeap = 9
  NALLOC = 3
  MaxRow = 6
  MaxRows = 3
  MaxChars = 4
  MaxClip = 1
  Spot <- Spots
  Han <- Hanzi
  Pattern <- Patterns
  FILESWITCH_MAX_FILES = 2
  NewName = "n"
  DirName = "d"
  FirstFiles <- Files
  TypedName = {"n", "m/x"}
  AstrayName = {"m/x"}
  Token = {"a", "|", ";", "&", "<", "(", ")"}
  MAXARGS = 3
  MaxTokens = 5
  MaxLines = 2
  RunLine <- RunLines
  MaxProcs = 6
  Letter = {"a", "b"}
  HanByte = {"h1", "h2"}
  DictFile <- Dicts
  ITEM_EVERY_PAGE = 2
  MaxPinyin = 3
  MaxPage = 2
  HChar = {"i", "f", "/", " "}
  WordChar = {"i", "f"}
  KeyWord <- KeyWords
  MaxHRow = 5
  Width = 4
  Height = 3
  Widget <- Widgets
  AreaW = 70
  AreaH = 64
  MaxDown = 3
  Caret = {0, 1, 5, 20}
SPECIFICATION UserSpec
INVARIANTS HeapSound RowsInArray TextWhole EditsAgree TabsConsistent ParsesGrammar PipelinesEnd
           PicksFromDictionary ColorsAreKeywords WidgetsAgree CaretSeen
PROPERTY HandlersKeep
CHECK_DEADLOCK FALSE

SPECIFICATION MCSpec
CONSTANTS
  cat = cat
  dog = dog
  fox = fox
  wordy = wordy
  username = username
  password = password
  get = get
  long = long
  short = short
  None = None
  Users = {cat, dog}
  TokenSize = 2
  Token <- MCToken
  Length <- MCLength
  Rounded <- MCRounded
  NodeBytes = 2
  PointerBytes = 1
  MemberBytes = 1
  ArenaSize = 41
  Paths <- MCPaths
  ApiPaths <- MCApi
  LoginPaths <- MCLogin
  GuardedPaths <- MCGuarded
  Ext <- MCExt
  Disk <- MCDisk
  FileSize = 2
  Methods = {"GET", "POSTS"}
  Bodies <- MCBodies
  HashSize = 1
  RootDirSize = 4
  Directories = {0, 1, 2, 3, 4}
  json_parse <- Parse
  json_write <- Write
  Denoted <- MCDenoted
  Footprint <- Cost
  Lexemes <- MCLexemes
  MaxText = 5
  Budgets = {2, 4, 7, 8, 41}
INVARIANTS
  TypeOK
  OneResponse
  CookieReturns
  FaultExplained
  ParserIsGrammar
  RoundTrip

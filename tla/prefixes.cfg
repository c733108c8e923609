SPECIFICATION Spec
CONSTANTS
  NULL = NULL
  dc = dc
  DC = DC
  foaf = foaf
  under = under
  digit = digit
  http = http
  next = next
  made = made
  open = open
  close = close
  DefaultMapping = DefaultMapping
  Anonymous = Anonymous
  Names <- MCNames
  LowerCase <- MCLowerCase
  StartsName = {dc, DC, foaf, http, next, made}
  Underscore = under
  Open = open
  Close = close
  XhtmlVocab <- MCVocab
  Prologues <- MCPrologues
  InitialPrefixes <- MCInitialPrefixes
  Rdfa11Terms <- MCRdfa11Terms
  SharedTerms <- MCSharedTerms
  XhtmlTerms <- MCXhtmlTerms
  Base <- MCBase
  Iris <- MCIris
  Written <- MCWritten
  Capacity = 3
  MaxDepth = 2
  MaxDeclarations = 3
INVARIANTS TypeOK OverrunNeedsManyPrefixes PredicatesResolveOnce BlankValuesStayBlank VocabularyIsForNamesOnly
PROPERTIES ScopesSpec DeclarationsTakeEffect
CHECK_DEADLOCK FALSE

SPECIFICATION Spec
CONSTANTS
  NULL = NULL
  Anonymous = Anonymous
  alice = alice
  bob = bob
  knows = knows
  likes = likes
  dt = dt
  t1 = t1
  t2 = t2
  en = en
  fr = fr
  Type = Type
  First = First
  Rest = Rest
  Nil = Nil
  UsesVocab = UsesVocab
  ContextOf = ContextOf
  DocBase = DocBase
  Iris <- MCIris
  Texts <- MCTexts
  MarkupTexts <- MCMarkupTexts
  Languages <- MCLanguages
  Datatypes <- MCDatatypes
  RdfType <- Type
  RdfFirst <- First
  RdfRest <- Rest
  RdfNil <- Nil
  UsesVocabulary <- UsesVocab
  RdfaContextOf <- ContextOf
  Base <- DocBase
  Reresolved <- Identity
  Tags <- LiteralTags
  RootTags <- LiteralTags
  Documents <- Xml
  HasProcessorGraph = TRUE
  MaxElements = 3
  MaxTexts = 2
  MaxErrors = 0
INVARIANTS LiteralsHoldSubtreeText MarkupMakesXmlLiterals TriplesAreComplete
CHECK_DEADLOCK FALSE

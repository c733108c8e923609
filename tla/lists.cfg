SPECIFICATION Spec
CONSTANTS
  NULL = NULL
  Anonymous = Anonymous
  alice = alice
  bob = bob
  knows = knows
  likes = likes
  dt = dt
  t1 = t1
  t2 = t2
  en = en
  fr = fr
  Type = Type
  First = First
  Rest = Rest
  Nil = Nil
  UsesVocab = UsesVocab
  ContextOf = ContextOf
  DocBase = DocBase
  Iris <- MCIris
  Texts <- MCTexts
  MarkupTexts <- MCMarkupTexts
  Languages <- MCLanguages
  Datatypes <- MCDatatypes
  RdfType <- Type
  RdfFirst <- First
  RdfRest <- Rest
  RdfNil <- Nil
  UsesVocabulary <- UsesVocab
  RdfaContextOf <- ContextOf
  Base <- DocBase
  Reresolved <- Identity
  Tags <- ListTags
  RootTags <- ListRoots
  Documents <- Xml11
  HasProcessorGraph = TRUE
  MaxElements = 5
  MaxTexts = 1
  MaxErrors = 0
INVARIANTS ListItemsDelivered ListsInDocumentOrder
CHECK_DEADLOCK FALSE

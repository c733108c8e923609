SPECIFICATION Spec
CONSTANTS
  NULL = NULL
  Anonymous = Anonymous
  alice = alice
  bob = bob
  knows = knows
  likes = likes
  dt = dt
  t1 = t1
  t2 = t2
  en = en
  fr = fr
  Type = Type
  First = First
  Rest = Rest
  Nil = Nil
  UsesVocab = UsesVocab
  ContextOf = ContextOf
  DocBase = DocBase
  Iris <- MCIris
  Texts <- MCTexts
  MarkupTexts <- MCMarkupTexts
  Languages <- MCLanguages
  Datatypes <- MCDatatypes
  RdfType <- Type
  RdfFirst <- First
  RdfRest <- Rest
  RdfNil <- Nil
  UsesVocabulary <- UsesVocab
  RdfaContextOf <- ContextOf
  Base <- DocBase
  Reresolved <- Identity
  Tags <- HangingTags
  RootTags <- HangingRoots
  Documents <- Xml
  HasProcessorGraph = TRUE
  MaxElements = 4
  MaxTexts = 0
  MaxErrors = 2
INVARIANTS HangingRelationsCompleted HangingObjectsLinked HangingObjectIsNew StackFollowsElements
CHECK_DEADLOCK FALSE

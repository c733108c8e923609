SPECIFICATION Spec
CONSTANTS
  NULL = NULL
  Unmapped = Unmapped
  ex = ex
  rev = rev
  iri1 = iri1
  iri2 = iri2
  Prefixes = {ex, rev}
  Iris = {iri1, iri2}
  Languages = {"", "en", "fr"}
  Texts = {"t", "<"}
  MarkupTexts = {"<"}
  Versions = {"1.0", "1.1"}
  Tags <- MCTags
  Initial <- MCInitial
  MaxElements = 3
  MaxTexts = 2
INVARIANTS TypeOK LiteralsAreSubtrees LiteralsKeepNamespaces LiteralsKeepLanguage KindFollowsSubtree CrashesAreKnown
CHECK_DEADLOCK FALSE

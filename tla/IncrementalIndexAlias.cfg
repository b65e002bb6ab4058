SPECIFICATION Spec
CONSTANTS
  Files = {"a", "b", "c"}
  Contents <- MCContents
  Choices <- MCChoices
  Absent = "absent"
  Broken = {"bad"}
  Decls <- MCDecls
  Refs <- MCRefs
  None = "none"
  FileKeys <- MCFileKeys
  Targets <- MCTargets
  RelationKeys <- MCRelationKeys
  PathMatch <- MCPathMatch
  Leaf <- MCLeaf
  Manifests = {"plain", "alias"}
  NoFacts = "plain"
  FactMatch <- MCFactMatch
INVARIANT
  IncrementalEqualsRebuild

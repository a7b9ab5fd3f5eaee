SPECIFICATION Spec
CONSTANTS
  Tables <- MCTables
  Items <- MCItems
  Seed <- MCSeed
  FirstAttr <- MCFirstAttr
  KeyAttrs <- MCKeyAttrs
  Patches <- MCPatches
  NoItem = NoItem
  Categories <- MCCategories
  TemplateId <- MCTemplateId
  TemplateFile <- MCTemplateFile
  Prompts = "prompts"
  Registry = "registry"
INVARIANTS
  TypeOK
  MockAnswersAsTable
  MockOnlyForgets
  
  

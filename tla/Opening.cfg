SPECIFICATION Spec
CONSTANTS
  Processes = {p1}
  Backbones = {b1, b2}
  ProcessLayers = {l1}
  Sources = {s1}
  Parts = {1, 2}
  Unset = Unset
  MaxWizardSteps = 4
  Filters = {f1, f2}
  Layers = {l1}
  NoLayer = NoLayer
  PageCount = 2
  MaxDiffSteps = 4
  MaxMounts = 2
  None = None
  Unknown = Unknown
  Codes = {c1}
  Restarts = 2
  LateRenders = FALSE
  MaxVersion = 2
  MaxClientSteps = 2
  Torn = Torn
  File = {"page", "script"}
  Undo = FALSE
  MaxChanges = 3
INVARIANTS ChoiceIsCurrent PagesMatchTheRoot LabelsAreTrue
PROPERTIES SelectionIsRepaired OpeningSettles OutdatedRootIsReplaced
CHECK_DEADLOCK FALSE

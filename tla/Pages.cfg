SPECIFICATION PagesSpec
CONSTANTS
  LateAnswers = FALSE
  MaxSteps = 6
  Layers = {l1, l2}
  NoLayer = NoLayer
  Filters = {f1, f2}
  NoFilter = NoFilter
  Cell = c1
  NoCell = NoCell
  Batches = {1, 2}
  DetailPages = 2
  FirstLog = 2
  MaxHistorySteps = 6
  Commented = {c1}
  Project = Project
  PageSize = 1
  LeavesCells = FALSE
  FirstComments = 1
  MaxComments = 3
  MaxActs = 3
  None = None
  Sets = {s1}
  Columns <- TwoColumns
  Category <- TwoCategories
  Kind <- OneOfEach
  Required = {"number"}
  Orders <- RowsDropOrSwap
  Raw = {0, 1, 2, 3}
  Canonical <- AsTyped
  Malformed = {3}
  OutOfBounds = {2}
  MaxGridSteps = 5
  Nothing = Nothing
  Codes = {1, 2, 3}
  Initial = {1, 2}
  Added = 3
  Restarts = 2
  Absent = Absent
  MaxVersion = 2
  MaxAdminSteps = 4
  PageConditions = {1, 2, 3, 4}
  Split = 2
  PageColumns = {1, 2}
  Nowhere = Nowhere
  Filtered = TRUE
  MaxPageSteps = 3
  Values = {0, 1, 2}
  Bad = 2
  Texts = {0, 1, 2}
  Missing = Missing
  MaxVer = 2
  MaxFormSteps = 5
  Processes = {p1}
  Backbones = {b1, b2}
  ProcessLayers = {l1}
  Sources = {s1}
  Parts = {1, 2}
  Unset = Unset
  MaxWizardSteps = 5
INVARIANTS
  OneEditorAtATime NoLockIsForgotten CoordinatesKeepTheirMeaning DetailsHold
  CommentsAreTold AggregateMatchesVersion SubmissionIsWhatWasSeen
PROPERTIES PasteWritesWhatHolds LastInputIsKept AppliedAsPreviewed ParameterFormHolds
CHECK_DEADLOCK FALSE

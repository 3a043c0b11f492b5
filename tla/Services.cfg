SPECIFICATION Spec
CONSTANTS
  Scenario <- MCScenario
  Calls <- MCCalls
  Valid <- MCValid
  Outcome <- MCOutcome
  Threads = 2
  Client = {1, 2}
  Model <- MCModel
  Prompt = {"p", "q"}
  PromptHash <- MCHash
  Text = {"x", "y"}
  MaxCalls = 3
  MaxSaves = 2
  Files <- MCFiles
  Contents <- MCContents
  MaxFetches = 3
  Column = {"a", "b", "c"}
  MaxRecords = 3
  MaxCells = 2
  Games <- MCGames
  Fineness = 6
  Limits = {2, 12}
  Offers <- MCOffers
  MaxProfiles = 12
  Economies <- MCEconomies
  Settings <- MCSettings
  Unit = 65536
  Curves <- MCCurves
  Halls <- MCHalls
  MaxDays = 8
  Exporter = {1, 2}
  Specs <- MCSpecs
  Results <- MCResults
  MaxExports = 3
  Drafts <- MCDrafts
  Wordings <- MCWordings
  MaxEdits = 1
  TrialSeed = {1, 2}
INVARIANTS AnswersAsLoop HitsReplay OkMeansVerified RecordsKept SolutionsHold CatalogAsNamed EconomiesAsPromised PublishedWhole ScenariosAsDocumented
CHECK_DEADLOCK FALSE

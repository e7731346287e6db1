SPECIFICATION PlatformSpec
CONSTANTS
  Repos = {r1, r2}
  EmptyRemotes = {r2}
  MaxRounds = 2
  MaxFailures = 2
  PatchRepos = {"app", "lib"}
  Files <- FilesOfPatch
  Analyses <- AnalysesOfPatch
  MaxAttempts = 4
  MaxFixes = 2
  Contents <- ContentsTried
  Searches <- SearchesTried
  RelPaths <- PathsTried
  ChanCap = 1
  TailLimit = 1
  MaxBufferedLogs = 2
  MaxTailBytes = 5
  MaxPayloadBytes = 8
  Lines <- LinesOfOutput
  MaxEntries = 3
  MaxBreaks = 2
  Sessions = {"s1", "s2"}
  Events <- EventsOfRun
  Attempts <- AttemptsOfRuns
  Users = {u1, u2}
  KeepCount = 1
  PatternWindow = 2
  PatternThreshold = 2
  NudgeInterval = 1
  PatchAttempts = 2
  MaxMemories = 2
  MaxSuggestions = 1
  MaxFaults = 1
  SkillNames = {1, 2, 3, 4, 5}
  Lower <- LowerOf
  Slug <- SlugOf
  Worlds <- SkillWorlds
  Texts <- TaskTexts
  PromptFiles = {{"cli_implement", "cli_spec"}, {"cli"}}
  MaxJITSkills = 3
  ContextBudget = 8
  LearnedBudget = 4
  Tasks = {"t1", "t2"}
  ReposOf <- ReposOfTasks
  Commits = {"c1", "c2"}
  MaxStamp = 3
  SearchLimit = 1
  MaxBuilds = 2
  MaxCacheFaults = 1
  Signers = {p1, p2}
  Hashes = {h1, h2}
  MaxKeys = 4
  MaxSignFaults = 1
  Writings <- WritingsOfReviewers
  MaxCycles = 1
  MaxTries = 2
  MaxVersions = 4
  MaxReviewFaults = 3
INVARIANTS VerdictAboutThisCode RepeatsEscalate AttestedForGood CachesHonest  ContextMaterialized ErrorsRemembered ReviewHonoured    PatchAllOrNothing EditKeepsIndentation PathFound
CHECK_DEADLOCK FALSE

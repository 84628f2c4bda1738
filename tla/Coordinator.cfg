SPECIFICATION FairSpec
CONSTANTS
  processor = processor
  bot = bot
  web = web
  Pikelets = {processor, bot, web}
  Boss = Boss
  Handler = Handler
  Nil = Nil
  Kind <- MCKind
  MaxRuns <- MCMaxRuns
  Exiting = {processor}
  MaxSignals = 2
  MaxFailures = 2
INVARIANTS TypeOK AllFinished RequestWakes
PROPERTIES FirstRequestDecides ShutdownCompletes
CHECK_DEADLOCK FALSE

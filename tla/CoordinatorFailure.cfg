\* One failure, no signals: the pikelet that fails asks for a shutdown.
SPECIFICATION FairSpec
CONSTANTS
  processor = processor
  bot = bot
  web = web
  Pikelets = {processor, bot, web}
  Boss = Boss
  Handler = Handler
  Nil = Nil
  Kind <- MCKind
  MaxRuns <- OneRun
  Exiting = {}
  MaxSignals = 0
  MaxFailures = 1
PROPERTIES FailureShutsDown
CHECK_DEADLOCK FALSE

CONSTANTS
  c1 = c1
  c2 = c2
  c3 = c3
  api = api
  script = script
  k1 = k1
  seedKey = seedKey
  Clients = {c1, c2, c3}
  Seeder = Seeder
  Key <- MCKey
  NoKey = NoKey
  Blank = Blank
  Processes = {api, script}
  Host <- MCHost
  SequenceSize = 2
  Random <- MCRandom
  MaxAttempts = 2
  MaxClock = 1
  NoId = NoId
  MaxSends = 3
  MaxDisturbed = 2
SPECIFICATION FairSpec
INVARIANTS
  TypeOK
  Idempotent
  AnnouncedIsComplete
PROPERTIES
  IdsIncrease
  ImplementsRegistry
  RequestsAnswered
CHECK_DEADLOCK FALSE

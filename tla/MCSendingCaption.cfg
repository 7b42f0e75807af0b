SPECIFICATION AllSpec
CONSTANTS
  Parts = {"sending"}
  Sizes <- MCSizes
  MaxInMemory = 2
  TempNames = {f1, f2}
  NoFile = NoFile
  Sessions = {1, 2}
  DiscordMessages = {m1}
  Users = {u1}
  Listeners = {l}
  ReactionListeners = {r}
  Senders = {s}
  Watch = watch
  Timers <- MCTimers
  DisappearingTimer = 2
  MaxEvents = 2
  Messages <- MCMessages
  Received <- MCReceived
  MaxText = 5
  MaxCaption = 2
INVARIANT TextIsCarried
CHECK_DEADLOCK FALSE

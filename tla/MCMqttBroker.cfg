CONSTANTS
  a = a
  t = t
  f = f
  NoId = NoId
  NoWill = NoWill
  ClientIds = {a}
  Topics = {t}
  Filters = {f}
  Matched <- MatchedOne
  KeepAlives = {TRUE}
  MaxClients = 2
  MaxBacklog = 2
  MaxSessions = 2
SPECIFICATION FairSpec
VIEW View
INVARIANTS TypeOK OneSessionPerClient EndsAndWills
PROPERTY SilentIsRemoved

\* Two queued loads, a request of any kind and the watchdog, with everything that
\* can go wrong.
CONSTANTS
  m1 = m1
  t1 = t1
  t2 = t2
  a1 = a1
  e1 = e1
  e2 = e2
  None = None
  Watchdog = Watchdog
  Models = {m1}
  Tasks = {t1, t2}
  Admins = {a1}
  Engines = {e1, e2}
  MaxRestarts = 3
  MaxDeaths = 1
  LoadsFail = TRUE
  Probes = TRUE
  InFlight = TRUE
SPECIFICATION FairSpec
INVARIANTS
  HostTypeOK
  OneLoadInside
  NoStuckFlag

  
\* Requests, loads and deaths are used up, so the system stops.
CHECK_DEADLOCK FALSE

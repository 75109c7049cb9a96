\* Three connections for two tabs: one of them reconnects or is replaced.
SPECIFICATION FairSpec
CONSTANTS
  t1 = t1  t2 = t2  ann = ann  bob = bob  r1 = r1  r2 = r2
  Tabs = {t1, t2}
  Runs = {r1, r2}
  UserOf <- MCUserOf
  Readable <- MCReadable
  NoRun = NoRun  NoConn = NoConn
  MaxVisits <- MCVisits
  MaxConns <- MCConns
  Budget = 5
INVARIANTS PresenceIsOpenPages PagesShowPresence
PROPERTIES PagesGetIn
CHECK_DEADLOCK FALSE

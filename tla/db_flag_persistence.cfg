\* The services' writes while the database is available.
CONSTANTS
  Probe = {p1, p2}
  Lifespan = lifespan
  Retries = 3
  Unsteady = TRUE
SPECIFICATION DbSpec
INVARIANT PersistsWhenAvailable

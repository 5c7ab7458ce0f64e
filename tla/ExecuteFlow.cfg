SPECIFICATION Spec
CONSTANTS
  e1 = e1
  e2 = e2
  p1 = p1
  p2 = p2
  write = write
  look = look
  u1 = u1
  u2 = u2
  c1 = c1
  c2 = c2
  erp = erp
  test = test
  svc = svc
  public = public
  archive = archive
  Executes = {e1, e2}
  Plans = {p1, p2}
  Raw = {write, look}
  Reads = {look}
  Selects = {look}
  Length <- MC_Length
  By <- MC_By
  UserOf <- MC_UserOf
  Manual = {e2}
  Connections = {c1, c2}
  Owner <- MC_Owner
  Targets <- MC_Databases
  Nowhere = Nowhere
  Nothing = Nothing
  Ceiling = 1
  TTL = 1
  MaxClock = 1
INVARIANTS RunsOnce SpentByRunning WritesAreReviewed AnswersTellTheEffect
PROPERTY SessionsImplementCeiling
SYMMETRY MC_Symmetry

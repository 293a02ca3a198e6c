SPECIFICATION MCSpec
CHECK_DEADLOCK FALSE
CONSTANTS
  create = create
  expire = expire
  state = state
  service = service
  Calls = {create, expire, state, service}
  Tool <- OneOfEach
  Redirects = {301}
  MaxHops = 1
INVARIANTS
  ReportIsTrue

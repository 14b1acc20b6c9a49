\* PostgreSQL, as in production: a participant who also administers, two requests at a time.
SPECIFICATION Spec
CONSTANTS
    u1 = u1  ad = ad  s1 = s1  s2 = s2  s3 = s3  x1 = x1  x2 = x2  q1 = q1  q2 = q2
    p1 = p1  p2 = p2  r1 = r1  r2 = r2  e1 = e1  e2 = e2  None = None
    Users = {u1}
    Admins = {u1}
    Sessions = {s1, s2}
    Experiments = {x1}
    Requests = {q1, q2}
    Endpoints <- StudyEndpoints
    Dialect = "postgres"
    Projects = {p1}
    Runs = {r1}
    Events = {e1, e2}
    Exports = {"export"}
    Logs = {e2}
    Memorable = {e1}
    IpLimit = 2
    UserLimit = 1
    Window = 1
    TTL = 1
    MaxMoves = 5
SYMMETRY Alike
INVARIANTS WithinLimit EndedStaysEnded ExportIsSound EventsFollowProject
CHECK_DEADLOCK FALSE

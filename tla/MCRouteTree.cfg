SPECIFICATION Spec
CONSTANTS
    m1 = m1
    m2 = m2
    session = session
    exec = exec
    env = env
    status = status
    Segments = {session, exec, env, status}
    Makers = {m1, m2}
    Jobs <- SetupJobs
    Finders = {f1}
    Wanted <- Searches
    Nil = Nil
INVARIANTS
    TypeOK
    NoTwins
    FindsWhatWasMade
CHECK_DEADLOCK FALSE

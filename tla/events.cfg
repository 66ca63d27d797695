SPECIFICATION Spec
CONSTANT Scenes <- ScenesOf
CHECK_DEADLOCK FALSE
INVARIANTS HistoryIsExact HistoryStaysApart OncePerMessage LoggedOutIsUnverified

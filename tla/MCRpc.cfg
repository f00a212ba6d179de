CONSTANTS
    N = 3
    Callers = {c1, c2}
SPECIFICATION Spec
INVARIANTS TypeOK UndisturbedFailureTriedAll ResolvedByLastAttempt
PROPERTIES NoProviderTriedTwice CallsSettle
CHECK_DEADLOCK FALSE

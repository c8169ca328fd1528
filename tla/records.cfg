SPECIFICATION RecordsSpec
CONSTANTS
    p1 = p1
    p2 = p2
    q1 = q1
    q2 = q2
    Manifests <- MCManifests
    Archivable <- MCArchivable
    EventsOf <- MCEventsOf
    Removables = {"b"}
    Deletes <- MCDeletes
    Rebuilds = {q1, q2}
    Restorers = {p1, p2}
    MaxRestoreMishaps = 1
    Stores = {s1}
    Copies = {q1, q2}
    Sweepers = {p1, p2}
    Placeholder = Placeholder
    NoSweeper = NoSweeper
CONSTRAINT SweepScope
SYMMETRY RecordsSymmetry
CHECK_DEADLOCK FALSE
INVARIANTS
    AcceptedIsNotLost
    CompletionMeansGone
PROPERTIES
    ActivatedHidesRemovals
    PublishedIsNeverUndone
    SettledCopiesStaySettled

SPECIFICATION Spec
CONSTANT MaxRuns = 2
INVARIANTS TypeOK AnnouncedAfterStreamInfo QuietEndWasAsked CongestionStopsWithTakion
PROPERTIES KeepsPromise HandshakeEnds
CHECK_DEADLOCK FALSE

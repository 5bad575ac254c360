SPECIFICATION Spec
CONSTANT MaxNotices = 3
INVARIANT LockedIsTrue
PROPERTY RepeatsWhatIsSaid LockedIsTakenBack ReleasedInTheEnd
CHECK_DEADLOCK FALSE

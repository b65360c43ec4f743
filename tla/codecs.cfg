SPECIFICATION Spec
INVARIANTS TypeOK TextSurvives LongsExact NumberSurvives FormsComeBack
CHECK_DEADLOCK FALSE

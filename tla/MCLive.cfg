SPECIFICATION Spec
CONSTANT None = None
CHECK_DEADLOCK FALSE
PROPERTIES  ModelWorkEnds PhrasesEnd MeetingsEnd

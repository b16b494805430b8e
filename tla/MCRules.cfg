CONSTANTS
  HeaderNames = {"h1", "h2"}
  BadName = BadName
  BadWord = BadWord
  BadPattern = BadPattern
  BadId = BadId
  Anything = Anything
  Savers = {s1, s2}
  Texts <- MCTexts
  Messages <- MCMessages
  Missing = Missing
  Crashes = 1
SPECIFICATION Spec
CHECK_DEADLOCK FALSE
INVARIANTS ActiveMatchesFile OneSetPerMessage BodyUntouchedUnbuffered NeedsIsEnough
PROPERTY BadRequestChangesNothing

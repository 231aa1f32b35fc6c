CONSTANTS
  Urls = {u1, u2}
  First = u1
  MaxComments = 3
  MaxRedirects = 1
  PageSize = 2
  MaxChanges = 2
SPECIFICATION MCSpec
INVARIANTS
  VerdictFitsTheSite
  CommentsWhole
PROPERTIES
  FetchesEnd

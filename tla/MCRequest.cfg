SPECIFICATION SafeSpec
CONSTANTS
  None = None
  Directories <- MCDirectories
  Submissions <- MCSubmissions
  Posts <- MCPosts
  MaxTestCases = 2
INVARIANTS
  TypeOK
  JailWithinLanguage
  AnswerDeserved
  TestsKept
  ResultsPaired
CHECK_DEADLOCK FALSE

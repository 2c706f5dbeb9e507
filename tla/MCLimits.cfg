SPECIFICATION SafeSpec
CONSTANTS
  None = None
  Directories <- MCDirectories
  Submissions <- MCSubmissions
  Posts <- MCPosts
  MaxTestCases = 2
INVARIANTS
  LimitHonoured
CHECK_DEADLOCK FALSE

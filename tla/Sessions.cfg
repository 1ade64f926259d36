SPECIFICATION SessionsSpec
CONSTANTS
  c1 = c1
  c2 = c2
  ra = ra
  rb = rb
  k1 = k1
  x1 = x1
  g1 = g1
  g2 = g2
  g3 = g3
  v1 = v1
  None = None
  Chats <- TwoChats
  Repo <- TwoRepos
  Session <- AllSessions
  AgentOf <- AgentOf2
  Home <- Home2
  Folder <- Folder2
  Agents <- Agents2
  MaxMessages = 4
  Limits <- Instances
  s1 = s1
  s2 = s2
  codex = codex
  gemini = gemini
  SessionId = {s1, s2}
  Paired = {s1}
  FileAgent = {codex}
  StampAgent = {gemini}
  InitialSession <- First
  Writers <- Both
  NoSession = NoSession
  Poller = Poller
  Handler = Handler
  MaxLines = 2
  BridgeLimits <- Busy
  Unset = Unset
  Suspicious = {3}
  GateRule <- AllRules
  Listed <- AllListed
  Byte <- AByte
  EOL = "newline"
  Cont = {"b"}
  Replies <- LongReplies
  Question <- Questions
INVARIANTS RunsWhereItLives MessageOnce OwnLeadAnswers
INVARIANTS NothingSkipped NoneTwice CopiesInOrder  CutWell
PROPERTY EverythingArrives 
CHECK_DEADLOCK FALSE

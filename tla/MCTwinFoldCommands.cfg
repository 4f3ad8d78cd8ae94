SPECIFICATION TwinSpec
CONSTANTS
  t1 = t1
  Absent = Absent
  thread = thread
  Sessions = {thread}
  Chats = {}
  Types = {"pinnedChanged"}
  Tasks = {t1}
  Workspaces = {w}
  w = w
  Values = {1, 2}
  MaxScoping = 2
  MaxPushes = 1
INVARIANTS
  CommandsArrive

SPECIFICATION Spec
CONSTANTS
  full = full
  vague = vague
  soon = soon
  over = over
  walk = walk
  a1 = a1
  None = None
  Posts = {1, 2, 3}
  Texts = {full, vague}
  Days = {soon, over}
  Kinds = {walk}
  WhenOf <- MCWhen
  KindOf <- MCKinds
  Past = {over}
  PostForms <- MCPosts
  AdminForms <- MCForms
  Worlds <- MCWorlds
  PageSize = 2
  MaxCatchUp = 1
  Slots = {a1}
  MaxChannel = 2
  MaxAdmin = 1
  MaxFails = 1
INVARIANTS TypeOK AdminsWordStands

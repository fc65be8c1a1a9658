SPECIFICATION LiveSpec
CONSTANTS
  full = full
  vague = vague
  soon = soon
  over = over
  walk = walk
  a1 = a1
  None = None
  Posts = {1, 3}
  Texts = {full, vague}
  Days = {soon, over}
  Kinds = {walk}
  WhenOf <- MCWhen
  KindOf <- MCKinds
  Past = {over}
  PostForms <- FewPosts
  AdminForms <- FewForms
  Worlds <- MCWorlds
  PageSize = 1
  MaxCatchUp = 1
  Slots = {a1}
  MaxChannel = 2
  MaxAdmin = 1
  MaxFails = 1
PROPERTIES OwnEventIsFiled DeletedLeavesTheSite

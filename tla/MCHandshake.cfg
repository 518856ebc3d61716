\* Two clients, three tokens, two ids.
CONSTANTS
  c1 = c1  c2 = c2  ann = ann  xertrov = xertrov
  Conn = {c1, c2}
  Token = {"ann", "xertrov", "forged ann"}
  Genuine = {"ann", "xertrov"}
  Account = {ann, xertrov}
  AccountOf <- MCAccountOf
  Xertrov = xertrov
  CacheCap = 1
  Configs = {TRUE, FALSE}
  Base = 2
  Drawn = {1, 3}
  Typed <- MCTyped
  Password = {"", "pw"}
  NoPassword = ""
  Env = {0, 1}
  Slow = {}
  None = none
SPECIFICATION FairSpec
INVARIANTS TypeOK OnlyVerified AdmittedAsAsked EnvGate Answers
PROPERTIES Settles
CHECK_DEADLOCK FALSE

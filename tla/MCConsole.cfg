\* A lab user and root, both of whom may log in; autologin of the lab user.
SPECIFICATION FairSpec
CONSTANTS
  Users = {"root", "lab"}
  Words = {"", "pw"}
  NoUser = NoUser
  RootUser = "root"
  Autologin = "lab"
  NoRoot = FALSE
  MaxQueue = 2
INVARIANTS TypeOK LinesReachTheirReader EchoFitsPrompt UtmpTracksSession
PROPERTIES SessionKeepsUser LogoutReprompts

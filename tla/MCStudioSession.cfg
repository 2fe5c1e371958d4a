CONSTANTS
  u1 = u1
  u2 = u2
  home = home
  Users <- MCUsers
  Pages <- MCPages
  Home = home
  Login = login
  NoUser = nobody
  NoPage = nopage
  Invited <- MCInvited
  MaxElsewhere = 1
SPECIFICATION Spec
INVARIANTS
  NoForeignData
  RedirectIsPage
PROPERTIES
  SpinnerEnds
  

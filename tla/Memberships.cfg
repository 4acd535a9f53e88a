SPECIFICATION MCSpec
CONSTANTS
  r1 = r1
  r2 = r2
  r3 = r3
  g1 = g1
  g2 = g2
  g3 = g3
  g4 = g4
  p1 = p1
  p2 = p2
  p3 = p3
  p4 = p4
  p5 = p5
  u1 = u1
  u2 = u2
  u3 = u3
  i1 = i1
  club = club
  free = free
  none = none
  NoLimit = NoLimit
  Reqs = {r1, r2, r3}
  Groups = {g1, g2, g3, g4}
  People = {p1, p2, p3, p4, p5}
  Users = {u1, u2, u3}
  Invites = {i1}
  KindOf <- MCKindOf
  MaxPerUser <- MCMaxPerUser
  MaxMembers <- MCMaxMembers
  DeleteWhenEmpty <- MCDeleteWhenEmpty
  KeyRank <- MCKeyRank
  PersonRank <- MCPersonRank
  InviteTo <- MCInviteTo
  Codes <- MCCodes
  Earlier = {none}
  MaxFriends = 1
  MaxPending = 1
  Chosen <- MCChosen
SYMMETRY Symmetry
INVARIANTS TypeOK WithinMaxMembers WithinMaxPerUser LinksKeepRows OfferedOnce FriendsMutual OrderedLocks
PROPERTIES BansStand EmptyGroupsGo OnlyIdleSwept ConditionalEdits LinkJoins

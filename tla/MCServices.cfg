SPECIFICATION ServicesSpec
CONSTANTS
  XrayHandlers = {h1}
  NameLists <- MCNameLists
  MaxSecrets = 4
  MaxLinks = 1
  MdnsHandlers = {h1}
  MdnsClients = {m1}
  DomainSets <- MCDomainSets
  MaxMdnsKeys = 2
  MaxBundles = 1
  DnsHandlers = {h1}
  SocksPorts = {0, 1, 2}
  Users = {u1}
  Tags = {"t"}
  NoTag = NoTag
  Admins = {a1}
  Reconcilers = {t1, t2}
  Inbounds <- MCInbounds
  MaxUserSecrets = 2
INVARIANTS
  LinksMatchInbound
  BundlesMatchServer
  TorNotBypassed
  RosterMatches
  SecretsMatch
CHECK_DEADLOCK FALSE

SPECIFICATION FairSpec
CONSTANTS
  bridge = bridge
  wallet = wallet
  Servers = {s1, s2}
  Shops = {m1, m2}
  Clients <- MCClients
  Senders = {bridge}
  Addresses = {a1}
  LIMIT = 2
PROPERTIES
  SecretKept
  Readmitted

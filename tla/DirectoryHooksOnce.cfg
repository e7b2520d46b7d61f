SPECIFICATION HooksSpec
CONSTANTS
  p1 = p1
  p2 = p2
  login = login
  logout = logout
  order = order
  tests = tests
  api = api
  shop = shop
  Processes = {p1, p2}
  Cases = {login, logout, order}
  Directories = {tests, api, shop}
  ChainOf <- Chains
  SetupIn = {tests, api}
  TeardownIn = {tests, api}
  NoCase = NoCase
INVARIANT OnceAcrossProcesses

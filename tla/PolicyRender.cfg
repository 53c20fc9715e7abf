SPECIFICATION Spec
CONSTANTS
  Name <- MCName
  CategoryOf <- MCCategoryOf
  Protected = {"google"}
  Unclaimed = "unclaimed"
  Method = {"GET", "POST"}
  Route <- MCRoute
  PrefixOf <- MCPrefixOf
  NoPrefix = NoPrefix
  Dynamic = {2}
  Profile = {"gentle", "strict"}
  NoProfile = "none"
  TopRoutes = 1
  ZoneWarned = 2
  ZoneRefused = 3
  Policies <- MCPolicies
  Workspaces <- MCWorkspaces
  Nothing = Nothing
INVARIANT RendersWhatWasSimulated

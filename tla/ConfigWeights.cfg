SPECIFICATION Spec
CONSTANTS
  RawConfigs <- MCRawConfigs
  Roles <- MCRoles
INVARIANT
  AllScorersWeighted

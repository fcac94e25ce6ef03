SPECIFICATION Spec
CONSTANTS
  Symbol <- MCSymbol
  Policies <- MCPolicies
  Args <- MCArgs
  Canon <- MCCanon
INVARIANTS SensitiveHidden OnlySecretsHidden OutputIsFixpoint
CHECK_DEADLOCK FALSE

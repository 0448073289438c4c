SPECIFICATION Spec
CONSTANTS
  Keys = {k1, k2, k3}
  States = {"reject", "parse_ipv4", "parse_ipv6"}
  MaxCases = 3
INVARIANTS
  SwitchIsSelect
CHECK_DEADLOCK FALSE

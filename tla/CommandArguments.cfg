SPECIFICATION Spec
CHECK_DEADLOCK FALSE
CONSTANTS
  Words = {"policy.json"}
  Instants = {"2026-06-01T00:00:00Z", "20260601T00Z"}
  Unknown = {"--verbose"}
  MaxPolicyArguments = 6
  MaxLegacyArguments = 4
  PolicyLines <- MCPolicyLines
  LegacyLines <- MCLegacyLines
INVARIANTS
  TypeOK
  AcceptsTheGrammar
  LastOptionWins

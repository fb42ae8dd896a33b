SPECIFICATION Spec
CHECK_DEADLOCK FALSE
CONSTANT Documents <- MCDocuments
INVARIANTS
  SchemaMirrorsModel
  PrivateEndpointNeedsEmpirical

SPECIFICATION Spec
INVARIANTS
  RuntimeExact
  CapacityTrue
  PermissionRestrained
  TurnsApart
  PolicyHonoured
  TextsKept
  ViewsAgree
\* A calculation ends with its result, and a document is read and that is all.
CHECK_DEADLOCK FALSE

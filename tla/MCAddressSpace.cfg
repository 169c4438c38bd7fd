CONSTANTS
  N1 = 2
  N2 = 4
  N3 = 4
  PAGE = 2
  HeapPages = 5
  Boots <- MCBoots
SPECIFICATION Spec
INVARIANTS TablesAreExclusive HhdmIsDirectMap WriteXorExecute StopsOnlyWithoutMemory
PROPERTIES SwitchIsSeamless MappingsStay
CHECK_DEADLOCK FALSE

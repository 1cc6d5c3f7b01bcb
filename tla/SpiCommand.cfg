SPECIFICATION Spec
CONSTANTS
  MaxWrite = 4
  MaxRead = 3
INVARIANTS LockStep
PROPERTIES ImplementsExchange

SPECIFICATION Spec
CONSTANTS
  Client = {c1, c2, c3}
  Fds = 3
  MaxHeld = 1
  MaxEvents = 2
  MaxErrors = 1
  NULL = NULL
  LISTENER = LISTENER
  OTHERS = OTHERS
INVARIANTS
  EventsAreCurrent
  SlowClientsAreKept
  DescriptorsAreOwned
PROPERTIES
  BacklogDrainsWithRoom
  RequestsAreServed

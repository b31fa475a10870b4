CONSTANTS
  SlotNumbers <- MCSlots
  Units = {1}
  Consoles <- MCConsoles
  NoDriveModes = {0, 1, 2}
SPECIFICATION Spec
INVARIANTS
  SystemAsFound
  MountsComeBack
  OneDiscAtATime

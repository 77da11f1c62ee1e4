SPECIFICATION MidiSpec
CONSTANTS
  Surfaces = {s1}
  Faders = {"fader"}
  Buttons = {"pad"}
  Clients = {c1, c2}
  Controls = {"layer"}
  Buffer = 1
  MaxEvents = 2
  MaxRequests = 2
  MaxEdits = 1
  None = None
CHECK_DEADLOCK FALSE
INVARIANTS
  MappingsAgree
PROPERTIES
  LearnsAndTakesOver

\* Two processes in one workspace, two containers after each other, a failure.
CONSTANTS
  None = None
  Agents = {a1, a2}
  MASKED = {venv}
  MaxContainers = 2
  MaxFaults = 1
SYMMETRY Symmetry
SPECIFICATION Spec
INVARIANTS AskedIsConfined NetworkAsAsked ReadyIsUsable MaskedIsLocal

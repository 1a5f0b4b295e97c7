CONSTANT Faults = {"open"}
SPECIFICATION Spec
PROPERTY TogglesPerPress

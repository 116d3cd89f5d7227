CONSTANTS
  WORLD_SIZE <- MC_WORLD_SIZE
  Velocities <- MC_Velocities
SPECIFICATION Spec
PROPERTY ReflectionExample

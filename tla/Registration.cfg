SPECIFICATION Spec
CONSTANTS
  Users = {u1, u2}
  MaxLoads = 2
  MaxMsgs = 2
 
INVARIANT FieldsReady
INVARIANT ModuleInUseStays
\* The module may stay out, and an oops or a failed load leaves its users stuck.
CHECK_DEADLOCK FALSE

SPECIFICATION Spec
CONSTANT Half = 64
CONSTANT Fuel = 12
CONSTANT Locals <- MCLocals
CONSTANT Params <- MCParams
CONSTANT Inputs <- MCInputs
CONSTANT Programs <- MCHoist
INVARIANT WellFormed

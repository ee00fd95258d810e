SPECIFICATION Spec
CONSTANT Half = 64
CONSTANT Fuel = 12
CONSTANT Locals <- MCLocals
CONSTANT Params <- MCParams
CONSTANT Inputs <- MCInputs
CONSTANT Programs <- MCPrograms
INVARIANT KeepsMeaning
INVARIANT WellFormed
INVARIANT NoInternalError
INVARIANT CodeKeepsMeaning
INVARIANT CodeNamesItsSource
INVARIANT NothingDeadIsLeft
INVARIANT InvariantsAreHoisted

\* Four dumps, each interrupted anywhere or complete, empty or not.
CONSTANT MaxDumps = 4
SPECIFICATION Spec
INVARIANTS TypeOK CompleteDumpExact MetaNeverAhead

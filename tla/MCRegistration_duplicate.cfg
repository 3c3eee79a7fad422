\* Two concurrent schema registrations leave the job entry and the id entry side by side.
CONSTANTS
    c1 = c1
    c2 = c2
    cd = cd
    SchemaCallers <- MCTwoCallers
    CredDefCaller = cd
    RegOutcomes = {"finished", "wait"}
SPECIFICATION Spec
INVARIANT NoDuplicateEntry

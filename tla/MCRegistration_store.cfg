\* Registration answered with the id or a job id, then re-keyed: rows agree and no entry is left duplicated.
CONSTANTS
    c1 = c1
    c2 = c2
    cd = cd
    SchemaCallers <- MCOneCaller
    CredDefCaller = cd
    RegOutcomes = {"finished", "wait"}
SPECIFICATION Spec
INVARIANTS TypeOK CredDefRowsAgree NoDuplicateEntry

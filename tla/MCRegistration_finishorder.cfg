\* The finish event handled before the job entry is stored.
CONSTANTS
    c1 = c1
    c2 = c2
    cd = cd
    SchemaCallers <- MCOneCaller
    CredDefCaller = cd
    RegOutcomes = {"finished", "wait"}
SPECIFICATION FairSpec
PROPERTY EventuallyFinished

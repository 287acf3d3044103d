CONSTANTS
    Dirs <- MCDirs
    NamesIn <- MCNamesIn
    FilterFiles <- MCFilterFiles
    ArgLists <- MCArgLists
    ConfDir = "./conf"
    OldTemplate = "tmpl"
    NewTemplate = "generated"
SPECIFICATION Spec
INVARIANTS TypeOK TemplateKeepsAll
PROPERTY ImplementsEnumeration
CHECK_DEADLOCK FALSE

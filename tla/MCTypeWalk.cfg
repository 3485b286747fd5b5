\* The real ids and tables, with ids at the edges of every class.
SPECIFICATION Spec
CONSTANTS
    Ids <- EdgeIds
    Start <- StartClasses
INVARIANTS
    LinkResolves
    RowsMirror

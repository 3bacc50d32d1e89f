SPECIFICATION Spec
CONSTANTS
    p = p
    q = q
    Names = {p, q}
    NoName = NoName
    Null = Null
    Blank = Blank
    Given = Given
    MaxRuns = 2
    Sqls <- AllSqls
    Lists <- AllLists
INVARIANTS
    OptionalParamsWork

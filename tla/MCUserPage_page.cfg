CONSTANTS
    Ann = Ann
    Absent = Absent
    UserIds <- MCTwoUsers
    Profiles <- MCProfiles
    Filters <- MCFilters
    PageLen = 2
    MaxTables = 2
    MaxPulls = 2
    MaxPosts = 1
SPECIFICATION Spec
INVARIANTS TypeOK ScreenIsCache AskedIsSent

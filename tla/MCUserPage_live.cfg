CONSTANTS
    Ann = Ann
    Absent = Absent
    UserIds <- MCOneUser
    Profiles <- MCProfiles
    Filters <- MCFilters
    PageLen = 1
    MaxTables = 3
    MaxPulls = 3
    MaxPosts = 1
SPECIFICATION FairSpec
PROPERTIES TableSettles DeletedLeavesTable

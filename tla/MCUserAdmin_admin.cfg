CONSTANTS
    q1 = q1
    q2 = q2
    q3 = q3
    Admin = Admin
    Ann = Ann
    Absent = Absent
    CounterKept = TRUE
    UserIds <- MCUserIds
    RowIds <- MCRowIds
    Profiles <- MCProfiles
    Roles <- MCRoles
    Requests <- MCRequests
SPECIFICATION Spec
INVARIANTS TypeOK TwoRolesOnlyByRace
PROPERTIES ImplementsUserStore BrokenIsStuck NewUserHasNoRole

SPECIFICATION Spec
CONSTANTS
    s1 = s1
    s2 = s2
    metar = metar
    taf = taf
    None = None
    Stations <- MCStations
    ObsFeeds = {metar}
    Taf = taf
    NumReports <- MCNumReports
    Asked = {s1}
    IssueOf <- MCIssueOf
    Rejected <- MCRejected
    NumPeriods = 2
    MaxFailures = 1
INVARIANTS TypeOK ReadsWhole ReadsForward LocatedFirst
PROPERTIES TafsArrive ReportsArrive ServesNewestTaf

SPECIFICATION Spec
CONSTANTS
    ann = ann
    bob = bob
    cay = cay
    plain = plain
    edited = edited
    old = old
    new = new
    Users = {ann, bob, cay}
    Developers = {ann, cay}
    Reviewers = {bob}
    Approvers = {bob, cay}
    Configs = {plain, edited}
    Commits = {old, new}
    Routes = {"package", "api"}
    Refreshing = TRUE
    MaxReviews = 2
    MaxApprovals = 1
    MaxChanges = 2
    MaxJobs = 1
SYMMETRY Interchangeable
INVARIANTS TwoPairsOfEyes ApprovedHasItsRecords  
CHECK_DEADLOCK FALSE

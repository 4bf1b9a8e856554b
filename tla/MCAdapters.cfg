SPECIFICATION MCSpec
CONSTANTS
    Selectable = {"greenhouse", "lever", "smartrecruiters", "ashby", "workday"}
    Troubles = {"second_commit", "page_posts"}
    Unused = Unused
    Callers = {"c1", "c2"}
    TheWorker = "c1"
    MaxChanges = 1
    MaxPosts = 1
    Looks = {{"form"}, {"apply"}, {"challenge", "form"}, {"already_applied"}, {"confirmation"}}
    FieldSets = {"f1", "f2"}
    Actions = {"a1"}
    AshbyForms = {"base", "more"}
    Controls <- ControlsOf
    MaxPasses = 3
    WorkdayLooks = {{"form"}, {"resume_upload"}, {"review"}, {"job"}, {"confirmation"}, {"challenge", "review"}}
    MaxSteps = 3
    GreenhouseLooks = {{"form", "submit"}, {"apply"}, {"captcha", "form", "submit"}, {"confirmation"}}
    Fields = {"email", "resume", "extra"}
    Resume = "resume"
    Abstained = {"extra"}
    Shapes = {{"email", "resume"}, {"email", "resume", "extra"}}
    Targets = {"apply_url", "other_url"}
    Nobody = "nobody"
    MaxRounds = 3
INVARIANTS SendsReviewed AdaptersInv
PROPERTIES KeepsPromise
CHECK_DEADLOCK FALSE

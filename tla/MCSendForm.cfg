CONSTANTS
    a = a
    b = b
    email = email
    sms = sms
    k1 = k1
    k2 = k2
    v = v
    None = None
    Tenants = {a, b}
    Channels = {email, sms}
    Keys = {k1, k2}
    Vars = {v}
    TemplatesOf <- MCTemplatesOf
    ChannelOf <- MCChannelOf
    VarsOf <- MCVarsOf
    EnabledOf <- MCEnabledOf
    MaxLoads = 2
    MaxEdits = 5
    MaxFaults = 1
SPECIFICATION FairSpec
INVARIANTS SelectedAreOffered ValuesFitTemplate TemplateHasEvent SubmissionFitsTenant
PROPERTIES LoadingEnds
CHECK_DEADLOCK FALSE

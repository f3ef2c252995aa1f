CONSTANTS
    a = a
    sa = sa
    sb = sb
    ma = ma
    mb = mb
    live = live
    k1 = k1
    k2 = k2
    c = c
    Tenants = {a}
    Own = a
    Slugs = {sa}
    SlugOf <- MCSlugOf
    Features = {f}
    Channels = {c}
    Templates = {}
    TemplatesOf <- MCTemplatesOf
    Providers = {live, mock}
    FirstProviders = {live}
    ChannelOf <- MCChannelOf
    Fields = {k1, k2}
    FieldsOf <- MCFieldsOf
    RequiredOf <- MCRequiredOf
    Rows = {r1, r2}
    None = None
    Absent = Absent
    Gone = Gone
    OpsBounds <- MCOpsBounds
    MaxFaults = 1
SPECIFICATION FairSpec
PROPERTIES BlankKeepsSecret
CHECK_DEADLOCK FALSE

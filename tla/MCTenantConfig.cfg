CONSTANTS
    a = a
    sa = sa
    sb = sb
    ma = ma
    mb = mb
    live = live
    k1 = k1
    k2 = k2
    c = c
    Tenants = {a, b}
    Own = a
    Slugs = {sa, sb, sn}
    SlugOf <- MCSlugOf
    Features = {f}
    Channels = {c}
    Templates = {ma, mb}
    TemplatesOf <- MCTemplatesOf
    Providers = {live, mock}
    FirstProviders = {live}
    ChannelOf <- MCChannelOf
    Fields = {k1, k2}
    FieldsOf <- MCFieldsOf
    RequiredOf <- MCRequiredOf
    Rows = {r1, r2}
    None = None
    Absent = Absent
    Gone = Gone
    OpsBounds <- MCOpsBounds
    MaxFaults = 1
SPECIFICATION FairSpec
INVARIANTS TypeOK OwnDataOnly TemplatesKept OverviewIsStored ConfigsAreComplete
PROPERTIES SavesEnd
CHECK_DEADLOCK FALSE

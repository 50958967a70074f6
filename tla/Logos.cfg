\* A form for a new plant whose slug is taken, and the logo of the plant that has the slug.
SPECIFICATION LogoSpec
CONSTANTS
    LogoForms = {u1, u2}
    LogoSlugs = {x}
    LogoTypes = {png, jpg}
    NoLogo = NoLogo
INVARIANT OrphansReferenceNothing
CHECK_DEADLOCK FALSE

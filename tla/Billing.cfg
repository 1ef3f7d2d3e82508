\* A Stripe and a Razorpay subscription, two requests at a time, one restart.
CONSTANTS
    StripeSubs = {st}
    RazorpaySubs = {rz}
    PlanOf <- MCPlanOf
    Requests = {r1, r2}
    MaxEras = 2
    MaxEvents = 4
    None = None
    st = st
    rz = rz
SPECIFICATION Spec
INVARIANTS
    OncePerId
    PaidTierWasBought
    
    TiersAgree
CHECK_DEADLOCK FALSE

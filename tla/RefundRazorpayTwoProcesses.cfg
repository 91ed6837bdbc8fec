SPECIFICATION Spec
CONSTANTS
    r1 = r1
    p1 = p1
    Requests = {r1, r2}
    Payments = {p1}
    Workers = {w1, w2}
    NoRequest = NoRequest
    PaymentOf <- OnePayment
    AmountOf <- Small
    Total <- Sums
    Captured <- CapturedThree
    Uploads <- NoUpload
    AuthoritativeBalance = TRUE
    RequiresWebhook = TRUE
    MaxAborts = 1
    LosesReplies = TRUE
SYMMETRY Symmetry
INVARIANTS
    TypeOK
    AtMostOneDispatch
    SuccessIsReal
    TakenIsBooked
PROPERTY
    SettledStaysSettled
CHECK_DEADLOCK FALSE

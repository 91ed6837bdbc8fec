SPECIFICATION Spec
CONSTANTS
    r1 = r1
    p1 = p1
    Requests = {r1, r2}
    Payments = {p1}
    Workers = {w1}
    NoRequest = NoRequest
    PaymentOf <- OnePayment
    AmountOf <- Small
    Total <- Sums
    Captured <- CapturedOne
    Uploads <- NoUpload
    AuthoritativeBalance = TRUE
    RequiresWebhook = TRUE
    MaxAborts = 0
    LosesReplies = FALSE
INVARIANTS
    ReconciliationSettles
CHECK_DEADLOCK FALSE

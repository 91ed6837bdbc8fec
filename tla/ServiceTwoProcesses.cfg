SPECIFICATION Spec
CONSTANTS
    p1 = p1
    Requests = {r1}
    Workers = {w1, w2}
    Tickets = {t1, t2}
    NoRequest = NoRequest
    NoTicket = NoTicket
    MaxCrashes = 0
    MaxAborts = 0
    LosesReplies = FALSE
    Payments = {p1}
    PaymentOf <- OnePayment
    AmountOf <- Small
    Total <- Sums
    Captured <- CapturedThree
    Uploads <- NoUpload
    AuthoritativeBalance = FALSE
    RequiresWebhook = FALSE
SYMMETRY Symmetry
INVARIANTS
    MoneyNeedsApproval
CHECK_DEADLOCK FALSE

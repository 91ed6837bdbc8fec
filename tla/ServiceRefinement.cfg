SPECIFICATION Spec
CONSTANTS
    p1 = p1
    Requests = {r1}
    Workers = {w1}
    Tickets = {t1, t2}
    NoRequest = NoRequest
    NoTicket = NoTicket
    MaxCrashes = 2
    MaxAborts = 2
    LosesReplies = TRUE
    Payments = {p1}
    PaymentOf <- OnePayment
    AmountOf <- Small
    Total <- Sums
    Captured <- CapturedThree
    Uploads <- NoUpload
    AuthoritativeBalance = TRUE
    RequiresWebhook = TRUE
INVARIANTS
    HumanBeforeMoney
PROPERTY
    RefundedStaysRefunded
    ImplementsRefundExecution
CHECK_DEADLOCK FALSE

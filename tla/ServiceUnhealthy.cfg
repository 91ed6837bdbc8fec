SPECIFICATION Spec
CONSTANTS
    p1 = p1
    Requests = {r1}
    Workers = {w1}
    Tickets = {t1, t2}
    NoRequest = NoRequest
    NoTicket = NoTicket
    MaxCrashes = 1
    MaxAborts = 1
    LosesReplies = FALSE
    Payments = {p1}
    PaymentOf <- OnePayment
    AmountOf <- Small
    Total <- Sums
    Captured <- CapturedThree
    Uploads <- NoUpload
    AuthoritativeBalance = FALSE
    RequiresWebhook = FALSE
PROPERTY
    UnhealthyMovesNoMoney
CHECK_DEADLOCK FALSE

SPECIFICATION Spec
CONSTANTS
    r1 = r1
    p1 = p1
    Requests = {r1, r2, r3}
    Payments = {p1}
    Workers = {w1, w2}
    NoRequest = NoRequest
    PaymentOf <- OnePayment
    AmountOf <- Contending
    Total <- Sums
    Captured <- CapturedThree
    Uploads <- NoUpload
    AuthoritativeBalance = FALSE
    RequiresWebhook = FALSE
    MaxAborts = 1
    LosesReplies = FALSE
PROPERTY
    ImplementsEscrow
INVARIANTS
    NoOverRefund
    ReservationsAreCovered
CHECK_DEADLOCK FALSE

SPECIFICATION MailSpec
CONSTANTS
  Rcpts = {r1, r2}
  Ssl = TRUE
  MaxSends = 3
  Mails <- TestMails
  MaxUnread = 1
  Nil = Nil
INVARIANTS TypeOK NobodyLost DeliveredAsTold Pop3TypeOK NeverWaitsInVain AnswerIsOwn
CHECK_DEADLOCK FALSE

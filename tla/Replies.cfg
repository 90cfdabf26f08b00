SPECIFICATION Spec
CONSTANTS
  Messages <- MCMessages
  Inbox <- MCInbox
  Company <- MCCompany
  NoCompany = "none"
  TemplateText <- MCTemplateText
  ApiTexts = {"will_confirm"}
  Categories = {"acknowledgment"}
  ValidText = {"located", "will_confirm"}
  Claiming = {"will_confirm"}
  Reqs = {r1}
  Hour = 1
  Day = 2
  Week = 3
  PerHour = 2
  PerCompanyDay = 2
  PerCompanyWeek = 2
  MaxFollowUps = 2
  CompanyMaxFollowUps = 2
  FollowUpAfter = 2
  Consent = TRUE
  Irreversible = TRUE
  Modes = {"review_first", "full_auto_apply"}
  Horizon = 3
  Lifetimes = {2}
VIEW MCView
CONSTRAINTS MatchingRequests RouteAnswersSlot OneSide
INVARIANTS TypeOK WindowsKept FollowUpCaps
PROPERTIES DispatchApproved DispatchFinal
CHECK_DEADLOCK FALSE

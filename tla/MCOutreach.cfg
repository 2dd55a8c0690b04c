SPECIFICATION MCSpec
CONSTANTS
 Parts = {"replies", "gates"}
 Outreach <- MCRuns
 ReplyRegimes <- MCReplyRegimes
 PollBudget = 2
 MaxReplies = 2
 MaxRounds = 1
 MaxDeaths = 1
 Budget = 1
 Grounds <- MCGrounds
 Faults <- MCFaults
 MaxRaised = 3
 signup = signup
 devapp = devapp
 cred = cred
 mailing = mailing
 session = session
 Keys = {signup, devapp, cred, mailing, session}
 KindOf <- MCKindOf
 c1 = c1
 c2 = c2
 Callers = {c1, c2}
 Receipts = {"r"}
 NoReceipt = NoReceipt
 MaxKeysInUse = 2
 Resolvers <- MCResolvers
 MailRegimes <- MCMailRegimes
 MaxMail = 2
 MaxReads = 3
INVARIANTS
 RepliesSafety
 AdvanceSafety
PROPERTIES
 WaitingIsServed
CHECK_DEADLOCK FALSE

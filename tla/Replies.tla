------------------------------- MODULE Replies -------------------------------
(***************************************************************************)
(* Recruiter messages and the replies to them: inbox sync and its          *)
(* classification, the reply worker, the review-first dispatch route, the  *)
(* bot's /approve and /reject of a drafted reply, and the follow-up        *)
(* planner, over one copy of the tables.  A handler runs without an await, *)
(* so it is one step; only the inbox worker waits, for the LLM, between    *)
(* recording a message and storing its classification.  The worker's and   *)
(* the planner's loops run without an await too: while "todo" is not empty *)
(* nothing else moves, and its items are taken in any order.               *)
(***************************************************************************)
EXTENDS Integers, FiniteSets, Policies

CONSTANTS
  Messages, Inbox,     \* Inbox[m]: conversation, category, sensitive,
                       \* unavailable, received
  Company,             \* Company[c]; NoCompany when the sender is unknown
  NoCompany,
  TemplateText,        \* the drafted text of each category with a template
  ApiTexts, Categories,   \* what callers of the dispatch route send
  ValidText,           \* texts validateOutbound accepts
  Claiming,            \* texts that say available, can attend or confirm
  Reqs,                \* approval request ids
  Hour, Day, Week, PerHour, PerCompanyDay, PerCompanyWeek,
  MaxFollowUps, CompanyMaxFollowUps, FollowUpAfter,
  Consent, Irreversible, Modes,
  Lifetimes,           \* how long the requests callers make are valid
  Horizon              \* bound: until when the clock runs

ASSUME TimesAssumption ==
  /\ Hour \in Nat /\ Day \in Nat /\ Week \in Nat /\ Horizon \in Nat
  /\ Lifetimes \subseteq Nat
  /\ FollowUpAfter \in Nat
  /\ \A m \in Messages : Inbox[m].received \in Nat
ASSUME LimitsAssumption ==
  /\ {PerHour, PerCompanyDay, PerCompanyWeek} \subseteq Nat
  /\ {MaxFollowUps, CompanyMaxFollowUps} \subseteq Nat
ASSUME FinitenessAssumption == IsFiniteSet(Messages) /\ IsFiniteSet(Categories)
ASSUME TextsAssumption ==
  ValidText \subseteq ApiTexts \union { TemplateText[c] : c \in DOMAIN TemplateText }

VARIABLES
  now, mode,
  inbox,       \* inbox[m]: "unseen", "recorded" or "classified"
  awaiting,    \* the messages whose classification awaits the LLM
  outbound,    \* outbound[k]: the record of idempotency key k
  requests,    \* requests[r]: the approval requests for replies
  reviews,     \* open manual review items
  followUps,   \* follow_up_due items ever created, as <<conversation, n>>
  todo         \* what the running loop has still to process

vars == <<now, mode, inbox, awaiting, outbound, requests, reviews,
          followUps, todo>>

Conversations == { Inbox[m].conversation : m \in Messages }
Texts == ApiTexts \union { TemplateText[c] : c \in DOMAIN TemplateText }

\* The worker's key ends in a template id, the route's in a category.
TemplateKey(m) == <<m, "template">>
CategoryKey(m, category) == <<m, category>>
Keys == { TemplateKey(m) : m \in Messages }
          \union { CategoryKey(m, c) : m \in Messages, c \in Categories }

Absent == [status |-> "absent"]
Record == [status : {"blocked", "queued_for_review", "dry_run_recorded"},
           text : Texts, policy : PolicyVerdicts, createdAt : Int]
Request == [status : {"pending", "approved", "rejected", "expired"},
            key : Keys, text : Texts, expiresAt : Int]

-----------------------------------------------------------------------------
(* Classification, drafts and limits. *)

\* ConversationEngine.classify, by the category it finds.
RequiresReply(category) == category \notin {"rejection", "acknowledgment"}
Classification(m) ==
  LET category == Inbox[m].category
  IN  [replyAllowed |-> /\ category \in {"request_for_salary_expectation",
                             "request_for_location", "scheduling_request",
                             "acknowledgment"}
                        /\ ~Inbox[m].sensitive,
       confident |-> category # "unknown",
       sensitive |-> Inbox[m].sensitive]

\* What the route, and the bot for an unclassified message, assume instead.
Presumed == [replyAllowed |-> TRUE, confident |-> TRUE, sensitive |-> FALSE]

Recorded(c) ==
  { m \in Messages : inbox[m] # "unseen" /\ Inbox[m].conversation = c }

\* ThreadContradictionChecker against the thread as it is now.
Contradicts(text, c) ==
  text \in Claiming /\ \E m \in Recorded(c) : Inbox[m].unavailable

\* Mutant: only what was really recorded counts, drafts under review do not.
CountedSentOnly(except) ==
  { k \in Keys \ {except} : outbound[k].status = "dry_run_recorded" }

\* evaluateReplyRateLimits: counted records other than the message's own.
Counted(except) ==
  { k \in Keys \ {except} :
      outbound[k].status \in {"queued_for_review", "dry_run_recorded"} }

ConversationOf(k) == Inbox[k[1]].conversation
Since(keys, window) ==
  { k \in keys : outbound[k].createdAt > now - window }
SameConversation(keys, c) == { k \in keys : ConversationOf(k) = c }
SameCompany(keys, c) ==
  { k \in keys : Company[c] # NoCompany
                   /\ Company[ConversationOf(k)] = Company[c] }

ReplyRateAllows(key) ==
  LET counted == Counted(key)
      c == ConversationOf(key)
  IN  /\ Cardinality(Since(counted, Hour)) < PerHour
      /\ Cardinality(Since(SameConversation(counted, c), Day)) < 1
      /\ Cardinality(Since(SameCompany(counted, c), Day)) < PerCompanyDay
      /\ Cardinality(Since(SameCompany(counted, c), Week)) < PerCompanyWeek

ReplyPolicy(key, classification, valid, irreversible) ==
  PolicyVerdict([action |-> "send_recruiter_reply", mode |-> mode,
                 keyed |-> TRUE, proofReady |-> TRUE, valid |-> valid,
                 provider |-> "stable", rate |-> ReplyRateAllows(key),
                 consent |-> Consent,
                 replyAllowed |-> classification.replyAllowed,
                 confident |-> classification.confident,
                 sensitive |-> classification.sensitive,
                 irreversible |-> irreversible])

-----------------------------------------------------------------------------
(* Dispatch records. *)

\* Mutant: live sending is left enabled.
DispatchStatusLive(text, policy, approval) ==
  IF text \notin ValidText \/ policy = "deny" \/ approval = "rejected"
  THEN "blocked"
  ELSE IF policy = "requires_user_approval" /\ approval # "approved"
       THEN "queued_for_review" ELSE "sent"

\* OutboundDispatchService.dispatch without a live transport.
DispatchStatus(text, policy, approval) ==
  IF text \notin ValidText \/ policy = "deny" \/ approval = "rejected"
  THEN "blocked"
  ELSE IF policy = "requires_user_approval" /\ approval # "approved"
       THEN "queued_for_review" ELSE "dry_run_recorded"

Rank(status) == CASE status = "blocked" -> 0
                  [] status = "queued_for_review" -> 1
                  [] status = "dry_run_recorded" -> 2

\* Mutant: a result of the same rank replaces the record's proof.
ShouldUpdateOrEqual(current, next) ==
  \/ Rank(next) >= Rank(current)
  \/ current = "queued_for_review" /\ next = "blocked"

ShouldUpdate(current, next) ==
  \/ Rank(next) > Rank(current)
  \/ current = "queued_for_review" /\ next = "blocked"

\* recordOutboundDispatch: a key keeps its first text and its first date.
RecordDispatch(old, text, policy, approval) ==
  LET status == DispatchStatus(text, policy, approval)
  IN  IF old = Absent
      THEN [status |-> status, text |-> text, policy |-> policy,
            createdAt |-> now]
      ELSE IF old.text = text /\ ShouldUpdate(old.status, status)
           THEN [old EXCEPT !.status = status, !.policy = policy]
           ELSE old

\* resolveApprovalRequest with a matching draft hash.
Resolved(r, resolution) ==
  LET late == r.expiresAt <= now
  IN  IF r.status = "approved" /\ late THEN [r EXCEPT !.status = "expired"]
      ELSE IF r.status # "pending" THEN r
      ELSE [r EXCEPT !.status = IF late THEN "expired" ELSE resolution]

Review(entity, reason) == [entity |-> entity, reason |-> reason]

Init ==
  /\ now = 0 /\ mode \in Modes
  /\ inbox = [m \in Messages |-> "unseen"]
  /\ awaiting = {}
  /\ outbound = [k \in Keys |-> Absent]
  /\ requests = [r \in Reqs |-> Absent]
  /\ reviews = {} /\ followUps = {} /\ todo = {}

-----------------------------------------------------------------------------
(* The inbox worker. *)

\* syncInbox returns the message; it is recorded if it is new, and its
\* classification is asked for unless it has one.
Fetch(m) ==
  /\ todo = {} /\ awaiting = {} /\ inbox[m] # "classified"
  /\ inbox' = [inbox EXCEPT ![m] = "recorded"]
  /\ awaiting' = {m}
  /\ UNCHANGED <<now, mode, outbound, requests, reviews, followUps, todo>>

\* The LLM answered, well or not: the rules' classification is stored.
Classify(m, llmOk) ==
  LET c == Classification(m)
  IN  /\ todo = {} /\ m \in awaiting
      /\ inbox' = [inbox EXCEPT ![m] = "classified"]
      /\ awaiting' = {}
      /\ reviews' = reviews \union
           IF c.sensitive THEN {Review(<<m>>, "sensitive_data_requested")}
           ELSE IF ~c.replyAllowed \/ ~llmOk
                THEN {Review(<<m>>, "reply_requires_review")} ELSE {}
      /\ UNCHANGED <<now, mode, outbound, requests, followUps, todo>>

\* The inbox worker ends while it waits; a later sync finds the message
\* recorded and without a classification.
AbandonSync ==
  /\ todo = {} /\ awaiting # {}
  /\ awaiting' = {}
  /\ UNCHANGED <<now, mode, inbox, outbound, requests, reviews, followUps,
                 todo>>

-----------------------------------------------------------------------------
(* The reply worker. *)

StartReplyWorker ==
  /\ todo = {}
  /\ todo' = { Review(<<m>>, "reply") :
                 m \in { n \in Messages : inbox[n] = "classified"
                                 /\ RequiresReply(Inbox[n].category) } }
  /\ UNCHANGED <<now, mode, inbox, awaiting, outbound, requests, reviews,
                 followUps>>

\* Mutant: the worker vouches for its own draft.
ApprovalAlways(policy) == "approved"

\* What the worker passes as approval.
WorkerApproval(policy) ==
  IF policy = "requires_user_approval" THEN "pending" ELSE "approved"

\* One message of the loop: no template, an invalid draft or a
\* contradiction leaves a review; otherwise the draft is dispatched.
DraftReply(m) ==
  LET category == Inbox[m].category
      text == TemplateText[category]
      k == TemplateKey(m)
      policy == ReplyPolicy(k, Classification(m), TRUE, Irreversible)
      drafted == category \in DOMAIN TemplateText /\ text \in ValidText
      clash == drafted /\ Contradicts(text, Inbox[m].conversation)
  IN  /\ Review(<<m>>, "reply") \in todo
      /\ todo' = todo \ {Review(<<m>>, "reply")}
      /\ reviews' = reviews \union
           IF ~drafted THEN {Review(<<m>>, "reply_draft_validation_failed")}
           ELSE IF clash THEN {Review(<<m>>, "reply_thread_context_conflict")}
           ELSE {}
      /\ outbound' =
           IF drafted /\ ~clash
           THEN [outbound EXCEPT ![k] =
                   RecordDispatch(@, text, policy, WorkerApproval(policy))]
           ELSE outbound
      /\ UNCHANGED <<now, mode, inbox, awaiting, requests, followUps>>

-----------------------------------------------------------------------------
(* The routes and the bot. *)

\* POST /approval-requests for a reply: any key and text may be named; an
\* equal pending request is returned instead of a new one.
PostApprovalRequest(r, k, text, expiresAt) ==
  /\ todo = {} /\ requests[r] = Absent
  /\ \A q \in Reqs : requests[q] # Absent =>
       ~(requests[q].status = "pending" /\ requests[q].key = k
           /\ requests[q].text = text)
  /\ requests' = [requests EXCEPT ![r] =
       [status |-> "pending", key |-> k, text |-> text,
        expiresAt |-> expiresAt]]
  /\ UNCHANGED <<now, mode, inbox, awaiting, outbound, reviews, followUps,
                 todo>>

\* POST /approval-requests/:id/resolve: nothing is dispatched for a reply.
ApiResolve(r, resolution) ==
  /\ todo = {} /\ requests[r] # Absent
  /\ requests' = [requests EXCEPT ![r] = Resolved(@, resolution)]
  /\ UNCHANGED <<now, mode, inbox, awaiting, outbound, reviews, followUps,
                 todo>>

\* What a dispatch on the route writes once its approval is settled.
ApiRecords(m, category, text, approval) ==
  LET k == CategoryKey(m, category)
      clash == Contradicts(text, Inbox[m].conversation)
      policy == ReplyPolicy(k, Presumed, text \in ValidText /\ ~clash,
                            Irreversible)
  IN  /\ outbound' = [outbound EXCEPT ![k] =
                        RecordDispatch(@, text, policy, approval)]
      /\ reviews' = IF clash
                    THEN reviews \union
                           {Review(k, "reply_thread_context_conflict")}
                    ELSE reviews
      /\ UNCHANGED <<now, mode, inbox, awaiting, followUps, todo>>

\* POST /outbound/dispatch/review-first without an approval.
ApiDispatch(m, category, text, approval) ==
  /\ todo = {} /\ inbox[m] # "unseen"
  /\ approval \in {"pending", "rejected"}
  /\ ApiRecords(m, category, text, approval)
  /\ UNCHANGED requests

\* The same with approval "approved": the named request must be of this
\* key and text, and is resolved before the text is validated.
ApiDispatchApproved(m, category, text, r) ==
  LET q == Resolved(requests[r], "approved")
  IN  /\ todo = {} /\ inbox[m] # "unseen"
      /\ requests[r] # Absent
      /\ requests[r].key = CategoryKey(m, category)
      /\ requests[r].text = text
      /\ requests' = [requests EXCEPT ![r] = q]
      /\ IF q.status = "approved"
         THEN ApiRecords(m, category, text, "approved")
         ELSE UNCHANGED <<now, mode, inbox, awaiting, outbound, reviews,
                          followUps, todo>>

\* /approve of a stored draft: thread, limits and policy are looked at
\* again; the bot never has irreversible actions enabled.
BotApprove(r) ==
  LET k == requests[r].key
      old == outbound[k]
      q == Resolved(requests[r], "approved")
      policy == ReplyPolicy(k,
                  IF inbox[k[1]] = "classified" THEN Classification(k[1])
                  ELSE Presumed,
                  /\ old.text \in ValidText
                  /\ ~Contradicts(old.text, ConversationOf(k)),
                  FALSE)
  IN  /\ todo = {} /\ requests[r] # Absent
      /\ old # Absent /\ old.text = requests[r].text
      /\ policy # "deny"
      /\ requests' = [requests EXCEPT ![r] = q]
      /\ outbound' = IF q.status = "approved"
                     THEN [outbound EXCEPT ![k] =
                             RecordDispatch(@, old.text, policy, "approved")]
                     ELSE outbound
      /\ UNCHANGED <<now, mode, inbox, awaiting, reviews, followUps, todo>>

\* /reject resolves the request and leaves the draft as it is.
BotReject(r) ==
  /\ todo = {} /\ requests[r] # Absent
  /\ outbound[requests[r].key] # Absent
  /\ outbound[requests[r].key].text = requests[r].text
  /\ requests' = [requests EXCEPT ![r] = Resolved(@, "rejected")]
  /\ UNCHANGED <<now, mode, inbox, awaiting, outbound, reviews, followUps,
                 todo>>

\* POST /manual-review/:id/resolve with approved or rejected.
ResolveReview(item) ==
  /\ todo = {} /\ item \in reviews
  /\ reviews' = reviews \ {item}
  /\ UNCHANGED <<now, mode, inbox, awaiting, outbound, requests, followUps,
                 todo>>

SetMode(next) ==
  /\ todo = {} /\ mode' = next
  /\ UNCHANGED <<now, inbox, awaiting, outbound, requests, reviews,
                 followUps, todo>>

-----------------------------------------------------------------------------
(* The follow-up planner. *)

StartFollowUps ==
  /\ todo = {}
  /\ todo' = { Review(<<c>>, "follow_up") :
                 c \in { d \in Conversations : Recorded(d) # {} } }
  /\ UNCHANGED <<now, mode, inbox, awaiting, outbound, requests, reviews,
                 followUps>>

\* The newest message of a thread decides; unclassified, it is "unknown".
LastInbound(c) ==
  { m \in Recorded(c) :
      \A n \in Recorded(c) : Inbox[n].received <= Inbox[m].received }

Eligible(m) ==
  /\ inbox[m] = "classified"
  /\ Inbox[m].category \notin {"rejection", "spam_irrelevant", "unknown"}
  /\ Inbox[m].received + FollowUpAfter <= now

FollowUpsOf(cs) == { f \in followUps : f[1] \in cs }
CompanyThreads(c) ==
  { d \in Conversations : Company[c] # NoCompany
                            /\ Company[d] = Company[c] }

\* Mutant: resolved items of the thread no longer count.
BelowCapsOpenOnly(c) ==
  Cardinality({ f \in reviews : f = Review(<<c>>, "follow_up_due") })
    < MaxFollowUps

\* FollowUpScheduler: both caps count every item ever created.
BelowCaps(c) ==
  /\ Cardinality(FollowUpsOf(CompanyThreads(c))) < CompanyMaxFollowUps
  /\ Cardinality(FollowUpsOf({c})) < MaxFollowUps

\* One conversation of the loop.  No reply carries a follow-up template, so
\* the planner never sees a recruiter answer one.
PlanFollowUp(c) ==
  LET item == Review(<<c>>, "follow_up_due")
      due == /\ \E m \in LastInbound(c) : Eligible(m)
             /\ BelowCaps(c)
             /\ item \notin reviews
  IN  /\ Review(<<c>>, "follow_up") \in todo
      /\ todo' = todo \ {Review(<<c>>, "follow_up")}
      /\ reviews' = IF due THEN reviews \union {item} ELSE reviews
      /\ followUps' =
           IF due THEN followUps \union
                         {<<c, Cardinality(FollowUpsOf({c})) + 1>>}
           ELSE followUps
      /\ UNCHANGED <<now, mode, inbox, awaiting, outbound, requests>>

Tick ==
  /\ todo = {} /\ now < Horizon /\ now' = now + 1
  /\ UNCHANGED <<mode, inbox, awaiting, outbound, requests, reviews,
                 followUps, todo>>

Next ==
  \/ \E m \in Messages :
       \/ Fetch(m) \/ DraftReply(m)
       \/ \E llmOk \in BOOLEAN : Classify(m, llmOk)
       \/ \E category \in Categories, text \in ApiTexts :
            \/ \E approval \in {"pending", "rejected"} :
                 ApiDispatch(m, category, text, approval)
            \/ \E r \in Reqs : ApiDispatchApproved(m, category, text, r)
  \/ AbandonSync \/ StartReplyWorker \/ StartFollowUps \/ Tick
  \/ \E r \in Reqs :
       \/ \E k \in Keys, text \in Texts, d \in Lifetimes :
            PostApprovalRequest(r, k, text, now + d)
       \/ \E resolution \in {"approved", "rejected"} :
            ApiResolve(r, resolution)
       \/ BotApprove(r) \/ BotReject(r)
  \/ \E item \in reviews : ResolveReview(item)
  \/ \E next \in Modes : SetMode(next)
  \/ \E c \in Conversations : PlanFollowUp(c)

Spec == Init /\ [][Next]_vars

-----------------------------------------------------------------------------
(* Properties. *)

Entities == { <<e>> : e \in Messages \union Conversations } \union Keys
Reasons == { "sensitive_data_requested", "reply_requires_review", "reply",
             "reply_draft_validation_failed", "follow_up", "follow_up_due",
             "reply_thread_context_conflict" }

\* Records, requests and reviews are of their types.
TypeOK ==
  /\ now \in Int /\ mode \in Modes
  /\ inbox \in [Messages -> {"unseen", "recorded", "classified"}]
  /\ awaiting \subseteq Messages
  /\ outbound \in [Keys -> Record \union {Absent}]
  /\ requests \in [Reqs -> Request \union {Absent}]
  /\ reviews \subseteq [entity : Entities, reason : Reasons]
  /\ followUps \subseteq Conversations \X Nat
  /\ todo \subseteq [entity : Entities, reason : Reasons]

Dispatched(rec) == rec.status = "dry_run_recorded"

\* A reply the policy wants a user for is dispatched only in a step that
\* leaves an approved, unexpired request of the same key and text, whether
\* the route, the bot or the worker dispatches it, and whatever became of
\* the draft, its mode and its requests before (OutboundDispatchService,
\* resolveApprovalRequest).
DispatchApproved ==
  [][\A k \in Keys :
       (/\ Dispatched(outbound'[k]) /\ ~Dispatched(outbound[k])
        /\ outbound'[k].policy = "requires_user_approval")
       => \E r \in Reqs : /\ requests'[r].status = "approved"
                          /\ requests'[r].key = k
                          /\ requests'[r].text = outbound'[k].text
                          /\ requests'[r].expiresAt > now]_vars

\* What was dispatched stays as it was: no later run of the worker, second
\* approval or rejection changes its text, its proof or its status
\* (recordOutboundDispatch, shouldUpdateOutboundDispatch).
DispatchFinal ==
  [][\A k \in Keys : Dispatched(outbound[k]) => outbound'[k] = outbound[k]]_vars

\* Within the last day a conversation has at most one reply that is queued
\* or dispatched, and hour, company-day and company-week keep their limits,
\* although blocked drafts come back later with their old dates
\* (evaluateReplyRateLimits).
WindowsKept ==
  LET counted == { k \in Keys : outbound[k].status
                                  \in {"queued_for_review", "dry_run_recorded"} }
  IN  /\ Cardinality(Since(counted, Hour)) <= PerHour
      /\ \A c \in Conversations :
           /\ Cardinality(Since(SameConversation(counted, c), Day)) <= 1
           /\ Cardinality(Since(SameCompany(counted, c), Day))
                <= PerCompanyDay
           /\ Cardinality(Since(SameCompany(counted, c), Week))
                <= PerCompanyWeek

\* A thread never gets more follow-up reviews than its cap and a company no
\* more than its own, however they are resolved and planned again
\* (planConservativeFollowUps, FollowUpScheduler).
FollowUpCaps ==
  \A c \in Conversations :
    /\ Cardinality(FollowUpsOf({c})) <= MaxFollowUps
    /\ Cardinality(FollowUpsOf(CompanyThreads(c))) <= CompanyMaxFollowUps

\* What the roadmap asks of the reply key
\* (reply:conversation:inbound:template): one inbound message is never
\* answered twice.
AnsweredOnce ==
  \A k, l \in Keys :
    Dispatched(outbound[k]) /\ Dispatched(outbound[l]) /\ k[1] = l[1] => k = l

=============================================================================

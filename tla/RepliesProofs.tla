--------------------------- MODULE RepliesProofs ---------------------------
(***************************************************************************)
(* Proofs about Replies, for any messages, texts, limits, policies and     *)
(* requests.  A record keeps its text and date, and is never updated once  *)
(* dispatched; that it comes to life only when the policy saw room for it  *)
(* is what keeps the limits.                                               *)
(***************************************************************************)
EXTENDS Replies, FiniteSetTheorems, TLAPS

Live == {"queued_for_review", "dry_run_recorded"}
Statuses == {"blocked", "queued_for_review", "dry_run_recorded"}

-----------------------------------------------------------------------------
(* Policies and records. *)

LEMMA PolicyTyped ==
  \A key, classification, valid, irreversible :
    ReplyPolicy(key, classification, valid, irreversible) \in PolicyVerdicts
  BY DEF ReplyPolicy, PolicyVerdict, PolicyVerdicts

\* The policy denies what the limits do not allow.
LEMMA PolicyAsksLimits ==
  ASSUME NEW key, NEW classification, NEW valid, NEW irreversible,
         ReplyPolicy(key, classification, valid, irreversible) # "deny"
  PROVE  ReplyRateAllows(key)
  BY DEF ReplyPolicy, PolicyVerdict, CommonChecks

LEMMA StatusTyped ==
  ASSUME NEW text, NEW policy, NEW approval
  PROVE  /\ DispatchStatus(text, policy, approval) \in Statuses
         /\ DispatchStatus(text, policy, approval) \in Live => policy # "deny"
         /\ /\ DispatchStatus(text, policy, approval) = "dry_run_recorded"
            /\ policy = "requires_user_approval"
            => approval = "approved"
  BY DEF DispatchStatus, Statuses, Live

LEMMA FinalRank ==
  \A next \in Statuses : ~ShouldUpdate("dry_run_recorded", next)
<1>1. Rank("blocked") = 0 /\ Rank("queued_for_review") = 1 /\ Rank("dry_run_recorded") = 2
  BY DEF Rank
<1>2. \A next \in Statuses : ~(Rank(next) > Rank("dry_run_recorded"))
  BY <1>1 DEF Statuses
<1> QED BY <1>2 DEF ShouldUpdate

LEMMA AbsentRecord == Absent.status = "absent"
  BY DEF Absent

\* What a dispatch makes of the record of its key: it keeps a dispatched one,
\* text and date, brings a record to life only if the policy does not deny,
\* and dispatches what needs a user's approval only with it.
LEMMA RecordStep ==
  ASSUME NEW old \in Record \union {Absent}, NEW text \in Texts,
         NEW policy \in PolicyVerdicts, NEW approval, now \in Int
  PROVE  LET rec == RecordDispatch(old, text, policy, approval)
         IN  /\ rec \in Record \union {Absent}
             /\ Dispatched(old) => rec = old
             /\ old \in Record => rec.createdAt = old.createdAt
             /\ rec.status \in Live /\ old.status \notin Live => policy # "deny"
             /\ Dispatched(rec) /\ ~Dispatched(old)
                  /\ rec.policy = "requires_user_approval"
                => /\ approval = "approved" /\ policy = "requires_user_approval"
                   /\ rec.text = text
<1> DEFINE status == DispatchStatus(text, policy, approval)
           rec == RecordDispatch(old, text, policy, approval)
<1>1. /\ status \in Statuses /\ (status \in Live => policy # "deny")
      /\ status = "dry_run_recorded" /\ policy = "requires_user_approval"
           => approval = "approved"
  BY StatusTyped
<1>2. rec = IF old = Absent
            THEN [status |-> status, text |-> text, policy |-> policy, createdAt |-> now]
            ELSE IF old.text = text /\ ShouldUpdate(old.status, status)
                 THEN [old EXCEPT !.status = status, !.policy = policy]
                 ELSE old
  BY DEF RecordDispatch
<1> HIDE DEF status, rec
<1>3. CASE old = Absent
  <2>1. rec \in Record /\ rec.status = status /\ rec.text = text /\ rec.policy = policy
    BY <1>1, <1>2, <1>3 DEF Record, Statuses
  <2>2. ~Dispatched(old)
    BY <1>3, AbsentRecord DEF Dispatched
  <2>3. old \notin Record
    BY <1>3, AbsentRecord DEF Record
  <2> QED BY <1>1, <2>1, <2>2, <2>3 DEF rec, Dispatched
<1>4. CASE /\ old # Absent /\ old.text = text /\ ShouldUpdate(old.status, status)
  <2>1. old \in Record /\ rec = [old EXCEPT !.status = status, !.policy = policy]
    BY <1>2, <1>4
  <2> DEFINE updated == [old EXCEPT !.status = status, !.policy = policy]
  <2>a. /\ updated \in Record /\ updated.status = status /\ updated.policy = policy
        /\ updated.text = old.text /\ updated.createdAt = old.createdAt
    BY <1>1, <2>1 DEF Record, Statuses
  <2> HIDE DEF updated
  <2>2. /\ rec \in Record /\ rec.status = status /\ rec.policy = policy
        /\ rec.text = text /\ rec.createdAt = old.createdAt
    BY <1>4, <2>1, <2>a DEF updated
  <2>3. ~Dispatched(old)
    BY <1>1, <1>4, FinalRank DEF Dispatched
  <2> QED BY <1>1, <2>2, <2>3 DEF rec, Dispatched
<1>5. CASE old # Absent /\ ~(old.text = text /\ ShouldUpdate(old.status, status))
  BY <1>2, <1>5 DEF rec
<1> QED BY <1>3, <1>4, <1>5

LEMMA ResolvedStep ==
  ASSUME NEW r \in Request, NEW resolution \in {"approved", "rejected"}, now \in Int
  PROVE  /\ Resolved(r, resolution) \in Request
         /\ Resolved(r, resolution).key = r.key /\ Resolved(r, resolution).text = r.text
         /\ Resolved(r, resolution).status = "approved" =>
              Resolved(r, resolution).expiresAt > now
<1>1. \A s \in {"pending", "approved", "rejected", "expired"} :
        /\ [r EXCEPT !.status = s] \in Request
        /\ [r EXCEPT !.status = s].status = s
        /\ [r EXCEPT !.status = s].key = r.key /\ [r EXCEPT !.status = s].text = r.text
        /\ [r EXCEPT !.status = s].expiresAt = r.expiresAt
  BY DEF Request
<1>2. r.expiresAt \in Int BY DEF Request
<1>3. CASE r.status = "approved" /\ r.expiresAt <= now
  <2>1. Resolved(r, resolution) = [r EXCEPT !.status = "expired"] BY <1>3 DEF Resolved
  <2> QED BY <1>1, <2>1
<1>4. CASE r.status = "approved" /\ ~(r.expiresAt <= now)
  <2>1. Resolved(r, resolution) = r BY <1>4 DEF Resolved
  <2> QED BY <1>2, <1>4, <2>1
<1>5. CASE r.status \notin {"approved", "pending"}
  <2>1. Resolved(r, resolution) = r BY <1>5 DEF Resolved
  <2> QED BY <1>5, <2>1
<1>6. CASE r.status = "pending" /\ r.expiresAt <= now
  <2>1. Resolved(r, resolution) = [r EXCEPT !.status = "expired"] BY <1>6 DEF Resolved
  <2> QED BY <1>1, <2>1
<1>7. CASE r.status = "pending" /\ ~(r.expiresAt <= now)
  <2>1. Resolved(r, resolution) = [r EXCEPT !.status = resolution] BY <1>7 DEF Resolved
  <2> QED BY <1>1, <1>2, <1>7, <2>1
<1> QED BY <1>3, <1>4, <1>5, <1>6, <1>7

-----------------------------------------------------------------------------
(* Steps.  A step leaves the records alone or dispatches under one key. *)

Backing(k, text) ==
  \E r \in Reqs : /\ requests'[r].status = "approved"
                  /\ requests'[r].key = k
                  /\ requests'[r].text = text
                  /\ requests'[r].expiresAt > now

Writes(k, text, policy, approval) ==
  /\ policy # "deny" => ReplyRateAllows(k)
  /\ outbound' = [outbound EXCEPT ![k] = RecordDispatch(outbound[k], text, policy, approval)]
  /\ now' = now
  /\ policy = "requires_user_approval" /\ approval = "approved" => Backing(k, text)

Quiet == outbound' = outbound /\ (now' = now \/ now' = now + 1)

Approvals == {"pending", "approved", "rejected"}
Writing == \E k \in Keys, text \in Texts, policy \in PolicyVerdicts, approval \in Approvals :
             Writes(k, text, policy, approval)

LEMMA KeysOf ==
  /\ \A m \in Messages : TemplateKey(m) \in Keys
  /\ \A m \in Messages, category \in Categories : CategoryKey(m, category) \in Keys
  BY DEF Keys

LEMMA TextsOf ==
  /\ ApiTexts \subseteq Texts
  /\ \A category \in DOMAIN TemplateText : TemplateText[category] \in Texts
  BY DEF Texts

LEMMA DraftWrites ==
  ASSUME NEW m \in Messages, DraftReply(m)
  PROVE  Quiet \/ Writing
<1> DEFINE category == Inbox[m].category
           text == TemplateText[category]
           k == TemplateKey(m)
           policy == ReplyPolicy(k, Classification(m), TRUE, Irreversible)
           drafted == category \in DOMAIN TemplateText /\ text \in ValidText
           clash == drafted /\ Contradicts(text, Inbox[m].conversation)
<1>1. policy \in PolicyVerdicts /\ (policy # "deny" => ReplyRateAllows(k))
  BY PolicyTyped, PolicyAsksLimits
<1>2. k \in Keys BY KeysOf
<1>3. /\ outbound' = IF drafted /\ ~clash
                     THEN [outbound EXCEPT ![k] =
                             RecordDispatch(outbound[k], text, policy, WorkerApproval(policy))]
                     ELSE outbound
      /\ now' = now
  BY DEF DraftReply
<1>4. drafted => text \in Texts BY TextsOf
<1>5. /\ WorkerApproval(policy) \in Approvals
      /\ policy = "requires_user_approval" => WorkerApproval(policy) # "approved"
  BY DEF WorkerApproval, Approvals
<1> HIDE DEF policy, text, drafted, clash, k
<1>6. CASE drafted /\ ~clash
  <2>1. Writes(k, text, policy, WorkerApproval(policy))
    BY <1>1, <1>3, <1>5, <1>6 DEF Writes
  <2> QED BY <1>1, <1>2, <1>4, <1>5, <1>6, <2>1 DEF Writing
<1>7. CASE ~(drafted /\ ~clash) BY <1>3, <1>7 DEF Quiet
<1> QED BY <1>6, <1>7

LEMMA RouteWrites ==
  ASSUME NEW m \in Messages, NEW category \in Categories, NEW text \in ApiTexts,
         NEW approval \in Approvals, ApiRecords(m, category, text, approval),
         approval = "approved" => Backing(CategoryKey(m, category), text)
  PROVE  Writing
<1> DEFINE k == CategoryKey(m, category)
           clash == Contradicts(text, Inbox[m].conversation)
           policy == ReplyPolicy(k, Presumed, text \in ValidText /\ ~clash, Irreversible)
<1>1. policy \in PolicyVerdicts /\ (policy # "deny" => ReplyRateAllows(k))
  BY PolicyTyped, PolicyAsksLimits
<1>2. k \in Keys /\ text \in Texts BY KeysOf, TextsOf
<1>3. outbound' = [outbound EXCEPT ![k] = RecordDispatch(outbound[k], text, policy, approval)]
      /\ now' = now
  BY DEF ApiRecords
<1> HIDE DEF policy, k
<1>4. Writes(k, text, policy, approval)
  BY <1>1, <1>3 DEF Writes, k
<1> QED BY <1>1, <1>2, <1>4 DEF Writing

LEMMA ApiApprovedWrites ==
  ASSUME TypeOK, NEW m \in Messages, NEW category \in Categories, NEW text \in ApiTexts,
         NEW r \in Reqs, ApiDispatchApproved(m, category, text, r)
  PROVE  Quiet \/ Writing
<1> DEFINE q == Resolved(requests[r], "approved")
<1>1. /\ requests[r] # Absent /\ requests[r].key = CategoryKey(m, category)
      /\ requests[r].text = text /\ requests' = [requests EXCEPT ![r] = q]
  BY DEF ApiDispatchApproved
<1>2. requests[r] \in Request /\ now \in Int BY <1>1 DEF TypeOK
<1>3. /\ q.key = CategoryKey(m, category) /\ q.text = text
      /\ q.status = "approved" => q.expiresAt > now
  BY <1>1, <1>2, ResolvedStep
<1>4. requests'[r] = q BY <1>1 DEF TypeOK
<1>5. CASE q.status = "approved"
  <2>1. ApiRecords(m, category, text, "approved") BY <1>5 DEF ApiDispatchApproved
  <2>2. Backing(CategoryKey(m, category), text) BY <1>3, <1>4, <1>5 DEF Backing
  <2> QED BY <2>1, <2>2, RouteWrites DEF Approvals
<1>6. CASE q.status # "approved" BY <1>6 DEF ApiDispatchApproved, Quiet
<1> QED BY <1>5, <1>6

LEMMA BotWrites ==
  ASSUME TypeOK, NEW r \in Reqs, BotApprove(r)
  PROVE  Quiet \/ Writing
<1> DEFINE k == requests[r].key
           old == outbound[k]
           q == Resolved(requests[r], "approved")
           policy == ReplyPolicy(k,
                       IF inbox[k[1]] = "classified" THEN Classification(k[1]) ELSE Presumed,
                       /\ old.text \in ValidText
                       /\ ~Contradicts(old.text, ConversationOf(k)),
                       FALSE)
<1>1. /\ requests[r] # Absent /\ old # Absent /\ old.text = requests[r].text
      /\ requests' = [requests EXCEPT ![r] = q] /\ now' = now
      /\ outbound' = IF q.status = "approved"
                     THEN [outbound EXCEPT ![k] = RecordDispatch(outbound[k], old.text, policy, "approved")]
                     ELSE outbound
  BY DEF BotApprove
<1>2. policy \in PolicyVerdicts /\ (policy # "deny" => ReplyRateAllows(k))
  BY PolicyTyped, PolicyAsksLimits
<1>3. requests[r] \in Request /\ now \in Int BY <1>1 DEF TypeOK
<1>4. k \in Keys BY <1>3 DEF Request
<1>5. old \in Record BY <1>1, <1>4 DEF TypeOK
<1>6. old.text \in Texts BY <1>5 DEF Record
<1>7. /\ q.key = k /\ q.text = requests[r].text
      /\ q.status = "approved" => q.expiresAt > now
  BY <1>3, ResolvedStep
<1>8. requests'[r] = q BY <1>1 DEF TypeOK
<1> HIDE DEF policy, q
<1>9. CASE q.status = "approved"
  <2>1. Backing(k, old.text) BY <1>1, <1>7, <1>8, <1>9 DEF Backing
  <2>2. Writes(k, old.text, policy, "approved") BY <1>1, <1>2, <1>9, <2>1 DEF Writes
  <2> QED BY <1>2, <1>4, <1>6, <2>2 DEF Writing, Approvals
<1>10. CASE q.status # "approved" BY <1>1, <1>10 DEF Quiet
<1> QED BY <1>9, <1>10

LEMMA StepWrites == TypeOK /\ [Next]_vars => Quiet \/ Writing
<1> SUFFICES ASSUME TypeOK, [Next]_vars PROVE Quiet \/ Writing
  OBVIOUS
<1>1. CASE UNCHANGED vars BY <1>1 DEF vars, Quiet
<1>2. ASSUME NEW m \in Messages, NEW category \in Categories, NEW text \in ApiTexts,
             NEW approval \in {"pending", "rejected"}, ApiDispatch(m, category, text, approval)
      PROVE  Writing
  BY <1>2, RouteWrites DEF ApiDispatch, Approvals
<1>3. ASSUME NEW m \in Messages, Fetch(m) \/ \E llmOk \in BOOLEAN : Classify(m, llmOk)
      PROVE  Quiet
  BY <1>3 DEF Fetch, Classify, Quiet
<1>4. ASSUME AbandonSync \/ StartReplyWorker \/ StartFollowUps \/ Tick PROVE Quiet
  BY <1>4 DEF AbandonSync, StartReplyWorker, StartFollowUps, Tick, Quiet
<1>5. ASSUME NEW r \in Reqs,
             \/ \E k \in Keys, text \in Texts, d \in Lifetimes :
                  PostApprovalRequest(r, k, text, now + d)
             \/ \E resolution \in {"approved", "rejected"} : ApiResolve(r, resolution)
             \/ BotReject(r)
      PROVE  Quiet
  BY <1>5 DEF PostApprovalRequest, ApiResolve, BotReject, Quiet
<1>6. ASSUME \/ \E item \in reviews : ResolveReview(item)
             \/ \E next \in Modes : SetMode(next)
             \/ \E c \in Conversations : PlanFollowUp(c)
      PROVE  Quiet
  BY <1>6 DEF ResolveReview, SetMode, PlanFollowUp, Quiet
<1>7. CASE Next
  BY <1>2, <1>3, <1>4, <1>5, <1>6, <1>7, DraftWrites, ApiApprovedWrites, BotWrites DEF Next
<1> QED BY <1>1, <1>7

LEMMA WriteStep ==
  ASSUME TypeOK, NEW k \in Keys, NEW text \in Texts, NEW policy \in PolicyVerdicts,
         NEW approval, Writes(k, text, policy, approval)
  PROVE  /\ outbound' \in [Keys -> Record \union {Absent}]
         /\ \A l \in Keys : l # k => outbound'[l] = outbound[l]
         /\ Dispatched(outbound[k]) => outbound'[k] = outbound[k]
         /\ outbound[k] \in Record => outbound'[k].createdAt = outbound[k].createdAt
         /\ outbound'[k].status \in Live /\ outbound[k].status \notin Live
              => ReplyRateAllows(k)
         /\ /\ Dispatched(outbound'[k]) /\ ~Dispatched(outbound[k])
            /\ outbound'[k].policy = "requires_user_approval"
            => Backing(k, outbound'[k].text)
<1> DEFINE rec == RecordDispatch(outbound[k], text, policy, approval)
<1>1. outbound[k] \in Record \union {Absent} /\ now \in Int
  BY DEF TypeOK
<1>2. /\ rec \in Record \union {Absent}
      /\ Dispatched(outbound[k]) => rec = outbound[k]
      /\ outbound[k] \in Record => rec.createdAt = outbound[k].createdAt
      /\ rec.status \in Live /\ outbound[k].status \notin Live => policy # "deny"
      /\ Dispatched(rec) /\ ~Dispatched(outbound[k])
           /\ rec.policy = "requires_user_approval"
         => /\ approval = "approved" /\ policy = "requires_user_approval"
            /\ rec.text = text
  BY <1>1, RecordStep
<1>3. rec.status \in Live /\ outbound[k].status \notin Live => ReplyRateAllows(k)
  BY <1>2 DEF Writes
<1>4. /\ Dispatched(rec) /\ ~Dispatched(outbound[k])
      /\ rec.policy = "requires_user_approval"
      => Backing(k, rec.text)
  BY <1>2 DEF Writes
<1>5. outbound' = [outbound EXCEPT ![k] = rec] /\ outbound \in [Keys -> Record \union {Absent}]
  BY DEF Writes, TypeOK
<1> HIDE DEF rec
<1>6. outbound'[k] = rec /\ \A l \in Keys : l # k => outbound'[l] = outbound[l]
  BY <1>5
<1>7. outbound' \in [Keys -> Record \union {Absent}]
  BY <1>2, <1>5
<1> QED BY <1>2, <1>3, <1>4, <1>6, <1>7

-----------------------------------------------------------------------------
(* Type correctness. *)

TypeInv == TypeOK /\ IsFiniteSet(followUps)

LEMMA ReviewTyped ==
  ASSUME NEW e \in Entities, NEW reason \in Reasons
  PROVE  Review(e, reason) \in [entity : Entities, reason : Reasons]
  BY DEF Review

LEMMA EntitiesOf ==
  /\ \A m \in Messages : <<m>> \in Entities
  /\ \A c \in Conversations : <<c>> \in Entities
  /\ Keys \subseteq Entities
  BY DEF Entities

\* A plan adds at most one follow-up, and only below both caps.
LEMMA PlanStep ==
  ASSUME NEW c \in Conversations, PlanFollowUp(c), TypeInv
  PROVE  \/ followUps' = followUps
         \/ /\ BelowCaps(c)
            /\ \E n \in Nat : followUps' = followUps \union {<<c, n>>}
<1> DEFINE n == Cardinality(FollowUpsOf({c})) + 1
<1>1. FollowUpsOf({c}) \subseteq followUps BY DEF FollowUpsOf
<1>2. IsFiniteSet(FollowUpsOf({c})) BY <1>1, FS_Subset DEF TypeInv
<1>3. Cardinality(FollowUpsOf({c})) \in Nat BY <1>2, FS_CardinalityType
<1>4. n \in Nat BY <1>3
<1>5. followUps' = followUps \/ (BelowCaps(c) /\ followUps' = followUps \union {<<c, n>>})
  BY DEF PlanFollowUp
<1> QED BY <1>4, <1>5

LEMMA ReviewsStep ==
  TypeOK /\ [Next]_vars => /\ reviews' \subseteq [entity : Entities, reason : Reasons]
                           /\ todo' \subseteq [entity : Entities, reason : Reasons]
<1> SUFFICES ASSUME TypeOK, [Next]_vars
             PROVE  /\ reviews' \subseteq [entity : Entities, reason : Reasons]
                    /\ todo' \subseteq [entity : Entities, reason : Reasons]
  OBVIOUS
<1> USE ReviewTyped, EntitiesOf
<1>0. /\ reviews \subseteq [entity : Entities, reason : Reasons]
      /\ todo \subseteq [entity : Entities, reason : Reasons]
  BY DEF TypeOK
<1>1. CASE UNCHANGED vars BY <1>0, <1>1 DEF vars
<1>2. ASSUME NEW m \in Messages, NEW llmOk \in BOOLEAN, Classify(m, llmOk)
      PROVE  /\ reviews' \subseteq [entity : Entities, reason : Reasons]
             /\ todo' = todo
  <2>1. /\ Review(<<m>>, "sensitive_data_requested") \in [entity : Entities, reason : Reasons]
        /\ Review(<<m>>, "reply_requires_review") \in [entity : Entities, reason : Reasons]
    BY DEF Reasons
  <2>2. /\ \/ reviews' = reviews
           \/ reviews' = reviews \union {Review(<<m>>, "sensitive_data_requested")}
           \/ reviews' = reviews \union {Review(<<m>>, "reply_requires_review")}
        /\ todo' = todo
    BY <1>2 DEF Classify
  <2> QED BY <1>0, <2>1, <2>2
<1>3. ASSUME NEW m \in Messages, DraftReply(m)
      PROVE  /\ reviews' \subseteq [entity : Entities, reason : Reasons]
             /\ todo' \subseteq todo
  <2>1. /\ Review(<<m>>, "reply_draft_validation_failed") \in [entity : Entities, reason : Reasons]
        /\ Review(<<m>>, "reply_thread_context_conflict") \in [entity : Entities, reason : Reasons]
    BY DEF Reasons
  <2>2. /\ \/ reviews' = reviews
           \/ reviews' = reviews \union {Review(<<m>>, "reply_draft_validation_failed")}
           \/ reviews' = reviews \union {Review(<<m>>, "reply_thread_context_conflict")}
        /\ todo' \subseteq todo
    BY <1>3 DEF DraftReply
  <2> QED BY <1>0, <2>1, <2>2
<1>4. ASSUME NEW m \in Messages, NEW category \in Categories, NEW text, NEW approval,
             ApiRecords(m, category, text, approval)
      PROVE  /\ reviews' \subseteq [entity : Entities, reason : Reasons]
             /\ todo' = todo
  <2>1. Review(CategoryKey(m, category), "reply_thread_context_conflict")
          \in [entity : Entities, reason : Reasons]
    BY KeysOf DEF Reasons
  <2>2. /\ \/ reviews' = reviews
           \/ reviews' = reviews
                \union {Review(CategoryKey(m, category), "reply_thread_context_conflict")}
        /\ todo' = todo
    BY <1>4 DEF ApiRecords
  <2> QED BY <1>0, <2>1, <2>2
<1>5. ASSUME NEW m \in Messages, NEW category \in Categories, NEW text, NEW approval, NEW r,
             ApiDispatch(m, category, text, approval) \/ ApiDispatchApproved(m, category, text, r)
      PROVE  /\ reviews' \subseteq [entity : Entities, reason : Reasons]
             /\ todo' = todo
  <2>1. \/ \E a : ApiRecords(m, category, text, a)
        \/ reviews' = reviews /\ todo' = todo
    BY <1>5, Zenon DEF ApiDispatch, ApiDispatchApproved
  <2> QED BY <1>0, <1>4, <2>1
<1>6. ASSUME NEW m \in Messages, Fetch(m) PROVE reviews' = reviews /\ todo' = todo
  BY <1>6 DEF Fetch
<1>7. ASSUME AbandonSync \/ Tick PROVE reviews' = reviews /\ todo' = todo
  BY <1>7 DEF AbandonSync, Tick
<1>8. ASSUME StartReplyWorker
      PROVE  reviews' = reviews /\ todo' \subseteq [entity : Entities, reason : Reasons]
  <2>1. \A m \in Messages : Review(<<m>>, "reply") \in [entity : Entities, reason : Reasons]
    BY DEF Reasons
  <2>2. reviews' = reviews /\ todo' \subseteq {Review(<<m>>, "reply") : m \in Messages}
    BY <1>8 DEF StartReplyWorker
  <2> QED BY <2>1, <2>2
<1>9. ASSUME StartFollowUps
      PROVE  reviews' = reviews /\ todo' \subseteq [entity : Entities, reason : Reasons]
  <2>1. \A c \in Conversations :
          Review(<<c>>, "follow_up") \in [entity : Entities, reason : Reasons]
    BY DEF Reasons
  <2>2. reviews' = reviews /\ todo' \subseteq {Review(<<c>>, "follow_up") : c \in Conversations}
    BY <1>9 DEF StartFollowUps
  <2> QED BY <2>1, <2>2
<1>10. ASSUME NEW r \in Reqs,
              \/ \E k \in Keys, text \in Texts, d \in Lifetimes :
                   PostApprovalRequest(r, k, text, now + d)
              \/ \E resolution \in {"approved", "rejected"} : ApiResolve(r, resolution)
              \/ BotReject(r) \/ BotApprove(r)
       PROVE  reviews' = reviews /\ todo' = todo
  BY <1>10 DEF PostApprovalRequest, ApiResolve, BotReject, BotApprove
<1>11. ASSUME NEW item, ResolveReview(item) PROVE reviews' \subseteq reviews /\ todo' = todo
  BY <1>11 DEF ResolveReview
<1>12. ASSUME NEW next, SetMode(next) PROVE reviews' = reviews /\ todo' = todo
  BY <1>12 DEF SetMode
<1>13. ASSUME NEW c \in Conversations, PlanFollowUp(c)
       PROVE  reviews' \subseteq [entity : Entities, reason : Reasons] /\ todo' \subseteq todo
  <2>1. Review(<<c>>, "follow_up_due") \in [entity : Entities, reason : Reasons]
    BY DEF Reasons
  <2>2. /\ reviews' = reviews \/ reviews' = reviews \union {Review(<<c>>, "follow_up_due")}
        /\ todo' \subseteq todo
    BY <1>13 DEF PlanFollowUp
  <2> QED BY <1>0, <2>1, <2>2
<1>14. CASE Next
  BY <1>0, <1>2, <1>3, <1>5, <1>6, <1>7, <1>8, <1>9, <1>10, <1>11, <1>12, <1>13, <1>14 DEF Next
<1> QED BY <1>1, <1>14

LEMMA RequestsStep ==
  TypeOK /\ [Next]_vars => requests' \in [Reqs -> Request \union {Absent}]
<1> SUFFICES ASSUME TypeOK, [Next]_vars PROVE requests' \in [Reqs -> Request \union {Absent}]
  OBVIOUS
<1>0. requests \in [Reqs -> Request \union {Absent}] /\ now \in Int
  BY DEF TypeOK
<1>1. ASSUME NEW r \in Reqs, NEW resolution \in {"approved", "rejected"},
             requests[r] # Absent,
             requests' = [requests EXCEPT ![r] = Resolved(requests[r], resolution)]
      PROVE  requests' \in [Reqs -> Request \union {Absent}]
  <2>1. requests[r] \in Request BY <1>0, <1>1
  <2>2. Resolved(requests[r], resolution) \in Request BY <1>0, <2>1, ResolvedStep
  <2> QED BY <1>0, <1>1, <2>2
<1>2. ASSUME NEW r \in Reqs, NEW k \in Keys, NEW text \in Texts, NEW d \in Lifetimes,
             PostApprovalRequest(r, k, text, now + d)
      PROVE  requests' \in [Reqs -> Request \union {Absent}]
  <2>1. now + d \in Int BY <1>0, TimesAssumption
  <2>2. [status |-> "pending", key |-> k, text |-> text, expiresAt |-> now + d] \in Request
    BY <2>1 DEF Request
  <2> QED BY <1>0, <1>2, <2>2 DEF PostApprovalRequest
<1>3. ASSUME NEW r \in Reqs, NEW resolution \in {"approved", "rejected"}, ApiResolve(r, resolution)
      PROVE  requests' \in [Reqs -> Request \union {Absent}]
  BY <1>1, <1>3 DEF ApiResolve
<1>4. ASSUME NEW r \in Reqs, BotApprove(r)
      PROVE  requests' \in [Reqs -> Request \union {Absent}]
  BY <1>1, <1>4 DEF BotApprove
<1>5. ASSUME NEW r \in Reqs, BotReject(r)
      PROVE  requests' \in [Reqs -> Request \union {Absent}]
  BY <1>1, <1>5 DEF BotReject
<1>6. ASSUME NEW r \in Reqs, NEW m, NEW category, NEW text, ApiDispatchApproved(m, category, text, r)
      PROVE  requests' \in [Reqs -> Request \union {Absent}]
  BY <1>1, <1>6 DEF ApiDispatchApproved
<1>7. CASE UNCHANGED requests BY <1>0, <1>7
<1>8. ASSUME NEW m \in Messages,
             \/ Fetch(m) \/ DraftReply(m)
             \/ \E llmOk \in BOOLEAN : Classify(m, llmOk)
             \/ \E category \in Categories, text \in ApiTexts, approval \in {"pending", "rejected"} :
                  ApiDispatch(m, category, text, approval)
      PROVE  UNCHANGED requests
  BY <1>8 DEF Fetch, DraftReply, Classify, ApiDispatch
<1>9. ASSUME \/ AbandonSync \/ StartReplyWorker \/ StartFollowUps \/ Tick
             \/ \E item \in reviews : ResolveReview(item)
             \/ \E next \in Modes : SetMode(next)
             \/ \E c \in Conversations : PlanFollowUp(c)
      PROVE  UNCHANGED requests
  BY <1>9 DEF AbandonSync, StartReplyWorker, StartFollowUps, Tick, ResolveReview, SetMode, PlanFollowUp
<1>10. CASE Next
  BY <1>2, <1>3, <1>4, <1>5, <1>6, <1>7, <1>8, <1>9, <1>10 DEF Next
<1>11. CASE UNCHANGED vars BY <1>7, <1>11 DEF vars
<1> QED BY <1>10, <1>11

LEMMA InboxStep ==
  TypeOK /\ [Next]_vars => /\ inbox' \in [Messages -> {"unseen", "recorded", "classified"}]
                           /\ awaiting' \subseteq Messages
                           /\ mode' \in Modes
<1> SUFFICES ASSUME TypeOK, [Next]_vars
             PROVE  /\ inbox' \in [Messages -> {"unseen", "recorded", "classified"}]
                    /\ awaiting' \subseteq Messages
                    /\ mode' \in Modes
  OBVIOUS
<1>0. /\ inbox \in [Messages -> {"unseen", "recorded", "classified"}]
      /\ awaiting \subseteq Messages /\ mode \in Modes
  BY DEF TypeOK
<1>1. ASSUME NEW m \in Messages, Fetch(m) \/ \E llmOk \in BOOLEAN : Classify(m, llmOk)
      PROVE  /\ inbox' \in [Messages -> {"unseen", "recorded", "classified"}]
             /\ awaiting' \subseteq Messages /\ mode' \in Modes
  BY <1>0, <1>1 DEF Fetch, Classify
<1>2. ASSUME AbandonSync \/ \E next \in Modes : SetMode(next)
      PROVE  /\ inbox' = inbox /\ awaiting' \subseteq awaiting /\ mode' \in Modes
  BY <1>0, <1>2 DEF AbandonSync, SetMode
<1>3. CASE UNCHANGED <<inbox, awaiting, mode>> BY <1>0, <1>3
<1>4. ASSUME NEW m \in Messages,
             \/ DraftReply(m)
             \/ \E category \in Categories, text \in ApiTexts :
                  \/ \E approval \in {"pending", "rejected"} :
                       ApiDispatch(m, category, text, approval)
                  \/ \E r \in Reqs : ApiDispatchApproved(m, category, text, r)
      PROVE  UNCHANGED <<inbox, awaiting, mode>>
  BY <1>4 DEF DraftReply, ApiDispatch, ApiDispatchApproved, ApiRecords
<1>5. ASSUME \/ StartReplyWorker \/ StartFollowUps \/ Tick
             \/ \E item \in reviews : ResolveReview(item)
             \/ \E c \in Conversations : PlanFollowUp(c)
      PROVE  UNCHANGED <<inbox, awaiting, mode>>
  BY <1>5 DEF StartReplyWorker, StartFollowUps, Tick, ResolveReview, PlanFollowUp
<1>6. ASSUME NEW r \in Reqs,
             \/ \E k \in Keys, text \in Texts, d \in Lifetimes :
                  PostApprovalRequest(r, k, text, now + d)
             \/ \E resolution \in {"approved", "rejected"} : ApiResolve(r, resolution)
             \/ BotReject(r) \/ BotApprove(r)
      PROVE  UNCHANGED <<inbox, awaiting, mode>>
  BY <1>6 DEF PostApprovalRequest, ApiResolve, BotReject, BotApprove
<1>7. CASE Next
  BY <1>0, <1>1, <1>2, <1>3, <1>4, <1>5, <1>6, <1>7 DEF Next
<1>8. CASE UNCHANGED vars BY <1>3, <1>8 DEF vars
<1> QED BY <1>7, <1>8

\* What becomes of the follow-ups.
LEMMA FollowUpsStep ==
  TypeInv /\ [Next]_vars =>
    \/ followUps' = followUps
    \/ \E c \in Conversations, n \in Nat :
         BelowCaps(c) /\ followUps' = followUps \union {<<c, n>>}
<1> SUFFICES ASSUME TypeInv, [Next]_vars, followUps' # followUps
             PROVE  \E c \in Conversations, n \in Nat :
                      BelowCaps(c) /\ followUps' = followUps \union {<<c, n>>}
  OBVIOUS
<1>1. Next BY DEF vars
<1>2. ~ \E m \in Messages :
          \/ Fetch(m) \/ DraftReply(m)
          \/ \E llmOk \in BOOLEAN : Classify(m, llmOk)
          \/ \E category \in Categories, text \in ApiTexts :
               \/ \E approval \in {"pending", "rejected"} :
                    ApiDispatch(m, category, text, approval)
               \/ \E r \in Reqs : ApiDispatchApproved(m, category, text, r)
  <2>1. ASSUME NEW m \in Messages, Fetch(m) \/ \E llmOk \in BOOLEAN : Classify(m, llmOk)
        PROVE  FALSE
    BY <2>1 DEF Fetch, Classify
  <2>2. ASSUME NEW m \in Messages, DraftReply(m) PROVE FALSE
    BY <2>2 DEF DraftReply
  <2>3. ASSUME NEW m, NEW category, NEW text, NEW approval, ApiRecords(m, category, text, approval)
        PROVE  FALSE
    BY <2>3 DEF ApiRecords
  <2>4. ASSUME NEW m, NEW category, NEW text, NEW approval, ApiDispatch(m, category, text, approval)
        PROVE  FALSE
    BY <2>3, <2>4 DEF ApiDispatch
  <2>5. ASSUME NEW m, NEW category, NEW text, NEW r, ApiDispatchApproved(m, category, text, r)
        PROVE  FALSE
    BY <2>3, <2>5 DEF ApiDispatchApproved
  <2> QED BY <2>1, <2>2, <2>4, <2>5
<1>3. ~ \/ AbandonSync \/ StartReplyWorker \/ StartFollowUps \/ Tick
        \/ \E item \in reviews : ResolveReview(item)
        \/ \E next \in Modes : SetMode(next)
  BY DEF AbandonSync, StartReplyWorker, StartFollowUps, Tick, ResolveReview, SetMode
<1>4. ~ \E r \in Reqs :
          \/ \E k \in Keys, text \in Texts, d \in Lifetimes :
               PostApprovalRequest(r, k, text, now + d)
          \/ \E resolution \in {"approved", "rejected"} : ApiResolve(r, resolution)
          \/ BotApprove(r) \/ BotReject(r)
  BY DEF PostApprovalRequest, ApiResolve, BotReject, BotApprove
<1>5. PICK c \in Conversations : PlanFollowUp(c)
  BY <1>1, <1>2, <1>3, <1>4 DEF Next
<1> QED BY <1>5, PlanStep

LEMMA OutboundStep ==
  TypeOK /\ [Next]_vars => /\ outbound' \in [Keys -> Record \union {Absent}]
                           /\ now' \in Int
<1> SUFFICES ASSUME TypeOK, [Next]_vars
             PROVE  outbound' \in [Keys -> Record \union {Absent}] /\ now' \in Int
  OBVIOUS
<1>1. CASE Quiet BY <1>1 DEF Quiet, TypeOK
<1>2. CASE Writing
  <2>1. PICK k \in Keys, text \in Texts, policy \in PolicyVerdicts, approval \in Approvals :
          Writes(k, text, policy, approval)
    BY <1>2 DEF Writing
  <2>2. outbound' \in [Keys -> Record \union {Absent}] BY <2>1, WriteStep
  <2>3. now' = now BY <2>1 DEF Writes
  <2> QED BY <2>2, <2>3 DEF TypeOK
<1> QED BY <1>1, <1>2, StepWrites

LEMMA InitTyped == Init => TypeInv
<1> SUFFICES ASSUME Init PROVE TypeInv
  OBVIOUS
<1>1. IsFiniteSet(followUps) BY FS_EmptySet DEF Init
<1>2. TypeOK BY DEF Init, TypeOK
<1> QED BY <1>1, <1>2 DEF TypeInv

LEMMA TypeStep == TypeInv /\ [Next]_vars => TypeInv'
<1> SUFFICES ASSUME TypeInv, [Next]_vars PROVE TypeInv'
  OBVIOUS
<1>1. TypeOK BY DEF TypeInv
<1>2. followUps' \subseteq Conversations \X Nat /\ IsFiniteSet(followUps')
  <2>1. CASE followUps' = followUps BY <2>1 DEF TypeInv, TypeOK
  <2>2. CASE followUps' # followUps
    <3>1. PICK c \in Conversations, n \in Nat : followUps' = followUps \union {<<c, n>>}
      BY <2>2, FollowUpsStep
    <3>2. IsFiniteSet(followUps') BY <3>1, FS_AddElement DEF TypeInv
    <3> QED BY <1>1, <3>1, <3>2 DEF TypeOK
  <2> QED BY <2>1, <2>2
<1> QED BY <1>1, <1>2, InboxStep, OutboundStep, RequestsStep, ReviewsStep DEF TypeInv, TypeOK

LEMMA TypeInvariant == Spec => []TypeInv
  BY InitTyped, TypeStep, PTL DEF Spec

\* Records, requests and reviews keep their types, whatever is sent, drafted,
\* planned and resolved.
THEOREM RepliesTypeCorrect == Spec => []TypeOK
<1>1. TypeInv => TypeOK BY DEF TypeInv
<1> QED BY <1>1, TypeInvariant, PTL

-----------------------------------------------------------------------------
(* Dispatch. *)

LEMMA FinalStep ==
  TypeInv /\ [Next]_vars
    => \A k \in Keys : Dispatched(outbound[k]) => outbound'[k] = outbound[k]
<1> SUFFICES ASSUME TypeInv, [Next]_vars, NEW k \in Keys, Dispatched(outbound[k])
             PROVE  outbound'[k] = outbound[k]
  OBVIOUS
<1>1. TypeOK BY DEF TypeInv
<1>2. CASE Quiet BY <1>2 DEF Quiet
<1>3. CASE Writing
  <2>1. PICK l \in Keys, text \in Texts, policy \in PolicyVerdicts, approval \in Approvals :
          Writes(l, text, policy, approval)
    BY <1>3 DEF Writing
  <2> QED BY <1>1, <2>1, WriteStep
<1> QED BY <1>1, <1>2, <1>3, StepWrites

\* A dispatched reply keeps its text, proof and status for good.
THEOREM RepliesFinal == Spec => DispatchFinal
<1>1. TypeInv /\ [Next]_vars
        => [\A k \in Keys : Dispatched(outbound[k]) => outbound'[k] = outbound[k]]_vars
  BY FinalStep
<1> QED BY <1>1, TypeInvariant, PTL DEF Spec, DispatchFinal

LEMMA ApprovedStep ==
  TypeInv /\ [Next]_vars
    => \A k \in Keys :
         (/\ Dispatched(outbound'[k]) /\ ~Dispatched(outbound[k])
          /\ outbound'[k].policy = "requires_user_approval")
         => Backing(k, outbound'[k].text)
<1> SUFFICES ASSUME TypeInv, [Next]_vars, NEW k \in Keys,
                    Dispatched(outbound'[k]), ~Dispatched(outbound[k]),
                    outbound'[k].policy = "requires_user_approval"
             PROVE  Backing(k, outbound'[k].text)
  OBVIOUS
<1>1. TypeOK BY DEF TypeInv
<1>2. ~Quiet BY DEF Quiet
<1>3. Writing BY <1>1, <1>2, StepWrites
<1>4. PICK l \in Keys, text \in Texts, policy \in PolicyVerdicts, approval \in Approvals :
        Writes(l, text, policy, approval)
  BY <1>3 DEF Writing
<1>5. \A j \in Keys : j # l => outbound'[j] = outbound[j]
  BY <1>1, <1>4, WriteStep
<1>6. k = l BY <1>5
<1> QED BY <1>1, <1>4, <1>6, WriteStep

\* A reply that needs the user is dispatched only on an approved, unexpired
\* request of its key and text, whichever of the three gateways does it.
THEOREM RepliesApproved == Spec => DispatchApproved
<1>1. TypeInv /\ [Next]_vars
        => [\A k \in Keys :
              (/\ Dispatched(outbound'[k]) /\ ~Dispatched(outbound[k])
               /\ outbound'[k].policy = "requires_user_approval")
              => Backing(k, outbound'[k].text)]_vars
  BY ApprovedStep
<1> QED BY <1>1, TypeInvariant, PTL DEF Spec, DispatchApproved, Backing

-----------------------------------------------------------------------------
(* Limits.  Every window is the set of live records of a class of keys that
   are younger than the window. *)

Recent(class, window) ==
  { k \in Keys : k \in class /\ outbound[k].status \in Live
                   /\ outbound[k].createdAt > now - window }
ThreadKeys(c) == { k \in Keys : ConversationOf(k) = c }
CompanyKeys(c) ==
  { k \in Keys : Company[c] # NoCompany /\ Company[ConversationOf(k)] = Company[c] }

Windows ==
  /\ Cardinality(Recent(Keys, Hour)) <= PerHour
  /\ \A c \in Conversations :
       /\ Cardinality(Recent(ThreadKeys(c), Day)) <= 1
       /\ Cardinality(Recent(CompanyKeys(c), Day)) <= PerCompanyDay
       /\ Cardinality(Recent(CompanyKeys(c), Week)) <= PerCompanyWeek

LEMMA WindowsAre == WindowsKept <=> Windows
<1> DEFINE counted == { k \in Keys : outbound[k].status
                                       \in {"queued_for_review", "dry_run_recorded"} }
<1>1. Since(counted, Hour) = Recent(Keys, Hour)
  BY DEF Since, Recent, Live
<1>2. \A c, window : Since(SameConversation(counted, c), window) = Recent(ThreadKeys(c), window)
  BY DEF Since, SameConversation, Recent, ThreadKeys, Live
<1>3. \A c, window : Since(SameCompany(counted, c), window) = Recent(CompanyKeys(c), window)
  BY DEF Since, SameCompany, Recent, CompanyKeys, Live
<1> QED BY <1>1, <1>2, <1>3 DEF WindowsKept, Windows

\* The limits look at the same classes, without the record itself.
LEMMA LimitsAre ==
  ASSUME NEW k \in Keys, ReplyRateAllows(k)
  PROVE  LET c == ConversationOf(k)
         IN  /\ Cardinality(Recent(Keys, Hour) \ {k}) < PerHour
             /\ Cardinality(Recent(ThreadKeys(c), Day) \ {k}) < 1
             /\ Cardinality(Recent(CompanyKeys(c), Day) \ {k}) < PerCompanyDay
             /\ Cardinality(Recent(CompanyKeys(c), Week) \ {k}) < PerCompanyWeek
<1> DEFINE c == ConversationOf(k)
<1>1. Since(Counted(k), Hour) = Recent(Keys, Hour) \ {k}
  BY DEF Since, Counted, Recent, Live
<1>2. \A window : Since(SameConversation(Counted(k), c), window)
                    = Recent(ThreadKeys(c), window) \ {k}
  BY DEF Since, Counted, SameConversation, Recent, ThreadKeys, Live
<1>3. \A window : Since(SameCompany(Counted(k), c), window)
                    = Recent(CompanyKeys(c), window) \ {k}
  BY DEF Since, Counted, SameCompany, Recent, CompanyKeys, Live
<1> QED BY <1>1, <1>2, <1>3 DEF ReplyRateAllows

LEMMA KeysFinite == IsFiniteSet(Keys)
<1> DEFINE templated == { TemplateKey(m) : m \in Messages }
           categorised == { CategoryKey(m, c) : m \in Messages, c \in Categories }
<1>1. templated = Messages \X {"template"} /\ categorised = Messages \X Categories
  BY DEF TemplateKey, CategoryKey
<1>2. /\ IsFiniteSet(Messages \X {"template"})
      /\ IsFiniteSet(Messages \X Categories)
  BY FinitenessAssumption, FS_Product, FS_Singleton
<1>3. Keys = templated \union categorised
  BY DEF Keys
<1> HIDE DEF templated, categorised
<1> QED BY <1>1, <1>2, <1>3, FS_Union

LEMMA RecentFinite ==
  ASSUME NEW class, NEW window
  PROVE  IsFiniteSet(Recent(class, window))
  BY KeysFinite, FS_Subset DEF Recent

LEMMA Fewer ==
  ASSUME NEW S, NEW T, NEW n \in Nat, IsFiniteSet(S), T \subseteq S, Cardinality(S) <= n
  PROVE  Cardinality(T) <= n
<1>1. IsFiniteSet(T) /\ Cardinality(T) <= Cardinality(S) BY FS_Subset
<1>2. Cardinality(S) \in Nat /\ Cardinality(T) \in Nat BY <1>1, FS_CardinalityType
<1> QED BY <1>1, <1>2

LEMMA OneMore ==
  ASSUME NEW S, NEW T, NEW x, NEW n \in Nat, IsFiniteSet(S), T \subseteq S \union {x},
         Cardinality(S) < n
  PROVE  Cardinality(T) <= n
<1>1. /\ IsFiniteSet(S \union {x})
      /\ Cardinality(S \union {x}) = Cardinality(S)
           \/ Cardinality(S \union {x}) = Cardinality(S) + 1
  BY FS_AddElement
<1>2. Cardinality(S) \in Nat /\ Cardinality(S \union {x}) \in Nat BY <1>1, FS_CardinalityType
<1>3. Cardinality(S \union {x}) <= n BY <1>1, <1>2
<1> QED BY <1>1, <1>3, Fewer

\* No record comes to life in the step, and none becomes younger.
Settling(j) ==
  outbound'[j].status \in Live => /\ outbound[j].status \in Live
                                  /\ outbound'[j].createdAt = outbound[j].createdAt

LEMMA LiveStep ==
  ASSUME TypeOK, [Next]_vars
  PROVE  /\ now' = now \/ now' = now + 1
         /\ \/ \A j \in Keys : Settling(j)
            \/ \E k \in Keys : ReplyRateAllows(k) /\ \A j \in Keys \ {k} : Settling(j)
<1>1. CASE Quiet BY <1>1 DEF Quiet, Settling
<1>2. CASE Writing
  <2>1. PICK k \in Keys, text \in Texts, policy \in PolicyVerdicts, approval \in Approvals :
          Writes(k, text, policy, approval)
    BY <1>2 DEF Writing
  <2>2. now' = now BY <2>1 DEF Writes
  <2>3. \A j \in Keys \ {k} : Settling(j)
    BY <2>1, WriteStep DEF Settling
  <2>4. CASE outbound'[k].status \in Live /\ outbound[k].status \notin Live
    <3>1. ReplyRateAllows(k) BY <2>1, <2>4, WriteStep
    <3> QED BY <2>2, <2>3, <3>1
  <2>5. CASE outbound'[k].status \in Live /\ outbound[k].status \in Live
    <3>1. outbound[k] \in Record BY <2>5, AbsentRecord DEF TypeOK, Live
    <3>2. Settling(k) BY <2>1, <2>5, <3>1, WriteStep DEF Settling
    <3> QED BY <2>2, <2>3, <3>2
  <2>6. CASE outbound'[k].status \notin Live
    <3>1. Settling(k) BY <2>6 DEF Settling
    <3> QED BY <2>2, <2>3, <3>1
  <2> QED BY <2>4, <2>5, <2>6
<1> QED BY <1>1, <1>2, StepWrites

\* Where no record came to life, a window holds no more than it did.
LEMMA WindowShrinks ==
  ASSUME TypeOK, NEW class, NEW window \in Nat, now' = now \/ now' = now + 1,
         NEW kept, \A j \in kept : j \in Keys => Settling(j)
  PROVE  { j \in Recent(class, window)' : j \in kept } \subseteq Recent(class, window)
<1> SUFFICES ASSUME NEW j \in Recent(class, window)', j \in kept
             PROVE  j \in Recent(class, window)
  OBVIOUS
<1>1. /\ j \in Keys /\ j \in class /\ outbound'[j].status \in Live
      /\ outbound'[j].createdAt > now' - window
  BY DEF Recent
<1>2. /\ outbound[j].status \in Live
      /\ outbound'[j].createdAt = outbound[j].createdAt
  BY <1>1 DEF Settling
<1>3. outbound[j] \in Record BY <1>1, <1>2, AbsentRecord DEF TypeOK, Live
<1>4. outbound[j].createdAt \in Int /\ now \in Int BY <1>3 DEF Record, TypeOK
<1>5. outbound[j].createdAt > now - window BY <1>1, <1>2, <1>4
<1> QED BY <1>1, <1>2, <1>5 DEF Recent

\* A window within its limit stays within it: it shrinks, or it gains a record
\* the limit had room for.
LEMMA WindowStep ==
  ASSUME TypeOK, [Next]_vars, NEW class \in SUBSET Keys, NEW window \in Nat, NEW n \in Nat,
         Cardinality(Recent(class, window)) <= n,
         \A k \in class : ReplyRateAllows(k) => Cardinality(Recent(class, window) \ {k}) < n
  PROVE  Cardinality(Recent(class, window)') <= n
<1>1. IsFiniteSet(Recent(class, window)) BY RecentFinite
<1>2. now' = now \/ now' = now + 1 BY LiveStep
<1>3. CASE \A j \in Keys : Settling(j)
  <2>1. { j \in Recent(class, window)' : j \in Keys } \subseteq Recent(class, window)
    BY <1>2, <1>3, WindowShrinks
  <2>2. Recent(class, window)' \subseteq Recent(class, window) BY <2>1 DEF Recent
  <2> QED BY <1>1, <2>2, Fewer
<1>4. ASSUME NEW k \in Keys, ReplyRateAllows(k), \A j \in Keys \ {k} : Settling(j)
      PROVE  Cardinality(Recent(class, window)') <= n
  <2>1. { j \in Recent(class, window)' : j \in Keys \ {k} } \subseteq Recent(class, window)
    BY <1>2, <1>4, WindowShrinks
  <2>2. Recent(class, window)' \subseteq (Recent(class, window) \ {k}) \union {k}
    BY <2>1 DEF Recent
  <2>3. CASE k \in class
    <3>1. Cardinality(Recent(class, window) \ {k}) < n BY <1>4, <2>3
    <3>2. IsFiniteSet(Recent(class, window) \ {k}) BY <1>1, FS_Subset
    <3> QED BY <2>2, <3>1, <3>2, OneMore
  <2>4. CASE k \notin class
    <3>1. Recent(class, window)' \subseteq Recent(class, window)
      BY <2>1, <2>4 DEF Recent
    <3> QED BY <1>1, <3>1, Fewer
  <2> QED BY <2>3, <2>4
<1> QED BY <1>3, <1>4, LiveStep

WindowsInv == TypeInv /\ Windows

LEMMA WindowsInit == Init => WindowsInv
<1> SUFFICES ASSUME Init PROVE Windows
  BY InitTyped DEF WindowsInv
<1>1. \A class, window : Recent(class, window) = {}
  BY AbsentRecord DEF Init, Recent, Live
<1>2. Cardinality({}) = 0 BY FS_EmptySet
<1>3. /\ PerHour \in Nat /\ PerCompanyDay \in Nat /\ PerCompanyWeek \in Nat
  BY LimitsAssumption
<1> QED BY <1>1, <1>2, <1>3 DEF Windows

LEMMA WindowsStep == WindowsInv /\ [Next]_vars => WindowsInv'
<1> SUFFICES ASSUME WindowsInv, [Next]_vars PROVE Windows'
  BY TypeStep DEF WindowsInv
<1>1. TypeOK BY DEF WindowsInv, TypeInv
<1>2. /\ PerHour \in Nat /\ PerCompanyDay \in Nat /\ PerCompanyWeek \in Nat /\ 1 \in Nat
      /\ Hour \in Nat /\ Day \in Nat /\ Week \in Nat
  BY LimitsAssumption, TimesAssumption
<1>3. /\ Cardinality(Recent(Keys, Hour)) <= PerHour
      /\ \A c \in Conversations :
           /\ Cardinality(Recent(ThreadKeys(c), Day)) <= 1
           /\ Cardinality(Recent(CompanyKeys(c), Day)) <= PerCompanyDay
           /\ Cardinality(Recent(CompanyKeys(c), Week)) <= PerCompanyWeek
  BY DEF WindowsInv, Windows
<1>4. \A k \in Keys : ReplyRateAllows(k) => Cardinality(Recent(Keys, Hour) \ {k}) < PerHour
  BY LimitsAre
<1>5. Cardinality(Recent(Keys, Hour)') <= PerHour
  BY <1>1, <1>2, <1>3, <1>4, WindowStep
<1>6. ASSUME NEW c \in Conversations PROVE Cardinality(Recent(ThreadKeys(c), Day)') <= 1
  <2>1. ThreadKeys(c) \in SUBSET Keys BY DEF ThreadKeys
  <2>2. \A k \in ThreadKeys(c) : ReplyRateAllows(k) =>
          Cardinality(Recent(ThreadKeys(c), Day) \ {k}) < 1
    BY LimitsAre DEF ThreadKeys
  <2> QED BY <1>1, <1>2, <1>3, <2>1, <2>2, WindowStep
<1>7. ASSUME NEW c \in Conversations
      PROVE  /\ Cardinality(Recent(CompanyKeys(c), Day)') <= PerCompanyDay
             /\ Cardinality(Recent(CompanyKeys(c), Week)') <= PerCompanyWeek
  <2>1. CompanyKeys(c) \in SUBSET Keys BY DEF CompanyKeys
  <2>2. \A k \in CompanyKeys(c) : CompanyKeys(ConversationOf(k)) = CompanyKeys(c)
    BY DEF CompanyKeys
  <2>3. \A k \in CompanyKeys(c) : ReplyRateAllows(k) =>
          /\ Cardinality(Recent(CompanyKeys(c), Day) \ {k}) < PerCompanyDay
          /\ Cardinality(Recent(CompanyKeys(c), Week) \ {k}) < PerCompanyWeek
    BY <2>1, <2>2, LimitsAre
  <2>4. Cardinality(Recent(CompanyKeys(c), Day)') <= PerCompanyDay
    BY <1>1, <1>2, <1>3, <2>1, <2>3, WindowStep
  <2>5. Cardinality(Recent(CompanyKeys(c), Week)') <= PerCompanyWeek
    BY <1>1, <1>2, <1>3, <2>1, <2>3, WindowStep
  <2> QED BY <2>4, <2>5
<1> QED BY <1>5, <1>6, <1>7 DEF Windows

\* The reply limits hold in every window at every time: a draft that was
\* blocked, and comes back with its old date, was let in only where the
\* windows it counts in had room.
THEOREM RepliesWithinLimits == Spec => []WindowsKept
<1>1. Spec => []WindowsInv BY WindowsInit, WindowsStep, PTL DEF Spec
<1>2. WindowsInv => WindowsKept BY WindowsAre DEF WindowsInv
<1> QED BY <1>1, <1>2, PTL

-----------------------------------------------------------------------------
(* Follow-ups. *)

CapsInv == TypeInv /\ FollowUpCaps

LEMMA CapsInit == Init => CapsInv
<1> SUFFICES ASSUME Init PROVE FollowUpCaps
  BY InitTyped DEF CapsInv
<1>1. \A cs : FollowUpsOf(cs) = {} BY DEF Init, FollowUpsOf
<1>2. Cardinality({}) = 0 BY FS_EmptySet
<1>3. MaxFollowUps \in Nat /\ CompanyMaxFollowUps \in Nat BY LimitsAssumption
<1> QED BY <1>1, <1>2, <1>3 DEF FollowUpCaps

\* One more item of thread d leaves every set of threads within its cap.
LEMMA CapStep ==
  ASSUME TypeInv, NEW d, NEW m, followUps' = followUps \union {<<d, m>>},
         NEW cs, NEW n \in Nat, Cardinality(FollowUpsOf(cs)) <= n,
         d \in cs => Cardinality(FollowUpsOf(cs)) < n
  PROVE  Cardinality(FollowUpsOf(cs)') <= n
<1>1. IsFiniteSet(FollowUpsOf(cs)) BY FS_Subset DEF TypeInv, FollowUpsOf
<1>2. CASE d \in cs
  <2>1. FollowUpsOf(cs)' \subseteq FollowUpsOf(cs) \union {<<d, m>>} BY DEF FollowUpsOf
  <2> QED BY <1>1, <1>2, <2>1, OneMore
<1>3. CASE d \notin cs
  <2>1. FollowUpsOf(cs)' \subseteq FollowUpsOf(cs) BY <1>3 DEF FollowUpsOf
  <2> QED BY <1>1, <2>1, Fewer
<1> QED BY <1>2, <1>3

LEMMA CapsStep == CapsInv /\ [Next]_vars => CapsInv'
<1> SUFFICES ASSUME CapsInv, [Next]_vars PROVE FollowUpCaps'
  BY TypeStep DEF CapsInv
<1>1. TypeInv BY DEF CapsInv
<1>2. CASE followUps' = followUps BY <1>2 DEF CapsInv, FollowUpCaps, FollowUpsOf
<1>3. CASE followUps' # followUps
  <2>1. PICK d \in Conversations, m \in Nat :
          BelowCaps(d) /\ followUps' = followUps \union {<<d, m>>}
    BY <1>1, <1>3, FollowUpsStep
  <2>2. MaxFollowUps \in Nat /\ CompanyMaxFollowUps \in Nat BY LimitsAssumption
  <2>3. /\ Cardinality(FollowUpsOf(CompanyThreads(d))) < CompanyMaxFollowUps
        /\ Cardinality(FollowUpsOf({d})) < MaxFollowUps
    BY <2>1 DEF BelowCaps
  <2>4. ASSUME NEW c \in Conversations
        PROVE  /\ Cardinality(FollowUpsOf({c})') <= MaxFollowUps
               /\ Cardinality(FollowUpsOf(CompanyThreads(c))') <= CompanyMaxFollowUps
    <3>1. /\ Cardinality(FollowUpsOf({c})) <= MaxFollowUps
          /\ Cardinality(FollowUpsOf(CompanyThreads(c))) <= CompanyMaxFollowUps
      BY DEF CapsInv, FollowUpCaps
    <3>2. d \in {c} => Cardinality(FollowUpsOf({c})) < MaxFollowUps BY <2>3
    <3>3. d \in CompanyThreads(c) => CompanyThreads(c) = CompanyThreads(d)
      BY DEF CompanyThreads
    <3>4. d \in CompanyThreads(c) =>
            Cardinality(FollowUpsOf(CompanyThreads(c))) < CompanyMaxFollowUps
      BY <2>3, <3>3
    <3>5. Cardinality(FollowUpsOf({c})') <= MaxFollowUps
      BY <1>1, <2>1, <2>2, <3>1, <3>2, CapStep
    <3>6. Cardinality(FollowUpsOf(CompanyThreads(c))') <= CompanyMaxFollowUps
      BY <1>1, <2>1, <2>2, <3>1, <3>4, CapStep
    <3> QED BY <3>5, <3>6
  <2> QED BY <2>4 DEF FollowUpCaps
<1> QED BY <1>2, <1>3

\* However often reviews are resolved and planned again, a thread gets no more
\* follow-ups than its cap and a company no more than its own.
THEOREM RepliesFollowUps == Spec => []FollowUpCaps
<1>1. Spec => []CapsInv BY CapsInit, CapsStep, PTL DEF Spec
<1>2. CapsInv => FollowUpCaps BY DEF CapsInv
<1> QED BY <1>1, <1>2, PTL

=============================================================================

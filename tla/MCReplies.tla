----------------------------- MODULE MCReplies -----------------------------
EXTENDS Replies, TLC

MCMessage(c, category, sensitive, unavailable, received) ==
  [conversation |-> c, category |-> category, sensitive |-> sensitive,
   unavailable |-> unavailable, received |-> received]

\* A scheduling mail and, in the same thread, a later question that says a
\* time is not available.
MCInbox ==
  "slot" :> MCMessage("c1", "scheduling_request", FALSE, FALSE, 0)
  @@ "ask" :> MCMessage("c1", "request_for_location", FALSE, TRUE, 1)
MCMessages == DOMAIN MCInbox
MCCompany == "c1" :> "acme"
MCTemplateText ==
  "request_for_location" :> "located" @@ "scheduling_request" :> "will_confirm"

\* Requests whose text the key can have: the others match nothing.
MatchingRequests ==
  \A r \in Reqs : requests[r] # Absent =>
    requests[r].text \in
      IF requests[r].key[2] = "template"
      THEN { TemplateText[c] : c \in DOMAIN TemplateText
                 \intersect {Inbox[requests[r].key[1]].category} }
      ELSE ApiTexts

\* The route answers the scheduling mail only: one key less.
RouteAnswersSlot ==
  \A c \in Categories : outbound[CategoryKey("ask", c)] = Absent

\* Follow-ups and replies do not read each other: one of them at a time.
OneSide ==
  followUps = {}
    \/ (/\ \A k \in Keys : outbound[k] = Absent
        /\ \A r \in Reqs : requests[r] = Absent)

\* Reviews other than follow_up_due are written and never read.
MCView == <<now, mode, inbox, awaiting, outbound, requests,
            { item \in reviews : item.reason = "follow_up_due" },
            followUps, todo>>
=============================================================================

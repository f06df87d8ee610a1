------------------------------ MODULE HttpTools ------------------------------
(***************************************************************************)
(* The tools that talk to a server over HTTP, one call at a time: the      *)
(* gates before the request, the request under its 30 s timer, the body of *)
(* the answer, which is read after the timer has been cleared, and the     *)
(* retries of webhook.                                                     *)
(*                                                                         *)
(* The server is external.  A request that the client has given up on may  *)
(* still be on its way (flying) and be performed later.  fetch follows     *)
(* redirects, no tool asks it not to: 307 and 308 repeat the request       *)
(* elsewhere, which is the same state again; 301, 302 and 303 may turn it  *)
(* into a GET of another page (asGet), which performs nothing.             *)
(***************************************************************************)
EXTENDS Gates, Integers

CONSTANT MaxRetries   \* the largest max_retries a caller passes to webhook

ASSUME MaxRetriesIsNat == MaxRetries \in Nat

VARIABLE http

Faults == {"url", "domain", "multipart", "query", "config", "token", "platform"}
Sound(f, fault, code) == <<Gate(fault \notin f, code)>>

\* What a tool makes of the answer: the body that cannot be read ("raw": the
\* error of response.text(), with no code of the tool), the body that is no
\* JSON, and the refusal.  "ignored": the tool does not look.
Request(gates, unreadable, notJson, refused) ==
    [gates |-> gates, unreadable |-> unreadable, notJson |-> notJson, refused |-> refused]
Plain(gates) == Request(gates, "raw", "ignored", "ok")

httpGet(f) == Plain(Sound(f, "url", "invalid-url"))
httpPut(f) == Plain(Sound(f, "url", "invalid-url"))
httpPatch(f) == Plain(Sound(f, "url", "invalid-url"))
httpDelete(f) == Plain(Sound(f, "url", "invalid-url"))
httpPost(f) ==
    Plain(Sound(f, "url", "invalid-url") \o Sound(f, "multipart", "invalid-content-type"))
fetchUrl(f) ==
    Plain(Sound(f, "url", "invalid-url") \o Sound(f, "domain", "domain-not-allowed"))
scrapePage(f) ==
    Request(Sound(f, "url", "invalid-url") \o Sound(f, "domain", "domain-not-allowed"),
            "parse-error", "ignored", "ok")
searchWeb(f) ==
    Request(Sound(f, "query", "invalid-query") \o Sound(f, "config", "missing-config"),
            "raw", "provider-error", "provider-error")
sendSlack(f) ==
    Request(Sound(f, "token", "missing-token"), "raw", "slack-api-error", "slack-api-error")
\* postMessage calls sendSlack and renames its codes.
postMessage(f) ==
    Request(Sound(f, "platform", "unsupported-platform") \o sendSlack(f).gates,
            "platform-error", "platform-error", "platform-error")
sendWebhook(f) == Plain(Sound(f, "url", "invalid-url"))
callWebhook(f) == Plain(Sound(f, "url", "invalid-url"))
\* sendNotification calls sendWebhook and demands a 2xx status.
sendNotification(f) ==
    Request(Sound(f, "platform", "unsupported-platform") \o sendWebhook(f).gates,
            "network-error", "ignored", "delivery-error")
webhook(f) == Plain(Sound(f, "url", "invalid-url"))

HttpRequests(f) ==
    [http_get |-> httpGet(f), http_put |-> httpPut(f), http_patch |-> httpPatch(f),
     http_delete |-> httpDelete(f), http_post |-> httpPost(f), fetch_url |-> fetchUrl(f),
     scrape_page |-> scrapePage(f), search_web |-> searchWeb(f), send_slack |-> sendSlack(f),
     post_message |-> postMessage(f), send_webhook |-> sendWebhook(f),
     call_webhook |-> callWebhook(f), send_notification |-> sendNotification(f),
     webhook |-> webhook(f)]

\* Tools that ask with GET, which a redirect leaves alone.
Getting == {"http_get", "fetch_url", "scrape_page", "search_web"}

\* Tools whose success says that the message has been delivered.
Confirming == {"search_web", "send_slack", "post_message", "send_notification"}

-----------------------------------------------------------------------------
HttpInit ==
    http = [pc |-> "idle", tool |-> "none", retries |-> 0, attempt |-> 0, last |-> 0,
            timer |-> FALSE, asGet |-> FALSE, answer |-> "none", performed |-> 0,
            flying |-> 0, code |-> "none"]

\* webhook makes max_retries + 1 attempts, every other tool one.
maxAttemptsOneMore(tool, retries) == IF tool = "webhook" THEN retries + 2 ELSE 1
maxAttempts(tool, retries) == IF tool = "webhook" THEN retries + 1 ELSE 1

\* fetch is called with the signal of a new AbortController, whose timer runs.
\* A plausible slip: the controller without the timer.
attemptPostUntimed(s, n) ==
    [s EXCEPT !.pc = "sending", !.attempt = n, !.timer = FALSE, !.asGet = FALSE,
              !.answer = "none"]
attemptPost(s, n) ==
    [s EXCEPT !.pc = "sending", !.attempt = n, !.timer = TRUE, !.asGet = FALSE,
              !.answer = "none"]

\* With max_retries = -1, which the manifest allows, the loop makes no attempt
\* and throws a lastError that is undefined.
Ask(tool, f, retries) ==
    /\ http.pc = "idle"
    /\ LET code == FirstFailure(HttpRequests(f)[tool].gates)
           s == [http EXCEPT !.tool = tool, !.retries = retries,
                             !.last = maxAttempts(tool, retries)]
       IN  http' = CASE code # "pass" -> [s EXCEPT !.pc = "ended", !.code = code]
                     [] code = "pass" /\ s.last = 0 ->
                          [s EXCEPT !.pc = "ended", !.code = "undefined"]
                     [] OTHER -> attemptPost(s, 1)

InFlight == http.pc = "sending" /\ http.answer = "none"

\* The request reaches the server, which performs or refuses it.
Arrive ==
    /\ InFlight
    /\ \/ http' = [http EXCEPT !.answer = "accepted",
                               !.performed = IF http.asGet THEN @ ELSE @ + 1]
       \/ http' = [http EXCEPT !.answer = "refused"]

\* Or it answers, whether it has performed the request or not, with the page to
\* get next.
Redirect ==
    /\ InFlight /\ ~http.asGet /\ http.tool \notin Getting
    /\ \E n \in {http.performed, http.performed + 1} :
          http' = [http EXCEPT !.asGet = TRUE, !.performed = n]

\* fetch resolves with the head of the answer; the timer is cleared.
Headers ==
    /\ http.pc = "sending" /\ http.answer # "none"
    /\ http' = [http EXCEPT !.pc = "reading", !.timer = FALSE]

\* fetch rejects: the attempt is over, although its request may yet arrive.
AttemptFails(code) ==
    http' = [http EXCEPT !.pc = IF http.attempt < http.last THEN "backoff" ELSE "ended",
                         !.timer = FALSE, !.code = code,
                         !.flying = IF InFlight /\ ~http.asGet THEN @ + 1 ELSE @]
NetworkFails == http.pc = "sending" /\ AttemptFails("network-error")
Abort == http.timer /\ AttemptFails("timeout")

\* sleep: BASE_BACKOFF_MS, doubled at each further attempt.
BackoffEnds == http.pc = "backoff" /\ http' = attemptPost(http, http.attempt + 1)

LateArrival ==
    /\ http.flying > 0
    /\ \/ http' = [http EXCEPT !.flying = @ - 1, !.performed = @ + 1]
       \/ http' = [http EXCEPT !.flying = @ - 1]

\* response.text() ends, and the tool looks at the body, or it rejects, which
\* webhook does not retry.
Ended(code) == http' = [http EXCEPT !.pc = "ended", !.code = code]
Verdict(request, json) ==
    IF ~json /\ request.notJson # "ignored" THEN request.notJson
    ELSE IF http.answer = "refused" THEN request.refused ELSE "ok"
BodyEnds ==
    /\ http.pc = "reading"
    /\ \E json \in BOOLEAN : Ended(Verdict(HttpRequests({})[http.tool], json))
BodyFails == http.pc = "reading" /\ Ended(HttpRequests({})[http.tool].unreadable)

HttpNext ==
    \/ \E tool \in DOMAIN HttpRequests({}), f \in SUBSET Faults, retries \in -1 .. MaxRetries :
          Ask(tool, f, retries)
    \/ Arrive \/ Redirect \/ Headers \/ NetworkFails \/ Abort \/ BackoffEnds \/ LateArrival
    \/ BodyEnds \/ BodyFails

\* Node fires a timer that is due.  Nothing bounds the time a body takes.
HttpFairness == WF_http(Abort) /\ WF_http(BackoffEnds)

HttpSpec == HttpInit /\ [][HttpNext]_http /\ HttpFairness

-----------------------------------------------------------------------------
\* Duplicates are bounded and success is not invented: the server performs a
\* call of webhook at most once per attempt, at most max_retries + 1 times for
\* the max_retries of that call, and every other call at most once, however late
\* an abandoned request arrives and whatever redirects it meets; and a tool that
\* confirms a delivery confirms one that has happened, unless a redirect has
\* turned its request into a GET, whose status is all that it then looks at.
DeliveryBound ==
    /\ http.performed + http.flying <= http.attempt
    /\ http.attempt <= IF http.tool = "webhook" THEN http.retries + 1 ELSE 1
    /\ http.tool \in Confirming /\ http.code = "ok" => http.performed = 1 \/ http.asGet

\* The timer and the retries never leave a caller waiting for the head of an
\* answer: a call ends, or its body is being read.
AnsweredOrReading == http.pc = "sending" ~> http.pc \in {"reading", "ended"}
=============================================================================

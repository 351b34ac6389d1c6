---------------------------- MODULE BrowserWorker ----------------------------
(***************************************************************************)
(* BrowserWorker.execute() of src/workers/browser.ts: the checks of a URL, *)
(* then a request and the reading of its body, both under one timer.       *)
(*                                                                         *)
(* Hosts are sequences of labels.  A host is a name, an address literal,   *)
(* or one that isPrivateOrInternalHost() recognises, which knows loopback, *)
(* link-local and private addresses, "localhost", and takes every name     *)
(* that begins with "fc" or "fd" for one.                                  *)
(***************************************************************************)
EXTENDS Naturals, Sequences, SequencesExt

CONSTANTS
  Executions,      \* the calls of execute() that may be made
  Urls,            \* the URLs they may be for
  AllowedDomains,  \* BrowserWorkerConfig.allowedDomains
  Servers,         \* what else than a page the server of each call may answer
  Bodies,          \* the lengths of the bodies it may send
  MaxBodyBytes     \* BrowserWorkerConfig.maxBodyBytes

HostKind == {"name", "literal", "private"}

ASSUME BrowserWorkerAssumption ==
  /\ \A u \in Urls : /\ u.protocol \in STRING
                     /\ u.host.kind \in HostKind
                     /\ u.tooLong \in BOOLEAN
  /\ \A entry \in AllowedDomains : entry.wildcard \in BOOLEAN
  /\ Servers \in [Executions -> SUBSET {"binary", "redirect", "failure"}]
  /\ Bodies \in [Executions -> SUBSET Nat] /\ MaxBodyBytes \in Nat

VARIABLES
  page,       \* how far each execution is
  contacted   \* history: the hosts a request was sent to

workerVars == <<page, contacted>>

(* What an execution ends with: a receipt and the tokens it says were      *)
(* used, or an error and the event type the broker is to record for it.    *)
WorkerEvent ==
  {"tool.finished", "tool.error", "browser.url.denied", "browser.protocol.denied",
   "browser.allowlist.denied", "browser.timeout", "browser.redirect.denied",
   "browser.network.error", "browser.content_type.denied", "browser.body.too_large"}
Outcome == [eventType : WorkerEvent, tokensUsed : Nat]

WorkerTypeOK ==
  page \in [Executions ->
              [state : {"idle", "requesting", "reading"}]
                \cup [state : {"ended"}, outcome : Outcome]]

WorkerInit ==
  /\ page = [e \in Executions |-> [state |-> "idle"]]
  /\ contacted = {}

-----------------------------------------------------------------------------
(* matchesDomainEntry(): an entry "*.x" is for x and whatever ends in .x.  *)
MatchesDomainEntry(host, entry) ==
  IF entry.wildcard THEN IsSuffix(entry.labels, host.labels)
                    ELSE host.labels = entry.labels

IsDomainAllowed(host) == \E entry \in AllowedDomains : MatchesDomainEntry(host, entry)

NoRefusal == "none"

(* The checks before anything is sent, in their order.                     *)
Refusal(url) ==
  CASE url.tooLong -> "browser.url.denied"
    [] ~url.tooLong /\ url.protocol \notin {"http", "https"} -> "browser.protocol.denied"
    [] ~url.tooLong /\ url.protocol \in {"http", "https"} ->
         IF url.host.kind # "name" THEN "browser.url.denied"
         ELSE IF IsDomainAllowed(url.host) THEN NoRefusal
         ELSE "browser.allowlist.denied"

Ends(e, event, tokens) ==
  page' = [page EXCEPT ![e] =
             [state |-> "ended", outcome |-> [eventType |-> event, tokensUsed |-> tokens]]]

(* execute(), to its first await.                                          *)
Execute(e, url) ==
  /\ page[e].state = "idle"
  /\ IF Refusal(url) = NoRefusal
     THEN /\ page' = [page EXCEPT ![e] = [state |-> "requesting"]]
          /\ contacted' = contacted \cup {url.host}
     ELSE /\ Ends(e, Refusal(url), 0)
          /\ UNCHANGED contacted

(* An answer: a body is read only if its content type is text or JSON.     *)
Responds(e) ==
  /\ page[e].state = "requesting"
  /\ \/ page' = [page EXCEPT ![e] = [state |-> "reading"]]
     \/ "binary" \in Servers[e] /\ Ends(e, "browser.content_type.denied", 0)
  /\ UNCHANGED contacted

(* Mutant of Redirects: a redirection is followed, wherever it leads.      *)
RedirectsFollowed(e) ==
  /\ page[e].state = "requesting" /\ "redirect" \in Servers[e]
  /\ \E url \in Urls : contacted' = contacted \cup {url.host}
  /\ page' = page

(* An answer that redirects, which fetch() is told to take for an error.   *)
(* That error is a TypeError "fetch failed", whose message says nothing of *)
(* a redirection, so that it is not recorded as browser.redirect.denied.   *)
Redirects(e) ==
  /\ page[e].state = "requesting" /\ "redirect" \in Servers[e]
  /\ Ends(e, "browser.network.error", 0)
  /\ UNCHANGED contacted

(* The connection fails. What fails while the body is read is not caught   *)
(* where the event types are given.                                        *)
ConnectionFails(e) ==
  /\ "failure" \in Servers[e]
  /\ \/ page[e].state = "requesting" /\ Ends(e, "browser.network.error", 0)
     \/ page[e].state = "reading" /\ Ends(e, "tool.error", 0)
  /\ UNCHANGED contacted

(* The body is there.                                                      *)
BodyArrives(e) ==
  /\ page[e].state = "reading"
  /\ \E length \in Bodies[e] :
       IF length > MaxBodyBytes THEN Ends(e, "browser.body.too_large", 0)
                                ELSE Ends(e, "tool.finished", length)
  /\ UNCHANGED contacted

(* Mutant of TimerFires: the timer is for the answer only, not the body.   *)
TimerFiresBeforeAnswer(e) ==
  /\ page[e].state = "requesting"
  /\ Ends(e, "browser.timeout", 0)
  /\ UNCHANGED contacted

(* The timer aborts the request, or the reading, which again has no event  *)
(* type of its own.  It is cleared when either has ended, so that one of   *)
(* answer and timer comes too late to do anything.                         *)
TimerFires(e) ==
  /\ \/ page[e].state = "requesting" /\ Ends(e, "browser.timeout", 0)
     \/ page[e].state = "reading" /\ Ends(e, "tool.error", 0)
  /\ UNCHANGED contacted

WorkerNext(e) ==
  Responds(e) \/ Redirects(e) \/ ConnectionFails(e) \/ BodyArrives(e) \/ TimerFires(e)
=============================================================================

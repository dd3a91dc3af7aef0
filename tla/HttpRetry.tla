------------------------------- MODULE HttpRetry -------------------------------
(***************************************************************************)
(* One HTTP operation at a time through the pooled client and its closed   *)
(* retry policies (http/client.py, http/retry.py).  The provider is        *)
(* external: it may process a request whose answer is lost.                *)
(*                                                                         *)
(* Time is counted in half seconds of the monotonic clock.  A response     *)
(* body may arrive as slowly as its sender likes: the read timeout bounds  *)
(* the wait for the next bytes, not the whole body.                        *)
(***************************************************************************)
EXTENDS Integers

CONSTANTS
  TotalAttempts, OperationBudget, ConnectTimeout, ReadTimeout,
  BackoffBase, BackoffCap, RetryAfterCap,
  RetryAfters,      \* delays providers ask for, before the cap
  Proxies,          \* proxies the environment may name
  MaxOperations

ASSUME RetryAssumption ==
  /\ {TotalAttempts, OperationBudget, ConnectTimeout, ReadTimeout, BackoffBase,
      BackoffCap, RetryAfterCap, MaxOperations} \subseteq Nat
  /\ OperationBudget > 0 /\ RetryAfters \subseteq Nat

NoDelay == -1
Direct == "direct"
NoProxy == "none"

HttpOperation == {"safe_read", "claude_probe", "claude_refresh", "codex_refresh",
                  "claude_heartbeat", "codex_heartbeat"}
Policy ==
  [o \in HttpOperation |->
     [ambiguous_transport |-> o = "safe_read",
      rate_limit          |-> o \in {"safe_read", "claude_probe", "claude_heartbeat"},
      server_status       |-> o \in {"safe_read", "claude_probe"}]]


(* The facade methods, the operations each admits, and whether it only     *)
(* wants the headers of a response.                                        *)
Methods == {"get_json", "post_capture_headers", "post_form", "post_json"}
Allowed ==
  [get_json             |-> {"safe_read"},
   post_capture_headers |-> {"claude_probe", "claude_heartbeat", "codex_heartbeat"},
   post_form            |-> {"codex_refresh"},
   post_json            |-> {"claude_refresh"}]
Discards(m) == m = "post_capture_headers"

VARIABLES
  method, operation, pc,
  attempts, elapsed,
  terminal,   \* the outcome to raise if nothing better comes
  guidance,   \* last valid Retry-After
  delay,      \* what the executor sleeps before the next attempt
  outcome,    \* what the caller gets
  processed,  \* attempts of this operation the provider may have carried out
  closed, pools, proxy, environment, operations

request == <<method, operation, pc, attempts, elapsed, terminal, guidance, delay, outcome, processed>>
client == <<closed, pools, proxy, environment>>
retryVars == <<method, operation, pc, attempts, elapsed, terminal, guidance, delay, outcome,
          processed, closed, pools, proxy, environment, operations>>

RetryInit ==
  /\ method = "get_json" /\ operation = "safe_read" /\ pc = "idle"
  /\ attempts = 0 /\ elapsed = 0 /\ terminal = "transport" /\ guidance = NoDelay
  /\ delay = 0 /\ outcome = "none" /\ processed = 0
  /\ closed = FALSE /\ pools = {} /\ proxy = NoProxy
  /\ environment \in Proxies \cup {NoProxy} /\ operations = 0

LesserOf(a, b) == IF a < b THEN a ELSE b
Remaining == IF elapsed < OperationBudget THEN OperationBudget - elapsed ELSE 0
Ended(o) == pc' = "done" /\ outcome' = o

-----------------------------------------------------------------------------
(* The facade.  What it refuses never reaches the executor.                *)

Call(m, o) ==
  /\ pc \in {"idle", "done"} /\ operations < MaxOperations
  /\ operations' = operations + 1
  /\ method' = m /\ operation' = o
  /\ attempts' = 0 /\ elapsed' = 0 /\ terminal' = "transport" /\ guidance' = NoDelay
  /\ delay' = 0 /\ processed' = 0
  /\ \/ o \notin Allowed[m] /\ Ended("invalid_operation")
     \/ o \in Allowed[m] /\ Ended("insecure_url")
     \/ o \in Allowed[m] /\ m # "get_json" /\ Ended("invalid_payload")
     \/ o \in Allowed[m] /\ pc' = "loop" /\ outcome' = "none"
  /\ UNCHANGED client

(* The pool of an attempt: direct or the proxy the environment names now.  *)
(* A proxy that is not the last one replaces and clears it.                *)
Manager ==
  IF environment = NoProxy
  THEN pools' = pools \cup {Direct} /\ UNCHANGED proxy
  ELSE /\ proxy' = environment
       /\ pools' = (IF proxy = environment THEN pools ELSE pools \ {proxy}) \cup {environment}

MayAttempt == pc = "loop" /\ attempts < TotalAttempts /\ Remaining > 0
BeginAttempt ==
  /\ MayAttempt
  /\ attempts' = attempts + 1
  /\ \/ ~ closed /\ pc' = "sent" /\ Manager /\ UNCHANGED outcome
     \/ Ended("transport") /\ UNCHANGED <<pools, proxy>>  \* closed, or no pool could be made
  /\ UNCHANGED <<method, operation, elapsed, terminal, guidance, delay, processed,
                 closed, environment, operations>>

Exhausted ==
  /\ pc = "loop" /\ (attempts = TotalAttempts \/ Remaining = 0)
  /\ Ended(terminal)
  /\ UNCHANGED <<method, operation, attempts, elapsed, terminal, guidance, delay, processed,
                 client, operations>>

-----------------------------------------------------------------------------
(* Delays.  Between attempts the executor sleeps only when the sleep ends  *)
(* inside the budget.                                                      *)

Backoff(n) == LesserOf(BackoffCap, BackoffBase * 2 ^ (n - 1))
Delays(n, after) == IF after = NoDelay THEN {0, Backoff(n)} ELSE {after}

RetryDelay(may, after, d) ==
  /\ may /\ attempts < TotalAttempts
  /\ d \in Delays(attempts, after)
  /\ d < Remaining'

(* Retry with some delay, or raise what the attempt amounts to.            *)
RetryOr(may, after, result) ==
  \/ \E d \in Delays(attempts, after) :
       RetryDelay(may, after, d) /\ pc' = "sleeping" /\ delay' = d /\ UNCHANGED outcome
  \/ /\ \E d \in Delays(attempts, after) : ~ RetryDelay(may, after, d)
     /\ Ended(result) /\ UNCHANGED delay

(* Time an attempt takes: nothing, or all that its timeout allows.         *)
Takes(limit) == \E t \in {0, LesserOf(limit, Remaining)} : elapsed' = elapsed + t
ReadTakes == \E t \in {0, LesserOf(ReadTimeout, Remaining), OperationBudget + ReadTimeout} :
               elapsed' = elapsed + t

Processed == processed' \in {processed, processed + 1}
Sent == pc = "sent" /\ UNCHANGED <<method, operation, attempts, client, operations>>

-----------------------------------------------------------------------------
(* Transport failures: a connect timeout proves that nothing was sent.     *)

ProvenConnect ==
  /\ Sent /\ Takes(ConnectTimeout) /\ terminal' = "transport"
  /\ RetryOr(TRUE, NoDelay, "transport")
  /\ UNCHANGED <<guidance, processed>>

Ambiguous ==
  /\ Sent /\ Takes(ReadTimeout) /\ Processed /\ terminal' = "transport"
  /\ RetryOr(Policy[operation].ambiguous_transport, NoDelay, "transport")
  /\ UNCHANGED guidance

Terminal ==
  /\ Sent /\ Takes(ConnectTimeout) /\ terminal' = "transport" /\ Ended("transport")
  /\ UNCHANGED <<guidance, delay, processed>>

(* Mutant: any failure is taken for a proof that nothing was sent.         *)
AmbiguousAsConnect ==
  /\ Sent /\ Takes(ReadTimeout) /\ Processed /\ terminal' = "transport"
  /\ RetryOr(TRUE, NoDelay, "transport")
  /\ UNCHANGED guidance
LostAnswer == Ambiguous

-----------------------------------------------------------------------------
(* Responses.                                                              *)

(* parse_retry_after: seconds or a date, capped; anything else is nothing. *)
ParseRetryAfter(raw) == IF raw = NoDelay THEN NoDelay ELSE LesserOf(raw, RetryAfterCap)
Remembered(after) == IF after = NoDelay THEN guidance ELSE after

RateLimited ==
  \E raw \in RetryAfters \cup {NoDelay}, rejects \in BOOLEAN :
    LET after == ParseRetryAfter(raw) IN
    /\ Sent /\ ReadTakes
    /\ terminal' = "rate_limit" /\ guidance' = Remembered(after)
    /\ RetryOr(Policy[operation].rate_limit /\ ~ rejects, after, "rate_limit")
    /\ UNCHANGED processed

ServerFailure ==
  \E raw \in RetryAfters \cup {NoDelay}, retryable, rejects \in BOOLEAN :
    LET after == ParseRetryAfter(raw) IN
    /\ Sent /\ ReadTakes /\ Processed
    /\ terminal' = "server" /\ guidance' = Remembered(after)
    /\ RetryOr(Policy[operation].server_status /\ retryable /\ ~ rejects, after, "server")

(* The bounded body of a success: whole, too long or not decodable, or cut *)
(* off.  A caller that only wants headers gets an empty body instead.      *)
SuccessBody ==
  /\ Sent /\ ReadTakes /\ processed' = processed + 1 /\ UNCHANGED guidance
  /\ \/ Ended("ok") /\ UNCHANGED <<terminal, delay>>
     \/ ~ Discards(method) /\ Ended("invalid_payload") /\ UNCHANGED <<terminal, delay>>
     \/ /\ ~ Discards(method) /\ terminal' = "transport"
        /\ RetryOr(Policy[operation].ambiguous_transport, NoDelay, "transport")

Rejected ==
  /\ Sent /\ ReadTakes
  /\ \E o \in {"auth", "forbidden", "status"} : Ended(o)
  /\ UNCHANGED <<terminal, guidance, delay, processed>>

(* A sleep may last a little longer than it was asked to.                  *)
Sleep ==
  /\ pc = "sleeping" /\ pc' = "loop"
  /\ \E late \in {0, 1} : elapsed' = elapsed + delay + late
  /\ UNCHANGED <<method, operation, attempts, terminal, guidance, delay, outcome, processed,
                 client, operations>>

-----------------------------------------------------------------------------
Close ==
  /\ pc \in {"idle", "done"} /\ ~ closed
  /\ closed' = TRUE /\ pools' = pools \ {Direct, proxy}
  /\ UNCHANGED <<request, proxy, environment, operations>>

ProxyChanges ==
  /\ pc \in {"idle", "done", "sleeping"}
  /\ environment' \in (Proxies \cup {NoProxy}) \ {environment}
  /\ UNCHANGED <<request, closed, pools, proxy, operations>>

RetryNext ==
  \/ \E m \in Methods, o \in HttpOperation : Call(m, o)
  \/ BeginAttempt \/ Exhausted \/ ProvenConnect \/ LostAnswer \/ Terminal
  \/ RateLimited \/ ServerFailure \/ SuccessBody \/ Rejected \/ Sleep
  \/ Close \/ ProxyChanges

RetrySpec == RetryInit /\ [][RetryNext]_retryVars

-----------------------------------------------------------------------------
(* A rotating refresh and the request that warms a Codex window are carried*)
(* out at most once, whatever is lost on the way; Claude's only after the  *)
(* provider said that it did not.                                          *)
SingleUse == {"claude_refresh", "codex_refresh", "codex_heartbeat", "claude_heartbeat"}
CarriedOutOnce == operation \in SingleUse => processed <= 1
=============================================================================

------------------------------- MODULE Audit -------------------------------
(***************************************************************************)
(* The audit logger, internal/audit/audit.go: a buffered channel of        *)
(* events, the goroutine that handles them, a goroutine for each webhook   *)
(* and the one that tidies the deduplication map.  An event is a token:    *)
(* what it says does not matter here.                                      *)
(***************************************************************************)
EXTENDS Naturals

CONSTANTS EventBuffer,    \* capacity of eventCh
          MaxWebhooks     \* bound on the webhooks under way

VARIABLES eventCh,        \* events in the channel
          stopCh,         \* stopCh is closed
          processing,     \* processEvents: "select", "drain" or "returned"
          tidying,        \* cleanupWebhookDedup has not returned
          webhooks        \* sendWebhook goroutines

auditVars == <<eventCh, stopCh, processing, tidying, webhooks>>

AuditInit ==
    /\ eventCh = 0
    /\ stopCh = FALSE
    /\ processing = "select"
    /\ tidying = TRUE
    /\ webhooks = 0

\* Log: an event that does not fit is dropped.
Log == eventCh' = IF eventCh < EventBuffer THEN eventCh + 1 ELSE eventCh

\* handleEvent: a slow query starts a webhook.
HandleEvent ==
    /\ processing # "returned"
    /\ eventCh > 0
    /\ eventCh' = eventCh - 1
    /\ \E slow \in {0, 1} : webhooks + slow <= MaxWebhooks /\ webhooks' = webhooks + slow
    /\ UNCHANGED <<stopCh, processing, tidying>>

\* Mutant: the events left in the channel are not handled.
ProcessStopAtOnce ==
    /\ stopCh
    /\ processing = "select"
    /\ processing' = "returned"
    /\ UNCHANGED <<eventCh, stopCh, tidying, webhooks>>

\* The select takes the stop, be there events or not ...
ProcessStop ==
    /\ stopCh
    /\ processing = "select"
    /\ processing' = "drain"
    /\ UNCHANGED <<eventCh, stopCh, tidying, webhooks>>

\* ... and the goroutine returns once the channel is empty.
ProcessReturn ==
    /\ processing = "drain"
    /\ eventCh = 0
    /\ processing' = "returned"
    /\ UNCHANGED <<eventCh, stopCh, tidying, webhooks>>

\* Mutant: the loop of the ticker has no case for stopCh.
TidyReturnNever ==
    /\ FALSE
    /\ UNCHANGED auditVars

TidyReturn ==
    /\ stopCh
    /\ tidying
    /\ tidying' = FALSE
    /\ UNCHANGED <<eventCh, stopCh, processing, webhooks>>

\* sendWebhook returns: sent, refused, timed out, or skipped as a duplicate.
WebhookReturn ==
    /\ webhooks > 0
    /\ webhooks' = webhooks - 1
    /\ UNCHANGED <<eventCh, stopCh, processing, tidying>>

AuditStep == HandleEvent \/ ProcessStop \/ ProcessReturn \/ TidyReturn \/ WebhookReturn

\* What Close waits for: wg is zero.
AuditStopped == processing = "returned" /\ ~tidying /\ webhooks = 0
=============================================================================

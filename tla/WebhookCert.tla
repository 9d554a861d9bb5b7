----------------------------- MODULE WebhookCert -----------------------------
(***************************************************************************)
(* The certificate of the validating webhook.  Each instance of            *)
(* everoute-controller takes it from a secret when it starts, and makes    *)
(* the secret when there is none; the instance that leads writes the CA of *)
(* the secret into the webhook's configuration, by which the API server    *)
(* trusts the instances it calls.  A certificate is a number and stands    *)
(* for its CA too.                                                         *)
(***************************************************************************)
EXTENDS Integers, FiniteSets

CONSTANTS Instances,
          Retries,    \* bound: retries before the process gives up (10 in the code)
          MaxChanges, \* bound: the manifest applied or removed, the secret removed
          MaxFaults   \* bound: crashes, failed reads of the secret

VARIABLES
    deployed,  \* the instances that are deployed
    secret,    \* the certificate in the secret, None, or Invalid without a CA
    made,      \* certificates made
    pc,        \* "down", "get", "delete", "create" or "serve", by instance
    tries,     \* failed attempts of the operation under way, by instance
    served,    \* the certificate an instance has written to its disk
    leader,    \* the instance that leads, or "nobody"
    webhook,   \* the ValidatingWebhookConfiguration: its CABundle and version
    seen,      \* the leader's cache of it
    queued,    \* it is in the leader's queue
    changes, faults

apiVars == <<secret, made, webhook>>
instVars == <<pc, tries, served>>
leaderVars == <<leader, seen, queued>>
bounds == <<changes, faults>>
vars == <<deployed, apiVars, instVars, leaderVars, bounds>>

None == -1
Invalid == 0
Absent == [exists |-> FALSE, bundle |-> None, version |-> 0]

------------------------------------------------------------------------------
(* setWebhookCert: the secret is read and, if need be, deleted or created,  *)
(* each in a call of its own.                                               *)

Start(i) ==
    /\ i \in deployed /\ pc[i] = "down"
    /\ pc' = [pc EXCEPT ![i] = "get"] /\ tries' = [tries EXCEPT ![i] = 0]
    /\ UNCHANGED <<deployed, apiVars, served, leaderVars, bounds>>

\* The process ends; one that leads leaves its lease.
Exit(i) ==
    /\ pc' = [pc EXCEPT ![i] = "down"]
    /\ IF leader # i THEN UNCHANGED leaderVars
       ELSE leader' = "nobody" /\ seen' = Absent /\ queued' = FALSE

\* An attempt failed: another in a second, or the process gives up.
Retry(i) ==
    IF tries[i] = Retries THEN Exit(i) /\ UNCHANGED tries
    ELSE /\ tries' = [tries EXCEPT ![i] = @ + 1]
         /\ pc' = [pc EXCEPT ![i] = "get"]
         /\ UNCHANGED leaderVars

Serve(i, cert) ==
    /\ served' = [served EXCEPT ![i] = cert]
    /\ pc' = [pc EXCEPT ![i] = "serve"] /\ tries' = [tries EXCEPT ![i] = 0]
    /\ UNCHANGED leaderVars

\* A read that fails is taken for one that finds nothing.
Get(i) ==
    /\ pc[i] = "get"
    /\ \/ secret \notin {None, Invalid} /\ Serve(i, secret) /\ UNCHANGED faults
       \/ /\ secret \notin {None, Invalid} /\ faults < MaxFaults /\ faults' = faults + 1
          /\ pc' = [pc EXCEPT ![i] = "create"] /\ UNCHANGED <<tries, served, leaderVars>>
       \/ /\ secret \in {None, Invalid}
          /\ pc' = [pc EXCEPT ![i] = IF secret = None THEN "create" ELSE "delete"]
          /\ UNCHANGED <<tries, served, leaderVars, faults>>
    /\ UNCHANGED <<deployed, apiVars, changes>>

Delete(i) ==
    /\ pc[i] = "delete"
    /\ secret' = None /\ Retry(i)
    /\ UNCHANGED <<deployed, made, webhook, served, bounds>>

\* The secret that genSecret made is stored unless there is one by now.
Create(i) ==
    /\ pc[i] = "create"
    /\ IF secret = None
       THEN made' = made + 1 /\ secret' = made' /\ Serve(i, made')
       ELSE Retry(i) /\ UNCHANGED <<secret, made, served>>
    /\ UNCHANGED <<deployed, webhook, bounds>>

setWebhookCert(i) == Get(i) \/ Delete(i) \/ Create(i)

------------------------------------------------------------------------------
(* WebhookReconciler, which runs in the instance that leads.                *)

\* The caches are filled, and the configuration that exists is a create event.
Elect(i) ==
    /\ leader = "nobody" /\ pc[i] = "serve"
    /\ leader' = i /\ seen' = webhook /\ queued' = webhook.exists
    /\ UNCHANGED <<deployed, apiVars, instVars, bounds>>

\* (Mutant: update events are not queued.)
WebhookEventCreates ==
    /\ leader # "nobody" /\ seen # webhook
    /\ seen' = webhook
    /\ queued' = (queued \/ (webhook.exists /\ ~seen.exists))
    /\ UNCHANGED <<deployed, apiVars, instVars, leader, bounds>>

WebhookEvent ==
    /\ leader # "nobody" /\ seen # webhook
    /\ seen' = webhook
    /\ queued' = (queued \/ webhook.exists)
    /\ UNCHANGED <<deployed, apiVars, instVars, leader, bounds>>

\* The process ends when the configuration is not to be found at first, and when
\* the last retry fails: of an update that conflicts, or of a later read.
Reconcile ==
    /\ leader # "nobody" /\ queued
    /\ LET i == leader
           Done == queued' = FALSE /\ tries' = [tries EXCEPT ![i] = 0]
                   /\ UNCHANGED <<pc, leader, seen>>
       IN
       \/ ~seen.exists /\ tries[i] = 0 /\ Exit(i) /\ UNCHANGED <<webhook, tries>>
       \/ seen.exists /\ seen.bundle = secret /\ Done /\ UNCHANGED webhook
       \/ /\ seen.exists /\ seen.bundle # secret /\ seen = webhook
          /\ webhook' = [webhook EXCEPT !.bundle = secret, !.version = @ + 1]
          /\ Done
       \/ /\ IF seen.exists THEN seen.bundle # secret /\ seen # webhook ELSE tries[i] > 0
          /\ IF tries[i] = Retries THEN Exit(i) /\ UNCHANGED tries
             ELSE tries' = [tries EXCEPT ![i] = @ + 1] /\ UNCHANGED <<pc, leaderVars>>
          /\ UNCHANGED webhook
    /\ UNCHANGED <<deployed, secret, made, served, bounds>>

------------------------------------------------------------------------------
(* What others do.                                                          *)

\* The manifest, with an empty CABundle, is applied.
Apply ==
    /\ changes < MaxChanges /\ changes' = changes + 1
    /\ webhook.bundle # None \/ ~webhook.exists
    /\ webhook' = [exists |-> TRUE, bundle |-> None, version |-> webhook.version + 1]
    /\ UNCHANGED <<deployed, secret, made, instVars, leaderVars, faults>>

Remove ==
    /\ changes < MaxChanges /\ changes' = changes + 1
    /\ webhook.exists
    /\ webhook' = [exists |-> FALSE, bundle |-> None, version |-> webhook.version + 1]
    /\ UNCHANGED <<deployed, secret, made, instVars, leaderVars, faults>>

\* The secret is removed while nothing runs: an instance that runs keeps the
\* certificate it read, and finds the secret as it was.
RemoveSecret ==
    /\ changes < MaxChanges /\ changes' = changes + 1
    /\ secret # None /\ \A i \in Instances : pc[i] = "down"
    /\ secret' = None
    /\ UNCHANGED <<deployed, made, webhook, instVars, leaderVars, faults>>

Crash(i) ==
    /\ faults < MaxFaults /\ faults' = faults + 1
    /\ pc[i] # "down" /\ Exit(i)
    /\ UNCHANGED <<deployed, apiVars, tries, served, changes>>

------------------------------------------------------------------------------
\* Delete names the secret and no version of it, so of two instances that both
\* read an invalid one the slower would delete the secret of the faster: an
\* invalid secret is found by a single instance, as the manifest deploys it.
Init ==
    /\ deployed \in SUBSET Instances \ {{}}
    /\ secret \in {None, Invalid, 1}
    /\ secret = Invalid => Cardinality(deployed) = 1
    /\ made = 1
    /\ pc = [i \in Instances |-> "down"] /\ tries = [i \in Instances |-> 0]
    /\ served = [i \in Instances |-> None]
    /\ webhook = [exists |-> TRUE, bundle |-> None, version |-> 1]
    /\ leader = "nobody" /\ seen = Absent /\ queued = FALSE
    /\ changes = 0 /\ faults = 0

Next ==
    \/ \E i \in Instances : Start(i) \/ setWebhookCert(i) \/ Elect(i) \/ Crash(i)
    \/ WebhookEvent \/ Reconcile
    \/ Apply \/ Remove \/ RemoveSecret

\* Instances are restarted, the lease goes to one of them, and each goes on.
Fairness ==
    /\ \A i \in Instances : WF_vars(Start(i)) /\ WF_vars(setWebhookCert(i))
    /\ WF_vars(\E i \in Instances : Elect(i))
    /\ WF_vars(WebhookEvent) /\ WF_vars(Reconcile)

Spec == Init /\ [][Next]_vars /\ Fairness

------------------------------------------------------------------------------
Trusted == \A i \in deployed : /\ pc[i] = "serve"
                               /\ webhook.exists => webhook.bundle = served[i]

\* The API server comes to trust every deployed instance: each serves the
\* certificate whose CA the webhook's configuration holds, whatever crashes, and
\* however often the manifest's empty CABundle is applied over it.
CertTrusted == <>[]Trusted
==============================================================================
